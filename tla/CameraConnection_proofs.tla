----------------------- MODULE CameraConnection_proofs -----------------------
(***************************************************************************)
(* Proofs about CameraConnection, for any number of cameras and            *)
(* descriptors and any application.                                        *)
(***************************************************************************)
EXTENDS CameraConnection, WellFoundedInduction, TLAPS

\* What the calling thread's step says about the device handle and the helpers.
Position(c) ==
  /\ pc[c] \in {"connect", "lookUp", "open", "reset", "unrefDevice", "closeFd", "exitContext"}
       => handle[c] = "none"
  /\ pc[c] \in {"stopPreview", "emitReady", "deleteHelpers"} => helpers[c]
  /\ pc[c] \in {"createHelpers", "kill", "closeUsb"} => handle[c] = "open" /\ ~helpers[c]
  /\ pc[c] \in {"join", "freeHandle"} <=> handle[c] = "closed"
  /\ helpers[c] => handle[c] = "open"
  /\ handle[c] = "open" => helpers[c] \/ pc[c] \in {"createHelpers", "kill", "closeUsb"}
  /\ pc[c] = "emit" /\ call[c] = "destroy" => handle[c] = "none"
  /\ pc[c] \in {"connect", "lookUp", "open", "createHelpers"} => call[c] = "connect"

\* The handler thread lives within the handle, which lives within the context.
HandlerInv(c) ==
  /\ thread[c] = "status" => handle[c] = "open"
  /\ thread[c] # "none" => handle[c] # "none" /\ context[c] # "none"
  /\ pc[c] = "freeHandle" => thread[c] = "none"
  /\ pc[c] \in {"lookUp", "open"} => context[c] # "none"

RefsInv(c) ==
  /\ refs[c] = overwritten[c] + (IF device[c] THEN 1 ELSE 0) + (IF handle[c] # "none" THEN 1 ELSE 0)
  /\ overwritten[c] > 0 => c \in Reused
  /\ c \notin Reused /\ pc[c] \in {"connect", "lookUp"} => ~device[c]
  /\ pc[c] = "open" => device[c]

\* A descriptor in mFd or in the hands of connect() is the camera's own, but for a
\* descriptor 0 that a camera without one has closed.
FdInv(c) ==
  /\ mine[c] = "own" => owner[mFd[c]] = c \/ (mFd[c] = 0 /\ stray)
  /\ mine[c] # "own" => mFd[c] = 0
  /\ usbFs[c] /\ mine[c] = "none" => pc[c] \in {"lookUp", "open", "createHelpers"}
  /\ newFd[c] # NoFd => owner[newFd[c]] = c \/ (newFd[c] = 0 /\ stray)
  /\ newFd[c] # NoFd => pc[c] \in {"lookUp", "open", "createHelpers"}
  /\ pc[c] \in {"open", "createHelpers"} => newFd[c] # NoFd
  /\ newFd[c] # NoFd /\ mine[c] = "own" => newFd[c] # mFd[c] \/ (newFd[c] = 0 /\ stray)

\* A camera that is not connected again enters connect() with nothing left of an
\* earlier connection.
OnceInv(c) ==
  c \notin Reused =>
    /\ pc[c] = "connect" => context[c] = "none" /\ \A f \in Fds : owner[f] # c
    /\ pc[c] \in {"lookUp", "open", "createHelpers"} =>
         /\ context[c] = "live" /\ usbFs[c]
         /\ \A f \in Fds : owner[f] = c => f = newFd[c]
    /\ handle[c] = "open" /\ pc[c] # "closeUsb" => context[c] = "live"
    /\ handle[c] = "open" /\ pc[c] # "closeUsb" => thread[c] \in {"looping", "status"}
    /\ \A f \in Fds : owner[f] = c => f = newFd[c] \/ (f = mFd[c] /\ usbFs[c])

CameraInv ==
  TypeOK /\ \A c \in Cameras :
    Position(c) /\ HandlerInv(c) /\ RefsInv(c) /\ FdInv(c) /\ OnceInv(c)

LEMMA ExceptType ==
  ASSUME NEW S, NEW T, NEW f \in [S -> T], NEW x, NEW v \in T
  PROVE  [f EXCEPT ![x] = v] \in [S -> T]
  OBVIOUS

\* dup() returns a descriptor that is free, if there is one.
LEMMA DupIsFree == Dup = NoFd \/ (Dup \in Fds /\ owner[Dup] = Free)
<1>1. CASE FreeFds = {}
  BY <1>1 DEF Dup
<1>2. CASE FreeFds # {}
  <2>1. FreeFds \subseteq Nat
    BY FdsAssumption DEF FreeFds, Fds
  <2>2. PICK f \in FreeFds : \A g \in FreeFds : ~ (<<g, f>> \in OpToRel(<, Nat))
    BY <1>2, <2>1, NatLessThanWellFounded, WFMin, Zenon
  <2>3. ASSUME NEW g \in FreeFds PROVE f =< g
    <3>1. <<g, f>> \in Nat \X Nat
      BY <2>1
    <3>2. ~ (g < f)
      BY <3>1, <2>2, <2>3 DEF OpToRel
    <3> QED  BY <3>2, <2>1
  <2>4. Min(FreeFds) \in FreeFds
    BY <2>3 DEF Min
  <2> QED  BY <1>2, <2>4 DEF Dup, FreeFds
<1> QED  BY <1>1, <1>2

-----------------------------------------------------------------------------
(* One step per action.                                                    *)

LEMMA CreateKeeps == \A c \in Cameras : CameraInv /\ Create(c) => CameraInv'
<1> SUFFICES ASSUME NEW c \in Cameras, CameraInv, Create(c) PROVE CameraInv'  OBVIOUS
<1> USE OwnerAssumption, FdsAssumption DEF CameraInv, TypeOK, Fds, NoFd, Create, Goto, objVars,
     callVars, usbVars, fdVars
<1>1. TypeOK'
  BY CallsAssumption DEF Levels, Calls, Steps
<1>2. ASSUME NEW d \in Cameras
      PROVE  (Position(d) /\ HandlerInv(d) /\ RefsInv(d) /\ FdInv(d) /\ OnceInv(d))'
  BY <1>2 DEF Position, HandlerInv, RefsInv, FdInv, OnceInv
<1> QED  BY <1>1, <1>2

LEMMA RefuseConnectKeeps == \A c \in Cameras : CameraInv /\ RefuseConnect(c) => CameraInv'
<1> SUFFICES ASSUME NEW c \in Cameras, CameraInv, RefuseConnect(c) PROVE CameraInv'  OBVIOUS
<1> USE OwnerAssumption, FdsAssumption DEF CameraInv, TypeOK, Fds, NoFd, RefuseConnect, Goto,
     EmitOrReturn, objVars, callVars, usbVars, fdVars
<1>1. TypeOK'
  BY CallsAssumption DEF Levels, Calls, Steps
<1>2. ASSUME NEW d \in Cameras
      PROVE  (Position(d) /\ HandlerInv(d) /\ RefsInv(d) /\ FdInv(d) /\ OnceInv(d))'
  BY <1>2 DEF Position, HandlerInv, RefsInv, FdInv, OnceInv
<1> QED  BY <1>1, <1>2

LEMMA CallConnectKeeps == \A c \in Cameras : CameraInv /\ CallConnect(c) => CameraInv'
<1> SUFFICES ASSUME NEW c \in Cameras, CameraInv, CallConnect(c) PROVE CameraInv'  OBVIOUS
<1> USE OwnerAssumption, FdsAssumption DEF CameraInv, TypeOK, Fds, NoFd, CallConnect, Goto,
     Enter, objVars, callVars, usbVars, fdVars
<1>1. TypeOK'
  BY CallsAssumption DEF Levels, Calls, Steps
<1>2. ASSUME NEW d \in Cameras
      PROVE  (Position(d) /\ HandlerInv(d) /\ RefsInv(d) /\ FdInv(d) /\ OnceInv(d))'
  BY <1>2 DEF Position, HandlerInv, RefsInv, FdInv, OnceInv
<1> QED  BY <1>1, <1>2

LEMMA SetFrameBufferRingKeeps == \A c \in Cameras : CameraInv /\ SetFrameBufferRing(c) => CameraInv'
<1> SUFFICES ASSUME NEW c \in Cameras, CameraInv, SetFrameBufferRing(c) PROVE CameraInv'  OBVIOUS
<1> USE OwnerAssumption, FdsAssumption DEF CameraInv, TypeOK, Fds, NoFd, SetFrameBufferRing,
     Goto, objVars, callVars, usbVars, fdVars
<1>1. TypeOK'
  BY CallsAssumption DEF Levels, Calls, Steps
<1>2. ASSUME NEW d \in Cameras
      PROVE  (Position(d) /\ HandlerInv(d) /\ RefsInv(d) /\ FdInv(d) /\ OnceInv(d))'
  BY <1>2 DEF Position, HandlerInv, RefsInv, FdInv, OnceInv
<1> QED  BY <1>1, <1>2

LEMMA StartPreviewKeeps == \A c \in Cameras : CameraInv /\ StartPreview(c) => CameraInv'
<1> SUFFICES ASSUME NEW c \in Cameras, CameraInv, StartPreview(c) PROVE CameraInv'  OBVIOUS
<1> USE OwnerAssumption, FdsAssumption DEF CameraInv, TypeOK, Fds, NoFd, StartPreview, Goto,
     Enter, objVars, callVars, usbVars, fdVars
<1>1. TypeOK'
  BY CallsAssumption DEF Levels, Calls, Steps
<1>2. ASSUME NEW d \in Cameras
      PROVE  (Position(d) /\ HandlerInv(d) /\ RefsInv(d) /\ FdInv(d) /\ OnceInv(d))'
  BY <1>2 DEF Position, HandlerInv, RefsInv, FdInv, OnceInv
<1> QED  BY <1>1, <1>2

LEMMA CallStopKeeps == \A c \in Cameras : CameraInv /\ CallStop(c) => CameraInv'
<1> SUFFICES ASSUME NEW c \in Cameras, CameraInv, CallStop(c) PROVE CameraInv'  OBVIOUS
<1> USE OwnerAssumption, FdsAssumption DEF CameraInv, TypeOK, Fds, NoFd, CallStop, Goto, Enter,
     objVars, callVars, usbVars, fdVars
<1>1. TypeOK'
  BY CallsAssumption DEF Levels, Calls, Steps
<1>2. ASSUME NEW d \in Cameras
      PROVE  (Position(d) /\ HandlerInv(d) /\ RefsInv(d) /\ FdInv(d) /\ OnceInv(d))'
  BY <1>2 DEF Position, HandlerInv, RefsInv, FdInv, OnceInv
<1> QED  BY <1>1, <1>2

LEMMA CallReleaseKeeps == \A c \in Cameras : CameraInv /\ CallRelease(c) => CameraInv'
<1> SUFFICES ASSUME NEW c \in Cameras, CameraInv, CallRelease(c) PROVE CameraInv'  OBVIOUS
<1> USE OwnerAssumption, FdsAssumption DEF CameraInv, TypeOK, Fds, NoFd, CallRelease, Goto,
     Enter, objVars, callVars, usbVars, fdVars
<1>1. TypeOK'
  BY CallsAssumption DEF Levels, Calls, Steps
<1>2. ASSUME NEW d \in Cameras
      PROVE  (Position(d) /\ HandlerInv(d) /\ RefsInv(d) /\ FdInv(d) /\ OnceInv(d))'
  BY <1>2 DEF Position, HandlerInv, RefsInv, FdInv, OnceInv
<1> QED  BY <1>1, <1>2

LEMMA CallCleanupKeeps == \A c \in Cameras : CameraInv /\ CallCleanup(c) => CameraInv'
<1> SUFFICES ASSUME NEW c \in Cameras, CameraInv, CallCleanup(c) PROVE CameraInv'  OBVIOUS
<1> USE OwnerAssumption, FdsAssumption DEF CameraInv, TypeOK, Fds, NoFd, CallCleanup, Goto,
     Enter, objVars, callVars, usbVars, fdVars
<1>1. TypeOK'
  BY CallsAssumption DEF Levels, Calls, Steps
<1>2. ASSUME NEW d \in Cameras
      PROVE  (Position(d) /\ HandlerInv(d) /\ RefsInv(d) /\ FdInv(d) /\ OnceInv(d))'
  BY <1>2 DEF Position, HandlerInv, RefsInv, FdInv, OnceInv
<1> QED  BY <1>1, <1>2

LEMMA CallHardResetKeeps == \A c \in Cameras : CameraInv /\ CallHardReset(c) => CameraInv'
<1> SUFFICES ASSUME NEW c \in Cameras, CameraInv, CallHardReset(c) PROVE CameraInv'  OBVIOUS
<1> USE OwnerAssumption, FdsAssumption DEF CameraInv, TypeOK, Fds, NoFd, CallHardReset, Goto,
     Enter, objVars, callVars, usbVars, fdVars
<1>1. TypeOK'
  BY CallsAssumption DEF Levels, Calls, Steps
<1>2. ASSUME NEW d \in Cameras
      PROVE  (Position(d) /\ HandlerInv(d) /\ RefsInv(d) /\ FdInv(d) /\ OnceInv(d))'
  BY <1>2 DEF Position, HandlerInv, RefsInv, FdInv, OnceInv
<1> QED  BY <1>1, <1>2

LEMMA CallDestroyKeeps == \A c \in Cameras : CameraInv /\ CallDestroy(c) => CameraInv'
<1> SUFFICES ASSUME NEW c \in Cameras, CameraInv, CallDestroy(c) PROVE CameraInv'  OBVIOUS
<1> USE OwnerAssumption, FdsAssumption DEF CameraInv, TypeOK, Fds, NoFd, CallDestroy, Goto,
     Enter, objVars, callVars, usbVars, fdVars
<1>1. TypeOK'
  BY CallsAssumption DEF Levels, Calls, Steps
<1>2. ASSUME NEW d \in Cameras
      PROVE  (Position(d) /\ HandlerInv(d) /\ RefsInv(d) /\ FdInv(d) /\ OnceInv(d))'
  BY <1>2 DEF Position, HandlerInv, RefsInv, FdInv, OnceInv
<1> QED  BY <1>1, <1>2

LEMMA PrepareConnectKeeps == \A c \in Cameras : CameraInv /\ PrepareConnect(c) => CameraInv'
<1> SUFFICES ASSUME NEW c \in Cameras, CameraInv, PrepareConnect(c) PROVE CameraInv'  OBVIOUS
<1> USE DupIsFree, OwnerAssumption, FdsAssumption DEF CameraInv, TypeOK, Fds, NoFd,
     PrepareConnect, Fail, Goto, EmitOrReturn, objVars, callVars, usbVars, fdVars
<1>1. TypeOK'
  <2>1. (object' \in [Cameras -> BOOLEAN] /\ helpers' \in [Cameras -> BOOLEAN]
          /\ streaming' \in [Cameras -> BOOLEAN]
          /\ telemetry' \in [Cameras -> {"none", "live", "freed"}])
    OBVIOUS
  <2>2. (pc' \in [Cameras -> Steps] /\ call' \in [Cameras -> Calls]
          /\ level' \in [Cameras -> Levels] /\ calls' \in 0 .. MaxCalls)
    <3>1. PICK s \in Steps : pc' = [pc EXCEPT ![c] = s]
      BY DEF Steps
    <3>2. UNCHANGED <<call, level, calls>>
      OBVIOUS
    <3> QED  BY <3>1, <3>2, ExceptType
  <2>3. (context' \in [Cameras -> {"none", "live", "killed"}]
          /\ thread' \in [Cameras -> {"none", "looping", "status", "exited"}]
          /\ device' \in [Cameras -> BOOLEAN]
          /\ handle' \in [Cameras -> {"none", "open", "closed"}])
    OBVIOUS
  <2>4. refs' \in [Cameras -> Nat] /\ overwritten' \in [Cameras -> Nat]
    BY DEF RefsInv, Position
  <2>5. (mFd' \in [Cameras -> Fds] /\ newFd' \in [Cameras -> Fds \cup {NoFd}]
          /\ usbFs' \in [Cameras -> BOOLEAN]
          /\ mine' \in [Cameras -> {"none", "own", "failed"}] /\ stray' \in BOOLEAN)
    <3>1. /\ mFd' = mFd /\ stray' = stray /\ usbFs' = [usbFs EXCEPT ![c] = TRUE]
          /\ newFd' = newFd \/ newFd' = [newFd EXCEPT ![c] = Dup]
      OBVIOUS
    <3>2. mine' = mine \/ mine' = [mine EXCEPT ![c] = "own"] \/ mine' = [mine EXCEPT ![c] = "failed"]
      OBVIOUS
    <3>3. Dup \in Fds \cup {NoFd}
      OBVIOUS
    <3>4. newFd' \in [Cameras -> Fds \cup {NoFd}]
      BY <3>1, <3>3, ExceptType
    <3>5. mine' \in [Cameras -> {"none", "own", "failed"}]
      BY <3>2, ExceptType
    <3> QED  BY <3>1, <3>4, <3>5, ExceptType
  <2>6. owner' \in [Fds -> Cameras \cup {System, Free}]
    <3>1. owner' = owner \/ owner' = [owner EXCEPT ![Dup] = c]
      OBVIOUS
    <3> QED  BY <3>1, ExceptType
  <2> QED  BY <2>1, <2>2, <2>3, <2>4, <2>5, <2>6
<1>2. ASSUME NEW d \in Cameras PROVE Position(d)'
  BY <1>2 DEF Position
<1>3. ASSUME NEW d \in Cameras PROVE HandlerInv(d)'
  BY <1>3 DEF HandlerInv, Position
<1>4. ASSUME NEW d \in Cameras PROVE RefsInv(d)'
  BY <1>4 DEF RefsInv, Position
<1>5. ASSUME NEW d \in Cameras PROVE FdInv(d)'
  <2>1. /\ mFd' = mFd /\ newFd[c] = NoFd /\ stray' = stray
        /\ usbFs' = [usbFs EXCEPT ![c] = TRUE]
    BY DEF FdInv
  <2>2. CASE /\ newFd' = newFd /\ owner' = owner /\ Fail(c)
             /\ \E s \in {"idle", "emit"} : pc' = [pc EXCEPT ![c] = s]
    BY <1>5, <2>1, <2>2 DEF FdInv
  <2>3. CASE /\ newFd' = [newFd EXCEPT ![c] = Dup] /\ pc' = [pc EXCEPT ![c] = "lookUp"]
             /\ owner' = (IF Dup = NoFd THEN owner ELSE [owner EXCEPT ![Dup] = c]) /\ mine' = mine
    <3>1. CASE Dup = NoFd
      BY <1>5, <2>1, <2>3, <3>1 DEF FdInv
    <3>2. CASE Dup \in Fds /\ owner[Dup] = Free
      BY <1>5, <2>1, <2>3, <3>2 DEF FdInv
    <3> QED  BY <3>1, <3>2
  <2> QED  BY <2>2, <2>3
<1>6. ASSUME NEW d \in Cameras PROVE OnceInv(d)'
  <2>1. /\ pc[c] = "connect" /\ handle[c] = "none" /\ newFd[c] = NoFd
        /\ UNCHANGED <<handle, thread, mFd>> /\ usbFs' = [usbFs EXCEPT ![c] = TRUE]
    BY DEF Position, FdInv
  <2>2. CASE /\ UNCHANGED <<context, newFd, owner>>
             /\ \E s \in {"idle", "emit"} : pc' = [pc EXCEPT ![c] = s]
    BY <1>6, <2>1, <2>2 DEF OnceInv
  <2>3. CASE /\ context' = [context EXCEPT ![c] = IF @ = "none" THEN "live" ELSE @]
             /\ newFd' = [newFd EXCEPT ![c] = Dup] /\ pc' = [pc EXCEPT ![c] = "lookUp"]
             /\ owner' = IF Dup = NoFd THEN owner ELSE [owner EXCEPT ![Dup] = c]
    <3>1. CASE Dup = NoFd
      BY <1>6, <2>1, <2>3, <3>1 DEF OnceInv
    <3>2. CASE Dup \in Fds /\ owner[Dup] = Free
      BY <1>6, <2>1, <2>3, <3>2 DEF OnceInv
    <3> QED  BY <3>1, <3>2
  <2> QED  BY <2>2, <2>3
<1> QED  BY <1>1, <1>2, <1>3, <1>4, <1>5, <1>6

LEMMA LookUpDeviceKeeps == \A c \in Cameras : CameraInv /\ LookUpDevice(c) => CameraInv'
<1> SUFFICES ASSUME NEW c \in Cameras, CameraInv, LookUpDevice(c) PROVE CameraInv'  OBVIOUS
<1> USE OwnerAssumption, FdsAssumption DEF CameraInv, TypeOK, Fds, NoFd, LookUpDevice, Goto,
     FailConnect, Fail, EmitOrReturn, Close, objVars, callVars, usbVars, fdVars
<1>1. TypeOK'
  <2>1. (object' \in [Cameras -> BOOLEAN] /\ helpers' \in [Cameras -> BOOLEAN]
          /\ streaming' \in [Cameras -> BOOLEAN]
          /\ telemetry' \in [Cameras -> {"none", "live", "freed"}])
    OBVIOUS
  <2>2. (pc' \in [Cameras -> Steps] /\ call' \in [Cameras -> Calls]
          /\ level' \in [Cameras -> Levels] /\ calls' \in 0 .. MaxCalls)
    <3>1. PICK s \in Steps : pc' = [pc EXCEPT ![c] = s]
      BY DEF Steps
    <3>2. UNCHANGED <<call, level, calls>>
      OBVIOUS
    <3> QED  BY <3>1, <3>2, ExceptType
  <2>3. (context' \in [Cameras -> {"none", "live", "killed"}]
          /\ thread' \in [Cameras -> {"none", "looping", "status", "exited"}]
          /\ device' \in [Cameras -> BOOLEAN]
          /\ handle' \in [Cameras -> {"none", "open", "closed"}])
    OBVIOUS
  <2>4. refs' \in [Cameras -> Nat] /\ overwritten' \in [Cameras -> Nat]
    <3>1. refs' = refs \/ refs' = [refs EXCEPT ![c] = refs[c] + 1]
      OBVIOUS
    <3>2. overwritten' = [overwritten EXCEPT ![c] = IF device[c] THEN overwritten[c] + 1 ELSE overwritten[c]]
      OBVIOUS
    <3> QED  BY <3>1, <3>2, ExceptType
  <2>5. (mFd' \in [Cameras -> Fds] /\ newFd' \in [Cameras -> Fds \cup {NoFd}]
          /\ usbFs' \in [Cameras -> BOOLEAN]
          /\ mine' \in [Cameras -> {"none", "own", "failed"}] /\ stray' \in BOOLEAN)
    <3>1. /\ mFd' = mFd /\ usbFs' = usbFs
          /\ newFd' = newFd \/ newFd' = [newFd EXCEPT ![c] = NoFd]
          /\ stray' = stray
      OBVIOUS
    <3>2. mine' = mine \/ mine' = [mine EXCEPT ![c] = "own"] \/ mine' = [mine EXCEPT ![c] = "failed"]
      OBVIOUS
    <3>3. mine' \in [Cameras -> {"none", "own", "failed"}]
      BY <3>2, ExceptType
    <3> QED  BY <3>1, <3>3, ExceptType
  <2>6. owner' \in [Fds -> Cameras \cup {System, Free}]
    <3>1. owner' = owner \/ owner' = [owner EXCEPT ![newFd[c]] = Free]
      OBVIOUS
    <3> QED  BY <3>1, ExceptType
  <2> QED  BY <2>1, <2>2, <2>3, <2>4, <2>5, <2>6
<1>2. ASSUME NEW d \in Cameras PROVE Position(d)'
  BY <1>2 DEF Position
<1>3. ASSUME NEW d \in Cameras PROVE HandlerInv(d)'
  BY <1>3 DEF HandlerInv, Position
<1>4. ASSUME NEW d \in Cameras PROVE RefsInv(d)'
  <2>1. handle[c] = "none" /\ handle' = handle
    BY DEF Position
  <2>2. /\ overwritten' = [overwritten EXCEPT ![c] = IF device[c] THEN @ + 1 ELSE @]
        /\ \/ /\ device' = [device EXCEPT ![c] = TRUE] /\ refs' = [refs EXCEPT ![c] = @ + 1]
              /\ pc' = [pc EXCEPT ![c] = "open"]
           \/ /\ device' = [device EXCEPT ![c] = FALSE] /\ refs' = refs
              /\ \E s \in {"idle", "emit"} : pc' = [pc EXCEPT ![c] = s]
    OBVIOUS
  <2>3. CASE d = c
    <3>1. overwritten'[c] = overwritten[c] + (IF device[c] THEN 1 ELSE 0)
      BY <2>2
    <3>2. refs[c] = overwritten'[c]
      BY <2>1, <3>1 DEF RefsInv
    <3>3. handle'[c] = "none" /\ refs'[c] = overwritten'[c] + (IF device'[c] THEN 1 ELSE 0)
      BY <2>1, <2>2, <3>2
    <3>4. pc'[c] \in {"idle", "emit", "open"} /\ (pc'[c] = "open" => device'[c])
      BY <2>2
    <3>5. overwritten'[c] > 0 => c \in Reused
      BY <2>1, <3>1 DEF RefsInv
    <3> QED  BY <2>3, <3>3, <3>4, <3>5 DEF RefsInv
  <2>4. CASE d # c
    BY <1>4, <2>1, <2>2, <2>4 DEF RefsInv
  <2> QED  BY <2>3, <2>4
<1>5. ASSUME NEW d \in Cameras PROVE FdInv(d)'
  <2>1. CASE /\ newFd[c] # NoFd /\ pc' = [pc EXCEPT ![c] = "open"]
             /\ UNCHANGED <<mFd, usbFs, newFd, owner, mine, stray>>
    BY <1>5, <2>1 DEF FdInv
  <2>2. CASE /\ \E s \in {"idle", "emit"} : pc' = [pc EXCEPT ![c] = s]
             /\ UNCHANGED <<mFd, usbFs, stray>> /\ newFd' = [newFd EXCEPT ![c] = NoFd]
             /\ Close(newFd[c]) /\ Fail(c)
    BY <1>5, <2>2 DEF FdInv
  <2> QED  BY <2>1, <2>2
<1>6. ASSUME NEW d \in Cameras PROVE OnceInv(d)'
  <2>1. /\ pc[c] = "lookUp" /\ handle[c] = "none"
        /\ UNCHANGED <<context, handle, thread, mFd, usbFs>>
    BY DEF Position
  <2>2. CASE pc' = [pc EXCEPT ![c] = "open"] /\ UNCHANGED <<newFd, owner>>
    BY <1>6, <2>1, <2>2 DEF OnceInv
  <2>3. CASE /\ \E s \in {"idle", "emit"} : pc' = [pc EXCEPT ![c] = s]
             /\ newFd' = [newFd EXCEPT ![c] = NoFd] /\ Close(newFd[c])
    BY <1>6, <2>1, <2>3 DEF OnceInv
  <2> QED  BY <2>2, <2>3
<1> QED  BY <1>1, <1>2, <1>3, <1>4, <1>5, <1>6

LEMMA OpenHandleKeeps == \A c \in Cameras : CameraInv /\ OpenHandle(c) => CameraInv'
<1> SUFFICES ASSUME NEW c \in Cameras, CameraInv, OpenHandle(c) PROVE CameraInv'  OBVIOUS
<1> USE OwnerAssumption, FdsAssumption DEF CameraInv, TypeOK, Fds, NoFd, OpenHandle, Goto,
     objVars, callVars, usbVars, fdVars
<1>1. TypeOK'
  <2>1. (object' \in [Cameras -> BOOLEAN] /\ helpers' \in [Cameras -> BOOLEAN]
          /\ streaming' \in [Cameras -> BOOLEAN]
          /\ telemetry' \in [Cameras -> {"none", "live", "freed"}])
    OBVIOUS
  <2>2. (pc' \in [Cameras -> Steps] /\ call' \in [Cameras -> Calls]
          /\ level' \in [Cameras -> Levels] /\ calls' \in 0 .. MaxCalls)
    BY DEF Steps
  <2>3. (context' \in [Cameras -> {"none", "live", "killed"}]
          /\ thread' \in [Cameras -> {"none", "looping", "status", "exited"}]
          /\ device' \in [Cameras -> BOOLEAN]
          /\ handle' \in [Cameras -> {"none", "open", "closed"}])
    OBVIOUS
  <2>4. refs' \in [Cameras -> Nat] /\ overwritten' \in [Cameras -> Nat]
    BY DEF RefsInv, Position
  <2>5. (mFd' \in [Cameras -> Fds] /\ newFd' \in [Cameras -> Fds \cup {NoFd}]
          /\ usbFs' \in [Cameras -> BOOLEAN]
          /\ mine' \in [Cameras -> {"none", "own", "failed"}] /\ stray' \in BOOLEAN)
    BY DEF FdInv
  <2>6. owner' \in [Fds -> Cameras \cup {System, Free}]
    OBVIOUS
  <2> QED  BY <2>1, <2>2, <2>3, <2>4, <2>5, <2>6
<1>2. ASSUME NEW d \in Cameras
      PROVE  (Position(d) /\ HandlerInv(d) /\ RefsInv(d) /\ FdInv(d) /\ OnceInv(d))'
  BY <1>2 DEF Position, HandlerInv, RefsInv, FdInv, OnceInv
<1> QED  BY <1>1, <1>2

LEMMA OpenFailsKeeps == \A c \in Cameras : CameraInv /\ OpenFails(c) => CameraInv'
<1> SUFFICES ASSUME NEW c \in Cameras, CameraInv, OpenFails(c) PROVE CameraInv'  OBVIOUS
<1> USE OwnerAssumption, FdsAssumption DEF CameraInv, TypeOK, Fds, NoFd, OpenFails, Goto,
     FailConnect, Fail, EmitOrReturn, Close, objVars, callVars, usbVars, fdVars
<1>1. TypeOK'
  <2>1. (object' \in [Cameras -> BOOLEAN] /\ helpers' \in [Cameras -> BOOLEAN]
          /\ streaming' \in [Cameras -> BOOLEAN]
          /\ telemetry' \in [Cameras -> {"none", "live", "freed"}])
    OBVIOUS
  <2>2. (pc' \in [Cameras -> Steps] /\ call' \in [Cameras -> Calls]
          /\ level' \in [Cameras -> Levels] /\ calls' \in 0 .. MaxCalls)
    <3>1. PICK s \in Steps : pc' = [pc EXCEPT ![c] = s]
      BY DEF Steps
    <3>2. UNCHANGED <<call, level, calls>>
      OBVIOUS
    <3> QED  BY <3>1, <3>2, ExceptType
  <2>3. (context' \in [Cameras -> {"none", "live", "killed"}]
          /\ thread' \in [Cameras -> {"none", "looping", "status", "exited"}]
          /\ device' \in [Cameras -> BOOLEAN]
          /\ handle' \in [Cameras -> {"none", "open", "closed"}])
    OBVIOUS
  <2>4. refs' \in [Cameras -> Nat] /\ overwritten' \in [Cameras -> Nat]
    BY DEF RefsInv, Position
  <2>5. (mFd' \in [Cameras -> Fds] /\ newFd' \in [Cameras -> Fds \cup {NoFd}]
          /\ usbFs' \in [Cameras -> BOOLEAN]
          /\ mine' \in [Cameras -> {"none", "own", "failed"}] /\ stray' \in BOOLEAN)
    BY DEF FdInv
  <2>6. owner' \in [Fds -> Cameras \cup {System, Free}]
    <3>1. owner' = owner \/ owner' = [owner EXCEPT ![newFd[c]] = Free]
      OBVIOUS
    <3> QED  BY <3>1, ExceptType
  <2> QED  BY <2>1, <2>2, <2>3, <2>4, <2>5, <2>6
<1>2. ASSUME NEW d \in Cameras PROVE Position(d)'
  BY <1>2 DEF Position
<1>3. ASSUME NEW d \in Cameras PROVE HandlerInv(d)'
  BY <1>3 DEF HandlerInv, Position
<1>4. ASSUME NEW d \in Cameras PROVE RefsInv(d)'
  BY <1>4 DEF RefsInv, Position
<1>5. ASSUME NEW d \in Cameras PROVE FdInv(d)'
  BY <1>5 DEF FdInv, Position
<1>6. ASSUME NEW d \in Cameras PROVE OnceInv(d)'
  BY <1>6 DEF OnceInv, Position, FdInv
<1> QED  BY <1>1, <1>2, <1>3, <1>4, <1>5, <1>6

LEMMA CreateHelpersKeeps == \A c \in Cameras : CameraInv /\ CreateHelpers(c) => CameraInv'
<1> SUFFICES ASSUME NEW c \in Cameras, CameraInv, CreateHelpers(c) PROVE CameraInv'  OBVIOUS
<1> USE OwnerAssumption, FdsAssumption DEF CameraInv, TypeOK, Fds, NoFd, CreateHelpers, Goto,
     EmitOrReturn, objVars, callVars, usbVars, fdVars
<1>1. TypeOK'
  <2>1. (object' \in [Cameras -> BOOLEAN] /\ helpers' \in [Cameras -> BOOLEAN]
          /\ streaming' \in [Cameras -> BOOLEAN]
          /\ telemetry' \in [Cameras -> {"none", "live", "freed"}])
    OBVIOUS
  <2>2. (pc' \in [Cameras -> Steps] /\ call' \in [Cameras -> Calls]
          /\ level' \in [Cameras -> Levels] /\ calls' \in 0 .. MaxCalls)
    BY DEF Steps
  <2>3. (context' \in [Cameras -> {"none", "live", "killed"}]
          /\ thread' \in [Cameras -> {"none", "looping", "status", "exited"}]
          /\ device' \in [Cameras -> BOOLEAN]
          /\ handle' \in [Cameras -> {"none", "open", "closed"}])
    OBVIOUS
  <2>4. refs' \in [Cameras -> Nat] /\ overwritten' \in [Cameras -> Nat]
    BY DEF RefsInv, Position
  <2>5. (mFd' \in [Cameras -> Fds] /\ newFd' \in [Cameras -> Fds \cup {NoFd}]
          /\ usbFs' \in [Cameras -> BOOLEAN]
          /\ mine' \in [Cameras -> {"none", "own", "failed"}] /\ stray' \in BOOLEAN)
    BY DEF FdInv
  <2>6. owner' \in [Fds -> Cameras \cup {System, Free}]
    OBVIOUS
  <2> QED  BY <2>1, <2>2, <2>3, <2>4, <2>5, <2>6
<1>2. ASSUME NEW d \in Cameras PROVE Position(d)'
  <2>1. \E s \in {"idle", "emit"} : pc' = [pc EXCEPT ![c] = s]
    OBVIOUS
  <2>2. helpers' = [helpers EXCEPT ![c] = TRUE] /\ handle' = handle /\ call' = call
    OBVIOUS
  <2> QED  BY <1>2, <2>1, <2>2 DEF Position
<1>3. ASSUME NEW d \in Cameras PROVE HandlerInv(d)'
  BY <1>3 DEF HandlerInv, Position
<1>4. ASSUME NEW d \in Cameras PROVE RefsInv(d)'
  BY <1>4 DEF RefsInv, Position
<1>5. ASSUME NEW d \in Cameras PROVE FdInv(d)'
  BY <1>5 DEF FdInv, Position
<1>6. ASSUME NEW d \in Cameras PROVE OnceInv(d)'
  BY <1>6 DEF OnceInv, Position, FdInv
<1> QED  BY <1>1, <1>2, <1>3, <1>4, <1>5, <1>6

LEMMA StopPreviewKeeps == \A c \in Cameras : CameraInv /\ StopPreview(c) => CameraInv'
<1> SUFFICES ASSUME NEW c \in Cameras, CameraInv, StopPreview(c) PROVE CameraInv'  OBVIOUS
<1> USE OwnerAssumption, FdsAssumption DEF CameraInv, TypeOK, Fds, NoFd, StopPreview, Goto,
     FreeTelemetry, objVars, callVars, usbVars, fdVars
<1>1. TypeOK'
  <2>1. PICK s \in Steps : pc' = [pc EXCEPT ![c] = s]
    BY DEF Steps
  <2>2. streaming' \in [Cameras -> BOOLEAN]
    OBVIOUS
  <2>3. telemetry' \in [Cameras -> {"none", "live", "freed"}]
    <3>1. \/ telemetry' = telemetry
          \/ telemetry' = [telemetry EXCEPT ![c] = IF telemetry[c] = "live" THEN "freed" ELSE telemetry[c]]
      OBVIOUS
    <3> QED  BY <3>1, ExceptType
  <2>4. UNCHANGED <<call, level, calls, object, helpers, usbVars, fdVars>>
    OBVIOUS
  <2> QED  BY <2>1, <2>2, <2>3, <2>4, ExceptType
<1>2. ASSUME NEW d \in Cameras PROVE Position(d)'
  BY <1>2 DEF Position
<1>3. ASSUME NEW d \in Cameras PROVE HandlerInv(d)'
  BY <1>3 DEF HandlerInv, Position
<1>4. ASSUME NEW d \in Cameras PROVE RefsInv(d)'
  BY <1>4 DEF RefsInv, Position
<1>5. ASSUME NEW d \in Cameras PROVE FdInv(d)'
  BY <1>5 DEF FdInv, Position
<1>6. ASSUME NEW d \in Cameras PROVE OnceInv(d)'
  BY <1>6 DEF OnceInv, Position, FdInv
<1> QED  BY <1>1, <1>2, <1>3, <1>4, <1>5, <1>6

LEMMA DeleteHelpersKeeps == \A c \in Cameras : CameraInv /\ DeleteHelpers(c) => CameraInv'
<1> SUFFICES ASSUME NEW c \in Cameras, CameraInv, DeleteHelpers(c) PROVE CameraInv'  OBVIOUS
<1> USE OwnerAssumption, FdsAssumption DEF CameraInv, TypeOK, Fds, NoFd, DeleteHelpers, Goto,
     FreeTelemetry, objVars, callVars, usbVars, fdVars
<1>1. TypeOK'
  BY CallsAssumption DEF Levels, Calls, Steps
<1>2. ASSUME NEW d \in Cameras
      PROVE  (Position(d) /\ HandlerInv(d) /\ RefsInv(d) /\ FdInv(d) /\ OnceInv(d))'
  BY <1>2 DEF Position, HandlerInv, RefsInv, FdInv, OnceInv
<1> QED  BY <1>1, <1>2

LEMMA KillHandlerThreadKeeps == \A c \in Cameras : CameraInv /\ KillHandlerThread(c) => CameraInv'
<1> SUFFICES ASSUME NEW c \in Cameras, CameraInv, KillHandlerThread(c) PROVE CameraInv'  OBVIOUS
<1> USE OwnerAssumption, FdsAssumption DEF CameraInv, TypeOK, Fds, NoFd, KillHandlerThread,
     Goto, objVars, callVars, usbVars, fdVars
<1>1. TypeOK'
  BY CallsAssumption DEF Levels, Calls, Steps
<1>2. ASSUME NEW d \in Cameras
      PROVE  (Position(d) /\ HandlerInv(d) /\ RefsInv(d) /\ FdInv(d) /\ OnceInv(d))'
  BY <1>2 DEF Position, HandlerInv, RefsInv, FdInv, OnceInv
<1> QED  BY <1>1, <1>2

LEMMA CloseUsbKeeps == \A c \in Cameras : CameraInv /\ CloseUsb(c) => CameraInv'
<1> SUFFICES ASSUME NEW c \in Cameras, CameraInv, CloseUsb(c) PROVE CameraInv'  OBVIOUS
<1> USE OwnerAssumption, FdsAssumption DEF CameraInv, TypeOK, Fds, NoFd, CloseUsb, Goto,
     objVars, callVars, usbVars, fdVars
<1>1. TypeOK'
  BY CallsAssumption DEF Levels, Calls, Steps
<1>2. ASSUME NEW d \in Cameras
      PROVE  (Position(d) /\ HandlerInv(d) /\ RefsInv(d) /\ FdInv(d) /\ OnceInv(d))'
  BY <1>2 DEF Position, HandlerInv, RefsInv, FdInv, OnceInv
<1> QED  BY <1>1, <1>2

LEMMA JoinHandlerThreadKeeps == \A c \in Cameras : CameraInv /\ JoinHandlerThread(c) => CameraInv'
<1> SUFFICES ASSUME NEW c \in Cameras, CameraInv, JoinHandlerThread(c) PROVE CameraInv'  OBVIOUS
<1> USE OwnerAssumption, FdsAssumption DEF CameraInv, TypeOK, Fds, NoFd, JoinHandlerThread,
     Goto, objVars, callVars, usbVars, fdVars
<1>1. TypeOK'
  BY CallsAssumption DEF Levels, Calls, Steps
<1>2. ASSUME NEW d \in Cameras
      PROVE  (Position(d) /\ HandlerInv(d) /\ RefsInv(d) /\ FdInv(d) /\ OnceInv(d))'
  BY <1>2 DEF Position, HandlerInv, RefsInv, FdInv, OnceInv
<1> QED  BY <1>1, <1>2

LEMMA FreeHandleKeeps == \A c \in Cameras : CameraInv /\ FreeHandle(c) => CameraInv'
<1> SUFFICES ASSUME NEW c \in Cameras, CameraInv, FreeHandle(c) PROVE CameraInv'  OBVIOUS
<1> USE OwnerAssumption, FdsAssumption DEF CameraInv, TypeOK, Fds, NoFd, FreeHandle, Goto,
     Return, objVars, callVars, usbVars, fdVars
<1>1. TypeOK'
  <2>1. (object' \in [Cameras -> BOOLEAN] /\ helpers' \in [Cameras -> BOOLEAN]
          /\ streaming' \in [Cameras -> BOOLEAN]
          /\ telemetry' \in [Cameras -> {"none", "live", "freed"}])
    OBVIOUS
  <2>2. (pc' \in [Cameras -> Steps] /\ call' \in [Cameras -> Calls]
          /\ level' \in [Cameras -> Levels] /\ calls' \in 0 .. MaxCalls)
    <3>1. PICK s \in Steps : pc' = [pc EXCEPT ![c] = s]
      BY DEF Steps
    <3>2. UNCHANGED <<call, level, calls>>
      OBVIOUS
    <3> QED  BY <3>1, <3>2, ExceptType
  <2>3. (context' \in [Cameras -> {"none", "live", "killed"}]
          /\ thread' \in [Cameras -> {"none", "looping", "status", "exited"}]
          /\ device' \in [Cameras -> BOOLEAN]
          /\ handle' \in [Cameras -> {"none", "open", "closed"}])
    OBVIOUS
  <2>4. refs' \in [Cameras -> Nat] /\ overwritten' \in [Cameras -> Nat]
    <3>1. handle[c] = "closed" /\ refs' = [refs EXCEPT ![c] = refs[c] - 1] /\ overwritten' = overwritten
      BY DEF Position
    <3>2. refs[c] - 1 \in Nat
      <4>1. RefsInv(c)
        OBVIOUS
      <4>2. overwritten[c] \in Nat /\ refs[c] \in Nat /\ refs[c] > 0
        BY <3>1, <4>1 DEF RefsInv
      <4> QED  BY <4>2
    <3> QED  BY <3>1, <3>2, ExceptType
  <2>5. (mFd' \in [Cameras -> Fds] /\ newFd' \in [Cameras -> Fds \cup {NoFd}]
          /\ usbFs' \in [Cameras -> BOOLEAN]
          /\ mine' \in [Cameras -> {"none", "own", "failed"}] /\ stray' \in BOOLEAN)
    BY DEF FdInv
  <2>6. owner' \in [Fds -> Cameras \cup {System, Free}]
    OBVIOUS
  <2> QED  BY <2>1, <2>2, <2>3, <2>4, <2>5, <2>6
<1>2. ASSUME NEW d \in Cameras PROVE Position(d)'
  BY <1>2 DEF Position
<1>3. ASSUME NEW d \in Cameras PROVE HandlerInv(d)'
  BY <1>3 DEF HandlerInv, Position
<1>4. ASSUME NEW d \in Cameras PROVE RefsInv(d)'
  BY <1>4 DEF RefsInv, Position
<1>5. ASSUME NEW d \in Cameras PROVE FdInv(d)'
  BY <1>5 DEF FdInv, Position
<1>6. ASSUME NEW d \in Cameras PROVE OnceInv(d)'
  BY <1>6 DEF OnceInv, Position, FdInv
<1> QED  BY <1>1, <1>2, <1>3, <1>4, <1>5, <1>6

LEMMA ResetDeviceKeeps == \A c \in Cameras : CameraInv /\ ResetDevice(c) => CameraInv'
<1> SUFFICES ASSUME NEW c \in Cameras, CameraInv, ResetDevice(c) PROVE CameraInv'  OBVIOUS
<1> USE OwnerAssumption, FdsAssumption DEF CameraInv, TypeOK, Fds, NoFd, ResetDevice, Goto,
     objVars, callVars, usbVars, fdVars
<1>1. TypeOK'
  BY CallsAssumption DEF Levels, Calls, Steps
<1>2. ASSUME NEW d \in Cameras
      PROVE  (Position(d) /\ HandlerInv(d) /\ RefsInv(d) /\ FdInv(d) /\ OnceInv(d))'
  BY <1>2 DEF Position, HandlerInv, RefsInv, FdInv, OnceInv
<1> QED  BY <1>1, <1>2

LEMMA UnrefDeviceKeeps == \A c \in Cameras : CameraInv /\ UnrefDevice(c) => CameraInv'
<1> SUFFICES ASSUME NEW c \in Cameras, CameraInv, UnrefDevice(c) PROVE CameraInv'  OBVIOUS
<1> USE OwnerAssumption, FdsAssumption DEF CameraInv, TypeOK, Fds, NoFd, UnrefDevice, Goto,
     objVars, callVars, usbVars, fdVars
<1>1. TypeOK'
  <2>1. (object' \in [Cameras -> BOOLEAN] /\ helpers' \in [Cameras -> BOOLEAN]
          /\ streaming' \in [Cameras -> BOOLEAN]
          /\ telemetry' \in [Cameras -> {"none", "live", "freed"}])
    OBVIOUS
  <2>2. (pc' \in [Cameras -> Steps] /\ call' \in [Cameras -> Calls]
          /\ level' \in [Cameras -> Levels] /\ calls' \in 0 .. MaxCalls)
    BY DEF Steps
  <2>3. (context' \in [Cameras -> {"none", "live", "killed"}]
          /\ thread' \in [Cameras -> {"none", "looping", "status", "exited"}]
          /\ device' \in [Cameras -> BOOLEAN]
          /\ handle' \in [Cameras -> {"none", "open", "closed"}])
    OBVIOUS
  <2>4. refs' \in [Cameras -> Nat] /\ overwritten' \in [Cameras -> Nat]
    BY DEF RefsInv, Position
  <2>5. (mFd' \in [Cameras -> Fds] /\ newFd' \in [Cameras -> Fds \cup {NoFd}]
          /\ usbFs' \in [Cameras -> BOOLEAN]
          /\ mine' \in [Cameras -> {"none", "own", "failed"}] /\ stray' \in BOOLEAN)
    BY DEF FdInv
  <2>6. owner' \in [Fds -> Cameras \cup {System, Free}]
    OBVIOUS
  <2> QED  BY <2>1, <2>2, <2>3, <2>4, <2>5, <2>6
<1>2. ASSUME NEW d \in Cameras
      PROVE  (Position(d) /\ HandlerInv(d) /\ RefsInv(d) /\ FdInv(d) /\ OnceInv(d))'
  BY <1>2 DEF Position, HandlerInv, RefsInv, FdInv, OnceInv
<1> QED  BY <1>1, <1>2

LEMMA CloseFdKeeps == \A c \in Cameras : CameraInv /\ CloseFd(c) => CameraInv'
<1> SUFFICES ASSUME NEW c \in Cameras, CameraInv, CloseFd(c) PROVE CameraInv'  OBVIOUS
<1> USE OwnerAssumption, FdsAssumption DEF CameraInv, TypeOK, Fds, NoFd, CloseFd, Goto, Return,
     Close, Closed, objVars, callVars, usbVars, fdVars
<1>1. TypeOK'
  <2>1. (object' \in [Cameras -> BOOLEAN] /\ helpers' \in [Cameras -> BOOLEAN]
          /\ streaming' \in [Cameras -> BOOLEAN]
          /\ telemetry' \in [Cameras -> {"none", "live", "freed"}])
    OBVIOUS
  <2>2. (pc' \in [Cameras -> Steps] /\ call' \in [Cameras -> Calls]
          /\ level' \in [Cameras -> Levels] /\ calls' \in 0 .. MaxCalls)
    <3>1. PICK s \in Steps : pc' = [pc EXCEPT ![c] = s]
      BY DEF Steps
    <3>2. UNCHANGED <<call, level, calls>>
      OBVIOUS
    <3> QED  BY <3>1, <3>2, ExceptType
  <2>3. (context' \in [Cameras -> {"none", "live", "killed"}]
          /\ thread' \in [Cameras -> {"none", "looping", "status", "exited"}]
          /\ device' \in [Cameras -> BOOLEAN]
          /\ handle' \in [Cameras -> {"none", "open", "closed"}])
    OBVIOUS
  <2>4. refs' \in [Cameras -> Nat] /\ overwritten' \in [Cameras -> Nat]
    BY DEF RefsInv, Position
  <2>5. (mFd' \in [Cameras -> Fds] /\ newFd' \in [Cameras -> Fds \cup {NoFd}]
          /\ usbFs' \in [Cameras -> BOOLEAN]
          /\ mine' \in [Cameras -> {"none", "own", "failed"}] /\ stray' \in BOOLEAN)
    <3>1. /\ mFd' = mFd \/ mFd' = [mFd EXCEPT ![c] = 0]
          /\ newFd' = newFd
          /\ usbFs' = usbFs \/ usbFs' = [usbFs EXCEPT ![c] = FALSE]
      OBVIOUS
    <3>2. 0 \in Fds
      OBVIOUS
    <3> QED  BY <3>1, <3>2, ExceptType
  <2>6. owner' \in [Fds -> Cameras \cup {System, Free}]
    <3>1. owner' = owner \/ owner' = [owner EXCEPT ![mFd[c]] = Free]
      OBVIOUS
    <3> QED  BY <3>1, ExceptType
  <2> QED  BY <2>1, <2>2, <2>3, <2>4, <2>5, <2>6
<1>2. ASSUME NEW d \in Cameras PROVE Position(d)'
  BY <1>2 DEF Position
<1>3. ASSUME NEW d \in Cameras PROVE HandlerInv(d)'
  BY <1>3 DEF HandlerInv, Position
<1>4. ASSUME NEW d \in Cameras PROVE RefsInv(d)'
  BY <1>4 DEF RefsInv, Position
<1>5. ASSUME NEW d \in Cameras PROVE FdInv(d)'
  <2>1. newFd' = newFd /\ newFd[c] = NoFd /\ pc[c] = "closeFd"
    BY DEF FdInv
  <2>2. \E s \in Steps : pc' = [pc EXCEPT ![c] = s] /\ s \notin {"lookUp", "open", "createHelpers"}
    BY DEF Steps
  <2>3. CASE ~usbFs[c] /\ UNCHANGED <<owner, mFd, usbFs, mine, stray>>
    BY <1>5, <2>1, <2>2, <2>3 DEF FdInv
  <2>4. CASE /\ usbFs[c] /\ mine[c] = "own"
             /\ owner' = [owner EXCEPT ![mFd[c]] = Free] /\ mFd' = [mFd EXCEPT ![c] = 0]
             /\ usbFs' = [usbFs EXCEPT ![c] = FALSE] /\ mine' = [mine EXCEPT ![c] = "none"]
             /\ stray' = stray
    BY <1>5, <2>1, <2>2, <2>4 DEF FdInv
  <2>5. CASE /\ usbFs[c] /\ mine[c] = "failed"
             /\ owner' = [owner EXCEPT ![mFd[c]] = Free] /\ mFd' = [mFd EXCEPT ![c] = 0]
             /\ usbFs' = [usbFs EXCEPT ![c] = FALSE] /\ mine' = [mine EXCEPT ![c] = "none"]
             /\ stray' = TRUE
    BY <1>5, <2>1, <2>2, <2>5 DEF FdInv
  <2>6. usbFs[c] => mine[c] \in {"own", "failed"}
    BY <2>1 DEF FdInv
  <2> QED  BY <2>3, <2>4, <2>5, <2>6
<1>6. ASSUME NEW d \in Cameras PROVE OnceInv(d)'
  <2>1. newFd' = newFd /\ newFd[c] = NoFd /\ pc[c] = "closeFd" /\ handle[c] = "none"
    BY DEF FdInv, Position
  <2>2. /\ \E s \in {"idle", "emit", "exitContext"} : pc' = [pc EXCEPT ![c] = s]
        /\ UNCHANGED <<context, handle, thread>>
    OBVIOUS
  <2>3. CASE ~usbFs[c] /\ UNCHANGED <<owner, mFd, usbFs>>
    BY <1>6, <2>1, <2>2, <2>3 DEF OnceInv
  <2>4. CASE /\ usbFs[c] /\ owner' = [owner EXCEPT ![mFd[c]] = Free]
             /\ mFd' = [mFd EXCEPT ![c] = 0] /\ usbFs' = [usbFs EXCEPT ![c] = FALSE]
    BY <1>6, <2>1, <2>2, <2>4 DEF OnceInv
  <2> QED  BY <2>3, <2>4
<1> QED  BY <1>1, <1>2, <1>3, <1>4, <1>5, <1>6

LEMMA ExitContextKeeps == \A c \in Cameras : CameraInv /\ ExitContext(c) => CameraInv'
<1> SUFFICES ASSUME NEW c \in Cameras, CameraInv, ExitContext(c) PROVE CameraInv'  OBVIOUS
<1> USE OwnerAssumption, FdsAssumption DEF CameraInv, TypeOK, Fds, NoFd, ExitContext, Goto,
     Return, objVars, callVars, usbVars, fdVars
<1>1. TypeOK'
  BY CallsAssumption DEF Levels, Calls, Steps
<1>2. ASSUME NEW d \in Cameras
      PROVE  (Position(d) /\ HandlerInv(d) /\ RefsInv(d) /\ FdInv(d) /\ OnceInv(d))'
  BY <1>2 DEF Position, HandlerInv, RefsInv, FdInv, OnceInv
<1> QED  BY <1>1, <1>2

LEMMA EmitKeeps == \A c \in Cameras : CameraInv /\ Emit(c) => CameraInv'
<1> SUFFICES ASSUME NEW c \in Cameras, CameraInv, Emit(c) PROVE CameraInv'  OBVIOUS
<1> USE OwnerAssumption, FdsAssumption DEF CameraInv, TypeOK, Fds, NoFd, Emit, Goto, objVars,
     callVars, usbVars, fdVars
<1>1. TypeOK'
  <2>1. PICK s \in Steps : pc' = [pc EXCEPT ![c] = s]
    BY DEF Steps
  <2>2. UNCHANGED <<call, level, calls, objVars, usbVars, fdVars>>
    OBVIOUS
  <2> QED  BY <2>1, <2>2, ExceptType
<1>2. ASSUME NEW d \in Cameras PROVE Position(d)'
  BY <1>2 DEF Position
<1>3. ASSUME NEW d \in Cameras PROVE HandlerInv(d)'
  BY <1>3 DEF HandlerInv, Position
<1>4. ASSUME NEW d \in Cameras PROVE RefsInv(d)'
  BY <1>4 DEF RefsInv, Position
<1>5. ASSUME NEW d \in Cameras PROVE FdInv(d)'
  BY <1>5 DEF FdInv, Position
<1>6. ASSUME NEW d \in Cameras PROVE OnceInv(d)'
  BY <1>6 DEF OnceInv, Position, FdInv
<1> QED  BY <1>1, <1>2, <1>3, <1>4, <1>5, <1>6

LEMMA HandleStatusKeeps == \A c \in Cameras : CameraInv /\ HandleStatus(c) => CameraInv'
<1> SUFFICES ASSUME NEW c \in Cameras, CameraInv, HandleStatus(c) PROVE CameraInv'  OBVIOUS
<1> USE OwnerAssumption, FdsAssumption DEF CameraInv, TypeOK, Fds, NoFd, HandleStatus, Goto,
     objVars, callVars, usbVars, fdVars
<1>1. TypeOK'
  BY CallsAssumption DEF Levels, Calls, Steps
<1>2. ASSUME NEW d \in Cameras
      PROVE  (Position(d) /\ HandlerInv(d) /\ RefsInv(d) /\ FdInv(d) /\ OnceInv(d))'
  BY <1>2 DEF Position, HandlerInv, RefsInv, FdInv, OnceInv
<1> QED  BY <1>1, <1>2

LEMMA StatusHandledKeeps == \A c \in Cameras : CameraInv /\ StatusHandled(c) => CameraInv'
<1> SUFFICES ASSUME NEW c \in Cameras, CameraInv, StatusHandled(c) PROVE CameraInv'  OBVIOUS
<1> USE OwnerAssumption, FdsAssumption DEF CameraInv, TypeOK, Fds, NoFd, StatusHandled, Goto,
     objVars, callVars, usbVars, fdVars
<1>1. TypeOK'
  BY CallsAssumption DEF Levels, Calls, Steps
<1>2. ASSUME NEW d \in Cameras
      PROVE  (Position(d) /\ HandlerInv(d) /\ RefsInv(d) /\ FdInv(d) /\ OnceInv(d))'
  BY <1>2 DEF Position, HandlerInv, RefsInv, FdInv, OnceInv
<1> QED  BY <1>1, <1>2

LEMMA TestKillKeeps == \A c \in Cameras : CameraInv /\ TestKill(c) => CameraInv'
<1> SUFFICES ASSUME NEW c \in Cameras, CameraInv, TestKill(c) PROVE CameraInv'  OBVIOUS
<1> USE OwnerAssumption, FdsAssumption DEF CameraInv, TypeOK, Fds, NoFd, TestKill, Goto,
     objVars, callVars, usbVars, fdVars
<1>1. TypeOK'
  BY CallsAssumption DEF Levels, Calls, Steps
<1>2. ASSUME NEW d \in Cameras
      PROVE  (Position(d) /\ HandlerInv(d) /\ RefsInv(d) /\ FdInv(d) /\ OnceInv(d))'
  BY <1>2 DEF Position, HandlerInv, RefsInv, FdInv, OnceInv
<1> QED  BY <1>1, <1>2
-----------------------------------------------------------------------------
LEMMA InitCamera == Init => CameraInv
<1> SUFFICES ASSUME Init PROVE CameraInv  OBVIOUS
<1> USE OwnerAssumption, FdsAssumption, CallsAssumption DEF Init, Fds, NoFd
<1>1. TypeOK
  <2>1. /\ object \in [Cameras -> BOOLEAN] /\ helpers \in [Cameras -> BOOLEAN]
        /\ streaming \in [Cameras -> BOOLEAN] /\ telemetry \in [Cameras -> {"none", "live", "freed"}]
        /\ pc \in [Cameras -> Steps] /\ call \in [Cameras -> Calls]
        /\ level \in [Cameras -> Levels] /\ calls \in 0 .. MaxCalls
    BY DEF Levels, Calls, Steps
  <2>2. /\ context \in [Cameras -> {"none", "live", "killed"}]
        /\ thread \in [Cameras -> {"none", "looping", "status", "exited"}]
        /\ device \in [Cameras -> BOOLEAN] /\ handle \in [Cameras -> {"none", "open", "closed"}]
        /\ refs \in [Cameras -> Nat] /\ overwritten \in [Cameras -> Nat]
    OBVIOUS
  <2>3. mFd \in [Cameras -> Fds]
    <3>1. 0 \in Fds
      OBVIOUS
    <3> QED  BY <3>1
  <2>5. newFd \in [Cameras -> Fds \cup {NoFd}] /\ usbFs \in [Cameras -> BOOLEAN]
    OBVIOUS
  <2>6. mine \in [Cameras -> {"none", "own", "failed"}] /\ stray \in BOOLEAN
    OBVIOUS
  <2>4. owner \in [Fds -> Cameras \cup {System, Free}]
    OBVIOUS
  <2> QED  BY <2>1, <2>2, <2>3, <2>4, <2>5, <2>6 DEF TypeOK
<1>2. ASSUME NEW c \in Cameras
      PROVE  Position(c) /\ HandlerInv(c) /\ RefsInv(c) /\ FdInv(c) /\ OnceInv(c)
  BY <1>2 DEF Position, HandlerInv, RefsInv, FdInv, OnceInv
<1> QED  BY <1>1, <1>2 DEF CameraInv

\* A stutter keeps everything.
LEMMA StutterKeeps == CameraInv /\ UNCHANGED vars => CameraInv'
<1> SUFFICES ASSUME CameraInv, UNCHANGED vars PROVE CameraInv'  OBVIOUS
<1> USE DEF CameraInv, vars, objVars, callVars, usbVars, fdVars
<1>1. TypeOK'
  BY DEF TypeOK
<1>2. ASSUME NEW c \in Cameras
      PROVE  Position(c)' /\ HandlerInv(c)' /\ RefsInv(c)' /\ FdInv(c)' /\ OnceInv(c)'
  BY <1>2 DEF Position, HandlerInv, RefsInv, FdInv, OnceInv
<1> QED  BY <1>1, <1>2

LEMMA NextCamera == CameraInv /\ [Next]_vars => CameraInv'
<1> SUFFICES ASSUME CameraInv, [Next]_vars PROVE CameraInv'  OBVIOUS
<1>1. ASSUME NEW c \in Cameras, Call(c) PROVE CameraInv'
  BY <1>1, CreateKeeps, RefuseConnectKeeps, CallConnectKeeps, SetFrameBufferRingKeeps,
     StartPreviewKeeps, CallStopKeeps, CallReleaseKeeps, CallCleanupKeeps, CallHardResetKeeps,
     CallDestroyKeeps DEF Call
<1>2. ASSUME NEW c \in Cameras, Connecting(c) PROVE CameraInv'
  BY <1>2, PrepareConnectKeeps, LookUpDeviceKeeps, OpenHandleKeeps, OpenFailsKeeps,
     CreateHelpersKeeps DEF Connecting
<1>3. ASSUME NEW c \in Cameras, Closing(c) PROVE CameraInv'
  BY <1>3, StopPreviewKeeps, DeleteHelpersKeeps, KillHandlerThreadKeeps, CloseUsbKeeps,
     JoinHandlerThreadKeeps, FreeHandleKeeps, ResetDeviceKeeps, UnrefDeviceKeeps, CloseFdKeeps,
     ExitContextKeeps, EmitKeeps DEF Closing
<1>4. ASSUME NEW c \in Cameras, HandlerThread(c) PROVE CameraInv'
  BY <1>4, HandleStatusKeeps, StatusHandledKeeps, TestKillKeeps DEF HandlerThread
<1>5. CASE UNCHANGED vars
  BY <1>5, StutterKeeps
<1> QED  BY <1>1, <1>2, <1>3, <1>4, <1>5 DEF Next

LEMMA CameraInvariance == Spec => []CameraInv
BY InitCamera, NextCamera, PTL DEF Spec

\* Every variable keeps its type: no reference count falls below 0, and mFd is a
\* descriptor, through every connect(), release(), cleanup() and hardReset().
THEOREM CameraTypeCorrect == Spec => []TypeOK
<1>1. CameraInv => TypeOK
  BY DEF CameraInv
<1> QED  BY <1>1, CameraInvariance, PTL

\* libuvc's handler thread runs callbacks only while the device handle is open, and
\* has been joined when uvc_close() frees it.
THEOREM CameraHandlerWithin == Spec => []HandlerWithinHandle
<1>1. CameraInv => HandlerWithinHandle
  BY DEF CameraInv, HandlerInv, HandlerWithinHandle
<1> QED  BY <1>1, CameraInvariance, PTL

\* In every order of failed connects and clean-ups the references to a camera's
\* devices are those of mDevice, of the open handle and one for each connect() that
\* overwrote a kept mDevice, which no application does that connects an object once.
THEOREM CameraRefs == Spec => []DeviceRefsExact
<1>1. CameraInv => DeviceRefsExact
  BY DEF CameraInv, RefsInv, DeviceRefsExact
<1> QED  BY <1>1, CameraInvariance, PTL

\* A camera whose connect() succeeded owns the descriptor in mFd; only descriptor 0
\* can be taken from it, by the release of a camera whose connect() failed, and only
\* a failed connect() makes a camera close a descriptor that it does not have.
THEOREM CameraOwnsFd == Spec => []OwnsItsFd
<1>1. CameraInv => OwnsItsFd
  BY DEF CameraInv, FdInv, OwnsItsFd
<1> QED  BY <1>1, CameraInvariance, PTL

\* A camera that is connected once per object leaks no descriptor, wherever connect()
\* fails.
THEOREM CameraNoLeak == Spec => []NoFdLeaks
<1>1. CameraInv => NoFdLeaks
  BY DEF CameraInv, OnceInv, NoFdLeaks
<1> QED  BY <1>1, CameraInvariance, PTL

\* The handler thread of such a camera runs from uvc_open() until uvc_close() sets
\* kill_handler_thread.
THEOREM CameraHandlerRuns == Spec => []HandlerRuns
<1>1. CameraInv => HandlerRuns
  BY DEF CameraInv, OnceInv, HandlerRuns, TypeOK, Position
<1> QED  BY <1>1, CameraInvariance, PTL

==============================================================================
