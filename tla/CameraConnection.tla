---------------------------- MODULE CameraConnection ----------------------------
(***************************************************************************)
(* The life of a native UVCCamera: connect(), release(), cleanup(),        *)
(* hardReset() and the destructor (UVCCamera.cpp), with what uvc_open(),   *)
(* uvc_close() and uvc_exit() of the libuvc fork do for them.              *)
(*                                                                         *)
(* Each camera has a calling thread and the event handler thread of its    *)
(* libuvc context.  One method runs at a time.  That is a contract: open,  *)
(* close, startPreview, stopPreview and destroy of UVCCamera.java are      *)
(* synchronized, cleanup, releaseInterface and hardReset are not.  All     *)
(* cameras share the table of file descriptors of the process, from which  *)
(* dup() takes the lowest free one.                                        *)
(* A uvc_context_t is kept until the destructor; its kill_handler_thread   *)
(* is set by uvc_close() and never reset.  The preview is reduced to       *)
(* whether its stream runs; SurfaceSwap and RingTeardown have its threads. *)
(***************************************************************************)
EXTENDS Integers, FiniteSets, FiniteSetsExt

CONSTANTS Cameras,   \* the native UVCCamera objects
          System,    \* the owner of descriptors that are not a camera's
          Free,      \* the owner of a descriptor that is not open
          NumFds,    \* bound: the descriptors the process may have
          Reused,    \* the cameras whose application connects them again
          MaxCalls   \* bound: the calls of all applications together

ASSUME OwnerAssumption == System \notin Cameras /\ Free \notin Cameras /\ System # Free
ASSUME FdsAssumption == NumFds \in Nat \ {0}
ASSUME ReusedAssumption == Reused \subseteq Cameras
ASSUME CallsAssumption == MaxCalls \in Nat

Fds == 0 .. NumFds - 1
NoFd == -1

\* CleanupLevel: 0 PREVIEW_ONLY, 1 CAMERA, 2 INTERFACE, 3 FULL
Levels == 0 .. 3
Calls == {"none", "connect", "start", "stop", "release", "cleanup", "hardReset", "destroy"}

Steps == {"idle", "connect", "lookUp", "open", "createHelpers", "stopPreview",
          "deleteHelpers", "kill", "closeUsb", "join", "freeHandle", "reset",
          "unrefDevice", "closeFd", "exitContext", "emitReady", "emit"}

VARIABLES
  object,     \* does the native object exist?
  pc, call,   \* the calling thread: its next step and the method it is in
  level,      \* the argument of cleanup()
  context,    \* mContext: "none", "live", or "killed" (kill_handler_thread = 1)
  thread,     \* the handler thread: "none" also when it has been joined
  device,     \* mDevice: is it set?
  refs,       \* the references to devices of the camera that are not given back
  overwritten, \* history: how often connect() overwrote an mDevice still set
  handle,     \* mDeviceHandle: "closed" from libusb_close() until it is freed
  helpers,    \* mStatusCallback, mButtonCallback, mReadinessCallback, mPreview
  streaming,  \* has the preview a running stream?
  mFd,        \* 0 when there is none, and when it is descriptor 0
  usbFs,      \* mUsbFs: is it set?
  newFd,      \* the descriptor connect() has duplicated
  telemetry,  \* mTelemetry: "none", or in a ring that is "live" or "freed"
  owner,      \* the descriptors of the process
  mine,       \* history: what mFd stands for: "own" for a descriptor of connect(),
              \* "failed" for none after a connect() that failed, else "none"
  stray,      \* history: has a camera that had no descriptor closed mFd = 0?
  calls       \* how many calls were made

objVars  == <<object, helpers, streaming, telemetry>>
callVars == <<pc, call, level, calls>>
usbVars  == <<context, thread, device, refs, overwritten, handle>>
fdVars   == <<mFd, usbFs, newFd, owner, mine, stray>>
vars == <<objVars, callVars, usbVars, fdVars>>

Init ==
  /\ object = [c \in Cameras |-> FALSE]
  /\ pc = [c \in Cameras |-> "idle"] /\ call = [c \in Cameras |-> "none"]
  /\ level = [c \in Cameras |-> 0]
  /\ context = [c \in Cameras |-> "none"] /\ thread = [c \in Cameras |-> "none"]
  /\ device = [c \in Cameras |-> FALSE] /\ refs = [c \in Cameras |-> 0]
  /\ overwritten = [c \in Cameras |-> 0]
  /\ handle = [c \in Cameras |-> "none"]
  /\ helpers = [c \in Cameras |-> FALSE] /\ streaming = [c \in Cameras |-> FALSE]
  /\ mFd = [c \in Cameras |-> 0] /\ usbFs = [c \in Cameras |-> FALSE]
  /\ newFd = [c \in Cameras |-> NoFd]
  /\ mine = [c \in Cameras |-> "none"] /\ stray = FALSE
  /\ telemetry = [c \in Cameras |-> "none"]
  /\ owner = [f \in Fds |-> IF f = 0 THEN System ELSE Free]
  /\ calls = 0

-----------------------------------------------------------------------------
Goto(c, s) == pc' = [pc EXCEPT ![c] = s]
Return(c) == Goto(c, "idle")

\* A method that changes the readiness state writes to mTelemetry, if it is set.
EmitOrReturn(c) == Goto(c, IF telemetry[c] = "none" THEN "idle" ELSE "emit")

Enter(c, m, s) ==
  /\ pc[c] = "idle" /\ object[c] /\ calls < MaxCalls
  /\ calls' = calls + 1 /\ call' = [call EXCEPT ![c] = m] /\ Goto(c, s)

\* close(fd): whoever owned the descriptor has lost it; close(-1) does nothing.
Close(f) == owner' = IF f \in Fds THEN [owner EXCEPT ![f] = Free] ELSE owner

\* dup(): the lowest descriptor that is free.
FreeFds == {f \in Fds : owner[f] = Free}
Dup == IF FreeFds = {} THEN NoFd ELSE Min(FreeFds)

\* connect() fails: mFd keeps what it had, if anything.
Fail(c) == mine' = [mine EXCEPT ![c] = IF @ = "own" THEN "own" ELSE "failed"]

\* UVCCamera::UVCCamera
Create(c) ==
  /\ pc[c] = "idle" /\ ~object[c] /\ calls < MaxCalls
  /\ object' = [object EXCEPT ![c] = TRUE]
  /\ calls' = calls + 1
  /\ UNCHANGED <<pc, call, level, helpers, streaming, telemetry, usbVars, fdVars>>

\* After the preview was stopped (READY), and at the end of a method.
Emit(c) ==
  /\ \/ /\ pc[c] = "emitReady"
        /\ Goto(c, IF call[c] = "stop" THEN "idle" ELSE "deleteHelpers")
     \/ /\ pc[c] = "emit"
        /\ Goto(c, IF call[c] = "destroy" THEN "exitContext" ELSE "idle")
  /\ UNCHANGED <<call, level, calls, objVars, usbVars, fdVars>>

-----------------------------------------------------------------------------
(* connect() and connectSimple().                                          *)

\* connectSimple() refuses its arguments.
RefuseConnect(c) ==
  /\ pc[c] = "idle" /\ object[c] /\ calls < MaxCalls
  /\ calls' = calls + 1 /\ call' = [call EXCEPT ![c] = "connect"]
  /\ EmitOrReturn(c)
  /\ UNCHANGED <<level, objVars, usbVars, fdVars>>

\* A camera that is open is refused; the application of a camera that is not
\* Reused makes a new object for every connection.
CallConnect(c) ==
  /\ handle[c] = "none"
  /\ c \in Reused \/ (~device[c] /\ ~usbFs[c] /\ context[c] = "none")
  /\ Enter(c, "connect", "connect")
  /\ UNCHANGED <<level, objVars, usbVars, fdVars>>

\* mUsbFs is replaced, the context is made if there is none, fd is duplicated.
PrepareConnect(c) ==
  /\ pc[c] = "connect"
  /\ usbFs' = [usbFs EXCEPT ![c] = TRUE]
  /\ \/ /\ context[c] = "none"          \* uvc_init2 fails
        /\ EmitOrReturn(c) /\ Fail(c)
        /\ UNCHANGED <<context, newFd, owner>>
     \/ /\ context' = [context EXCEPT ![c] = IF @ = "none" THEN "live" ELSE @]
        /\ newFd' = [newFd EXCEPT ![c] = Dup]
        /\ owner' = IF Dup = NoFd THEN owner ELSE [owner EXCEPT ![Dup] = c]
        /\ Goto(c, "lookUp")
        /\ UNCHANGED mine
  /\ UNCHANGED <<call, level, calls, objVars, thread, device, refs, overwritten, handle, mFd, stray>>

\* Mutant: the duplicate stays open.
FailConnect_Leaks(c) ==
  /\ newFd' = [newFd EXCEPT ![c] = NoFd]
  /\ EmitOrReturn(c) /\ Fail(c)
  /\ UNCHANGED <<mFd, usbFs, owner, stray>>

\* The duplicate is closed; mFd and mUsbFs stay as they are.
FailConnect(c) ==
  /\ Close(newFd[c])
  /\ newFd' = [newFd EXCEPT ![c] = NoFd]
  /\ EmitOrReturn(c) /\ Fail(c)
  /\ UNCHANGED <<mFd, usbFs, stray>>

\* uvc_get_device_with_fd: mDevice is overwritten, even with NULL; a device it
\* still led to, after cleanup(CAMERA) or (INTERFACE), is lost with its reference.
LookUpDevice(c) ==
  /\ pc[c] = "lookUp"
  /\ overwritten' = [overwritten EXCEPT ![c] = IF device[c] THEN @ + 1 ELSE @]
  /\ \/ /\ newFd[c] # NoFd
        /\ device' = [device EXCEPT ![c] = TRUE] /\ refs' = [refs EXCEPT ![c] = @ + 1]
        /\ Goto(c, "open")
        /\ UNCHANGED fdVars
     \/ /\ device' = [device EXCEPT ![c] = FALSE]
        /\ FailConnect(c)
        /\ UNCHANGED refs
  /\ UNCHANGED <<call, level, calls, objVars, context, thread, handle>>

\* Mutant: the list of open devices is tested after the device was appended.
OpenHandle_NoThread(c) ==
  /\ pc[c] = "open"
  /\ handle' = [handle EXCEPT ![c] = "open"]
  /\ refs' = [refs EXCEPT ![c] = @ + 1]
  /\ Goto(c, "createHelpers")
  /\ UNCHANGED <<call, level, calls, objVars, context, thread, device, overwritten, fdVars>>

\* uvc_open: refers to the device and starts the handler thread, which looks at
\* kill_handler_thread before anything else.
OpenHandle(c) ==
  /\ pc[c] = "open"
  /\ handle' = [handle EXCEPT ![c] = "open"]
  /\ refs' = [refs EXCEPT ![c] = @ + 1]
  /\ thread' = [thread EXCEPT ![c] = IF context[c] = "killed" THEN "exited" ELSE "looping"]
  /\ Goto(c, "createHelpers")
  /\ UNCHANGED <<call, level, calls, objVars, context, device, overwritten, fdVars>>

\* Mutant: connect() forgets the device without unreferencing it.
OpenFails_Kept(c) ==
  /\ pc[c] = "open"
  /\ device' = [device EXCEPT ![c] = FALSE]
  /\ FailConnect(c)
  /\ UNCHANGED <<call, level, calls, objVars, context, thread, refs, overwritten, handle>>

\* uvc_open fails and gives back what it took; connect() forgets the device.
OpenFails(c) ==
  /\ pc[c] = "open"
  /\ refs' = [refs EXCEPT ![c] = @ - 1] /\ device' = [device EXCEPT ![c] = FALSE]
  /\ FailConnect(c)
  /\ UNCHANGED <<call, level, calls, objVars, context, thread, overwritten, handle>>

CreateHelpers(c) ==
  /\ pc[c] = "createHelpers"
  /\ mFd' = [mFd EXCEPT ![c] = newFd[c]] /\ newFd' = [newFd EXCEPT ![c] = NoFd]
  /\ mine' = [mine EXCEPT ![c] = "own"]
  /\ helpers' = [helpers EXCEPT ![c] = TRUE]
  /\ EmitOrReturn(c)
  /\ UNCHANGED <<call, level, calls, object, streaming, telemetry, usbVars, usbFs, owner, stray>>

-----------------------------------------------------------------------------
(* Use of an open camera.                                                  *)

\* nativeSetFrameBufferRing: the preview gets the ring, the camera its telemetry.
SetFrameBufferRing(c) ==
  /\ pc[c] = "idle" /\ helpers[c] /\ calls < MaxCalls
  /\ telemetry[c] # "live"
  /\ telemetry' = [telemetry EXCEPT ![c] = "live"] /\ calls' = calls + 1
  /\ UNCHANGED <<pc, call, level, object, helpers, streaming, usbVars, fdVars>>

StartPreview(c) ==
  /\ handle[c] = "open" /\ helpers[c] /\ ~streaming[c]
  /\ Enter(c, "start", IF telemetry[c] = "none" THEN "idle" ELSE "emit")
  /\ streaming' = [streaming EXCEPT ![c] = TRUE]
  /\ UNCHANGED <<level, object, helpers, telemetry, usbVars, fdVars>>

CallStop(c) ==
  /\ helpers[c]
  /\ Enter(c, "stop", "stopPreview")
  /\ UNCHANGED <<level, objVars, usbVars, fdVars>>

CallRelease(c) ==
  /\ Enter(c, "release", IF helpers[c] THEN "stopPreview" ELSE "unrefDevice")
  /\ UNCHANGED <<level, objVars, usbVars, fdVars>>

CallCleanup(c) ==
  /\ \E l \in Levels : level' = [level EXCEPT ![c] = l]
  /\ Enter(c, "cleanup", IF helpers[c] THEN "stopPreview"
                         ELSE IF level'[c] = 3 THEN "unrefDevice" ELSE "idle")
  /\ UNCHANGED <<objVars, usbVars, fdVars>>

\* forceStop() is called for a camera that could not be opened or is stopped:
\* it does not wait for the threads of a running preview.
CallHardReset(c) ==
  /\ ~streaming[c]
  /\ Enter(c, "hardReset", IF helpers[c] THEN "deleteHelpers" ELSE "reset")
  /\ UNCHANGED <<level, objVars, usbVars, fdVars>>

\* nativeDestroy: the destructor begins with release().
CallDestroy(c) ==
  /\ Enter(c, "destroy", IF helpers[c] THEN "stopPreview" ELSE "unrefDevice")
  /\ UNCHANGED <<level, objVars, usbVars, fdVars>>

\* The ring of a preview that is stopped or deleted goes with its telemetry.
FreeTelemetry(c) ==
  telemetry' = [telemetry EXCEPT ![c] = IF @ = "live" THEN "freed" ELSE @]

\* Stopping the stream waits for its transfers, which only the handler thread
\* can take back.
StopPreview(c) ==
  /\ pc[c] = "stopPreview"
  /\ IF streaming[c]
       THEN /\ thread[c] \in {"looping", "status"}
            /\ streaming' = [streaming EXCEPT ![c] = FALSE] /\ FreeTelemetry(c)
       ELSE UNCHANGED <<streaming, telemetry>>
  /\ CASE call[c] = "cleanup" -> Goto(c, IF level[c] = 0 THEN "idle" ELSE "deleteHelpers")
       [] telemetry[c] # "none" -> Goto(c, "emitReady")
       [] OTHER -> Goto(c, IF call[c] = "stop" THEN "idle" ELSE "deleteHelpers")
  /\ UNCHANGED <<call, level, calls, object, helpers, usbVars, fdVars>>

-----------------------------------------------------------------------------
(* Closing.                                                                *)

DeleteHelpers(c) ==
  /\ pc[c] = "deleteHelpers"
  /\ helpers' = [helpers EXCEPT ![c] = FALSE] /\ FreeTelemetry(c)
  /\ Goto(c, "kill")
  /\ UNCHANGED <<call, level, calls, object, streaming, usbVars, fdVars>>

\* Mutant: the flag is left for after the join.
KillHandlerThread_Late(c) ==
  /\ pc[c] = "kill"
  /\ Goto(c, "closeUsb")
  /\ UNCHANGED <<call, level, calls, objVars, context, thread, device, refs, overwritten, handle, fdVars>>

\* uvc_close: the flag first, then libusb_close, which makes the handler thread
\* return from libusb_handle_events and takes the event lock.
KillHandlerThread(c) ==
  /\ pc[c] = "kill"
  /\ context' = [context EXCEPT ![c] = "killed"]
  /\ Goto(c, "closeUsb")
  /\ UNCHANGED <<call, level, calls, objVars, thread, device, refs, overwritten, handle, fdVars>>

\* Mutant: libusb_close() does not take the event lock.
CloseUsb_Unlocked(c) ==
  /\ pc[c] = "closeUsb"
  /\ handle' = [handle EXCEPT ![c] = "closed"]
  /\ Goto(c, "join")
  /\ UNCHANGED <<call, level, calls, objVars, context, thread, device, refs, overwritten, fdVars>>

CloseUsb(c) ==
  /\ pc[c] = "closeUsb"
  /\ thread[c] # "status"
  /\ handle' = [handle EXCEPT ![c] = "closed"]
  /\ Goto(c, "join")
  /\ UNCHANGED <<call, level, calls, objVars, context, thread, device, refs, overwritten, fdVars>>

JoinHandlerThread(c) ==
  /\ pc[c] = "join"
  /\ thread[c] = "exited"
  /\ thread' = [thread EXCEPT ![c] = "none"]
  /\ Goto(c, "freeHandle")
  /\ UNCHANGED <<call, level, calls, objVars, context, device, refs, overwritten, handle, fdVars>>

FreeHandle(c) ==
  /\ pc[c] = "freeHandle"
  /\ handle' = [handle EXCEPT ![c] = "none"]
  /\ refs' = [refs EXCEPT ![c] = @ - 1]
  /\ CASE call[c] = "hardReset" -> Goto(c, "reset")
       [] call[c] = "cleanup" /\ level[c] < 3 -> Return(c)
       [] OTHER -> Goto(c, "unrefDevice")
  /\ UNCHANGED <<call, level, calls, objVars, context, thread, device, overwritten, fdVars>>

\* hardReset() opens mDevice once more to reset it.
ResetDevice(c) ==
  /\ pc[c] = "reset"
  /\ Goto(c, "unrefDevice")
  /\ UNCHANGED <<call, level, calls, objVars, usbVars, fdVars>>

UnrefDevice(c) ==
  /\ pc[c] = "unrefDevice"
  /\ device' = [device EXCEPT ![c] = FALSE]
  /\ refs' = [refs EXCEPT ![c] = IF device[c] THEN @ - 1 ELSE @]
  /\ Goto(c, "closeFd")
  /\ UNCHANGED <<call, level, calls, objVars, context, thread, overwritten, handle, fdVars>>

\* The camera has no descriptor any more; did it have one?
Closed(c) ==
  /\ mine' = [mine EXCEPT ![c] = "none"]
  /\ stray' = (stray \/ mine[c] = "failed")

\* Mutant: mFd keeps the number of the descriptor that was closed.
CloseFd_Stale(c) ==
  /\ pc[c] = "closeFd"
  /\ IF usbFs[c]
       THEN Close(mFd[c]) /\ usbFs' = [usbFs EXCEPT ![c] = FALSE] /\ Closed(c)
       ELSE UNCHANGED <<owner, usbFs, mine, stray>>
  /\ CASE call[c] \notin {"release", "destroy"} -> Return(c)
       [] telemetry[c] # "none" -> Goto(c, "emit")
       [] OTHER -> Goto(c, IF call[c] = "release" THEN "idle" ELSE "exitContext")
  /\ UNCHANGED <<call, level, calls, objVars, usbVars, newFd, mFd>>

\* mFd is closed whenever mUsbFs is set, though it may never have been assigned.
CloseFd(c) ==
  /\ pc[c] = "closeFd"
  /\ IF usbFs[c]
       THEN /\ Close(mFd[c]) /\ Closed(c)
            /\ mFd' = [mFd EXCEPT ![c] = 0] /\ usbFs' = [usbFs EXCEPT ![c] = FALSE]
       ELSE UNCHANGED <<owner, mFd, usbFs, mine, stray>>
  /\ CASE call[c] \notin {"release", "destroy"} -> Return(c)
       [] telemetry[c] # "none" -> Goto(c, "emit")
       [] OTHER -> Goto(c, IF call[c] = "release" THEN "idle" ELSE "exitContext")
  /\ UNCHANGED <<call, level, calls, objVars, usbVars, newFd>>

\* The rest of the destructor: uvc_exit() frees the context.
ExitContext(c) ==
  /\ pc[c] = "exitContext"
  /\ context' = [context EXCEPT ![c] = "none"]
  /\ object' = [object EXCEPT ![c] = FALSE]
  /\ telemetry' = [telemetry EXCEPT ![c] = "none"]
  /\ Return(c)
  /\ UNCHANGED <<call, level, calls, helpers, streaming, thread, device, refs, overwritten, handle, fdVars>>

-----------------------------------------------------------------------------
(* The handler thread of a context (_uvc_handle_events).                   *)

\* It runs the callback of a completed status transfer, under the event lock.
HandleStatus(c) ==
  /\ thread[c] = "looping" /\ handle[c] = "open"
  /\ thread' = [thread EXCEPT ![c] = "status"]
  /\ UNCHANGED <<context, device, refs, overwritten, handle, objVars, callVars, fdVars>>

StatusHandled(c) ==
  /\ thread[c] = "status"
  /\ thread' = [thread EXCEPT ![c] = IF context[c] = "killed" THEN "exited" ELSE "looping"]
  /\ UNCHANGED <<context, device, refs, overwritten, handle, objVars, callVars, fdVars>>

\* libusb_handle_events returned: the loop looks at kill_handler_thread.
TestKill(c) ==
  /\ thread[c] = "looping" /\ context[c] = "killed"
  /\ thread' = [thread EXCEPT ![c] = "exited"]
  /\ UNCHANGED <<context, device, refs, overwritten, handle, objVars, callVars, fdVars>>

-----------------------------------------------------------------------------
Call(c) ==
  Create(c) \/ RefuseConnect(c) \/ CallConnect(c) \/ SetFrameBufferRing(c) \/ StartPreview(c)
    \/ CallStop(c) \/ CallRelease(c) \/ CallCleanup(c) \/ CallHardReset(c) \/ CallDestroy(c)

Connecting(c) ==
  PrepareConnect(c) \/ LookUpDevice(c) \/ OpenHandle(c) \/ OpenFails(c) \/ CreateHelpers(c)

Closing(c) ==
  StopPreview(c) \/ DeleteHelpers(c) \/ KillHandlerThread(c) \/ CloseUsb(c)
    \/ JoinHandlerThread(c) \/ FreeHandle(c) \/ ResetDevice(c) \/ UnrefDevice(c)
    \/ CloseFd(c) \/ ExitContext(c) \/ Emit(c)

HandlerThread(c) == HandleStatus(c) \/ StatusHandled(c) \/ TestKill(c)

Next == \E c \in Cameras : Call(c) \/ Connecting(c) \/ Closing(c) \/ HandlerThread(c)

Spec == Init /\ [][Next]_vars

\* A thread inside a method goes on; the handler thread ends a callback, and
\* libusb_close() wakes it to look at its flag.
FairSpec ==
  /\ Spec
  /\ \A c \in Cameras : /\ WF_vars(Connecting(c)) /\ WF_vars(Closing(c))
                        /\ WF_vars(StatusHandled(c) \/ TestKill(c))

-----------------------------------------------------------------------------
TypeOK ==
  /\ object \in [Cameras -> BOOLEAN] /\ helpers \in [Cameras -> BOOLEAN]
  /\ streaming \in [Cameras -> BOOLEAN]
  /\ telemetry \in [Cameras -> {"none", "live", "freed"}]
  /\ pc \in [Cameras -> Steps] /\ call \in [Cameras -> Calls]
  /\ level \in [Cameras -> Levels] /\ calls \in 0 .. MaxCalls
  /\ context \in [Cameras -> {"none", "live", "killed"}]
  /\ thread \in [Cameras -> {"none", "looping", "status", "exited"}]
  /\ device \in [Cameras -> BOOLEAN] /\ refs \in [Cameras -> Nat] /\ overwritten \in [Cameras -> Nat]
  /\ handle \in [Cameras -> {"none", "open", "closed"}]
  /\ mFd \in [Cameras -> Fds] /\ newFd \in [Cameras -> Fds \cup {NoFd}]
  /\ usbFs \in [Cameras -> BOOLEAN]
  /\ owner \in [Fds -> Cameras \cup {System, Free}]
  /\ mine \in [Cameras -> {"none", "own", "failed"}] /\ stray \in BOOLEAN

\* The handler thread runs libusb callbacks only while the device handle is
\* open, and it has been joined when the handle is freed (uvc_close, uvc_free_devh).
HandlerWithinHandle ==
  \A c \in Cameras :
    /\ thread[c] = "status" => handle[c] = "open"
    /\ thread[c] # "none" => handle[c] # "none" /\ context[c] # "none"

\* Every reference to a uvc_device_t is that of mDevice or of the open handle,
\* through every failed connect and every order of cleanup calls, but for the one
\* that is lost each time connect() overwrites an mDevice that was kept
\* (uvc_ref_device, uvc_unref_device).  An application that connects each object
\* once loses none; cleanup(CAMERA) and connect does (README 7).
DeviceRefsExact ==
  \A c \in Cameras :
    /\ refs[c] = overwritten[c] + (IF device[c] THEN 1 ELSE 0) + (IF handle[c] # "none" THEN 1 ELSE 0)
    /\ overwritten[c] > 0 => c \in Reused

\* A camera whose connect() succeeded owns the descriptor in mFd until it closes it,
\* and one without a descriptor, which closes mFd nevertheless if mUsbFs is set, has
\* 0 there and got mUsbFs from a connect() that failed.  Descriptor 0 is safe until
\* such a camera is released: then it is closed whoever owns it (README 7).
OwnsItsFd ==
  \A c \in Cameras :
    /\ mine[c] = "own" => owner[mFd[c]] = c \/ (mFd[c] = 0 /\ stray)
    /\ mine[c] # "own" => mFd[c] = 0
    /\ usbFs[c] /\ mine[c] = "none" => pc[c] \in {"lookUp", "open", "createHelpers"}

\* A camera that is connected once per object loses no descriptor: whatever it
\* owns will be closed by the connect in progress or by release().
NoFdLeaks ==
  \A c \in Cameras \ Reused : \A f \in Fds :
    owner[f] = c => f = newFd[c] \/ (f = mFd[c] /\ usbFs[c])

\* An open camera of an application that connects each object once has a handler
\* thread until it is closed, so transfers complete (uvc_open, uvc_close).
HandlerRuns ==
  \A c \in Cameras \ Reused :
    handle[c] = "open" /\ pc[c] \notin {"kill", "closeUsb"} => thread[c] \in {"looping", "status"}

\* The same for every application: a camera may be released and connected again.
HandlerAlwaysRuns ==
  \A c \in Cameras :
    handle[c] = "open" /\ pc[c] \notin {"kill", "closeUsb"} => thread[c] \in {"looping", "status"}

\* Whenever a method writes the readiness state, mTelemetry is in a ring that
\* still exists (setTelemetry: the camera refers to it, the caller owns it).
\* The code does not keep this: the ring may be deleted first (README 7).
TelemetryIsLive ==
  \A c \in Cameras : pc[c] \in {"connect", "emitReady", "emit"} => telemetry[c] # "freed"

\* The handler thread that would take the stream's transfers back has gone.
Starved(c) == pc[c] = "stopPreview" /\ streaming[c] /\ thread[c] = "exited"

\* Every call returns, unless it has to stop a stream without a handler thread;
\* in particular the join in uvc_close() ends.
CallsReturn ==
  \A c \in Cameras : pc[c] # "idle" ~> (pc[c] = "idle" \/ Starved(c))
==============================================================================
