------------------------- MODULE HandleManager_proofs -------------------------
(***************************************************************************)
(* What HandleManager guarantees for any number of callers, slots and      *)
(* objects.  The count in a slot is exact whatever the threads do; that    *)
(* the table is in step with the heap, that stale handles stay stale and   *)
(* that no object is freed under a caller the drain waits for needs one    *)
(* lifecycle thread at a time.  Drains that give up and loads that pass    *)
(* the fetch_add are steps of the specification, here as in its runs.  A   *)
(* history of the handles given out says that calls and destructions hit   *)
(* the right object.                                                       *)
(***************************************************************************)
EXTENDS HandleManager, FiniteSetTheorems, TLAPS

\* "This is acceptable for camera use case (single-threaded init)".
SingleOwner == \A o1, o2 \in Owners : o1 = o2

USE DEF UserSteps, OwnerSteps

\* The parts of a handle.
LEMMA HandleParts ==
  /\ ZeroHandle \in Handle
  /\ \A h \in Handle : h.idx \in Slots /\ h.gen \in Nat
  /\ \A i \in Slots, g \in Nat : [idx |-> i, gen |-> g] \in Handle
  /\ \A h \in Handle, i \in Slots : [h EXCEPT !.idx = i] \in Handle
  /\ \A h \in Handle, g \in Nat : [h EXCEPT !.gen = g] \in Handle
  BY SlotsAssumption DEF ZeroHandle, Handle, Slots

\* Slot 0 exists, and the probe count stays inside the table.
LEMMA SlotFacts ==
  /\ 0 \in Slots
  /\ \A i \in Slots : i \in Nat /\ (i + 1 < NumSlots => i + 1 \in Slots)
  BY SlotsAssumption DEF Slots

\* Probing wraps around inside the table.
LEMMA ModInSlots == ASSUME NEW n \in Nat PROVE n % NumSlots \in Slots
  BY SlotsAssumption, SMT DEF Slots

\* Alive and dead generations alternate.
LEMMA Parity == ASSUME NEW n \in Nat PROVE Alive(n + 1) <=> ~Alive(n)
  BY SMT DEF Alive

\* The callers of a slot are finitely many.
LEMMA HoldersFinite ==
  ASSUME NEW s PROVE IsFiniteSet(Holders(s)) /\ Cardinality(Holders(s)) \in Nat
  BY UsersAssumption, FS_Subset, FS_CardinalityType DEF Holders

-----------------------------------------------------------------------------
(* Type correctness and the exact count, together: a count never falls     *)
(* below zero because whoever drops a reference is one of its holders.     *)

\* A caller outside acquire() and its ScopedRef has dropped its count.
IdleUncounted == \A u \in Users : upc[u] = "idle" => ~counted[u]

CountInv == TypeOK /\ RefsAreExact /\ IdleUncounted

LEMMA InitCount == Init => CountInv
<1> SUFFICES ASSUME Init PROVE CountInv  OBVIOUS
<1>1. TypeOK
  BY HandleParts, SlotFacts DEF Init, TypeOK
<1>2. RefsAreExact
  <2>1. \A s \in Slots : Holders(s) = {}
    BY DEF Init, Holders
  <2> QED  BY <2>1, FS_EmptySet DEF Init, RefsAreExact
<1> QED  BY <1>1, <1>2 DEF CountInv, IdleUncounted, Init

\* A step that leaves counts, steps and handles of the callers alone keeps the count exact.
LEMMA CountUnchanged ==
  ASSUME RefsAreExact, IdleUncounted, UNCHANGED <<activeRefs, upc, uh, counted>>
  PROVE  RefsAreExact' /\ IdleUncounted'
  BY DEF RefsAreExact, IdleUncounted, Holders

LEMMA EnterAcquireStep ==
  ASSUME CountInv, NEW u \in Users, EnterAcquire(u) PROVE CountInv'
<1> USE DEF CountInv
<1>1. PICK h \in issued \cup {ZeroHandle} : uh' = [uh EXCEPT ![u] = h]
  BY DEF EnterAcquire
<1>2. TypeOK'
  BY <1>1, HandleParts DEF TypeOK, EnterAcquire, slotVars, heapVars, ownerVars
<1>3. \A s \in Slots : Holders(s)' = Holders(s)
  BY <1>1 DEF EnterAcquire, Holders, IdleUncounted, TypeOK
<1>4. RefsAreExact' /\ IdleUncounted'
  BY <1>3 DEF EnterAcquire, RefsAreExact, IdleUncounted, TypeOK, slotVars
<1> QED  BY <1>2, <1>4

LEMMA CountRefStep ==
  ASSUME CountInv, NEW u \in Users, CountRef(u) PROVE CountInv'
<1> USE DEF CountInv
<1> DEFINE s0 == uh[u].idx
<1>1. /\ upc[u] # "idle" /\ ~counted[u] /\ counted' = [counted EXCEPT ![u] = TRUE]
      /\ uh' = uh /\ upc' = upc
      /\ activeRefs' = [activeRefs EXCEPT ![s0] = @ + 1]
  BY DEF CountRef
<1>2. s0 \in Slots
  BY HandleParts DEF TypeOK
<1>3. TypeOK'
  BY <1>1, <1>2 DEF TypeOK, CountRef, heapVars, ownerVars
<1>4. RefsAreExact'
  <2> SUFFICES ASSUME NEW s \in Slots PROVE activeRefs'[s] = Cardinality(Holders(s)')
    BY DEF RefsAreExact
  <2>1. CASE s = s0
    <3>1. Holders(s)' = Holders(s) \cup {u} /\ u \notin Holders(s)
      BY <1>1, <2>1 DEF Holders, TypeOK
    <3>2. Cardinality(Holders(s)') = Cardinality(Holders(s)) + 1
      BY <3>1, HoldersFinite, FS_AddElement
    <3>3. activeRefs'[s] = activeRefs[s] + 1
      BY <1>1, <2>1 DEF TypeOK
    <3> QED  BY <3>2, <3>3 DEF RefsAreExact
  <2>2. CASE s # s0
    <3>1. Holders(s)' = Holders(s)
      BY <1>1, <2>2 DEF Holders, TypeOK
    <3> QED  BY <1>1, <1>2, <2>2, <3>1 DEF RefsAreExact, TypeOK
  <2> QED  BY <2>1, <2>2
<1>5. IdleUncounted'
  BY <1>1 DEF IdleUncounted, TypeOK
<1> QED  BY <1>3, <1>4, <1>5

LEMMA DropRefStep ==
  ASSUME CountInv, NEW u \in Users, DropRef(u) PROVE CountInv'
<1> USE DEF CountInv
<1> DEFINE s0 == uh[u].idx
<1>1. /\ counted[u] /\ counted' = [counted EXCEPT ![u] = FALSE]
      /\ upc' = [upc EXCEPT ![u] = "idle"] /\ uh' = uh
      /\ activeRefs' = [activeRefs EXCEPT ![s0] = @ - 1]
  BY DEF DropRef
<1>2. s0 \in Slots
  BY HandleParts DEF TypeOK
<1>3. RefsAreExact' /\ activeRefs[s0] - 1 \in Nat
  <2>1. Holders(s0)' = Holders(s0) \ {u} /\ u \in Holders(s0)
    BY <1>1 DEF Holders, TypeOK
  <2>2. /\ Cardinality(Holders(s0)') = Cardinality(Holders(s0)) - 1
        /\ Cardinality(Holders(s0)') \in Nat
    <3>1. Cardinality(Holders(s0) \ {u}) = Cardinality(Holders(s0)) - 1
      BY <2>1, HoldersFinite, FS_RemoveElement
    <3>2. IsFiniteSet(Holders(s0) \ {u})
      BY <2>1, HoldersFinite, FS_RemoveElement
    <3> QED  BY <2>1, <3>1, <3>2, FS_CardinalityType
  <2>3. ASSUME NEW s \in Slots, s # s0 PROVE Holders(s)' = Holders(s)
    BY <1>1, <2>3 DEF Holders, TypeOK
  <2>4. activeRefs[s0] = Cardinality(Holders(s0))
    BY <1>2 DEF RefsAreExact
  <2>5. ASSUME NEW s \in Slots PROVE activeRefs'[s] = Cardinality(Holders(s)')
    <3>1. CASE s = s0
      BY <1>1, <1>2, <2>2, <2>4, <3>1 DEF TypeOK
    <3>2. CASE s # s0
      BY <1>1, <1>2, <2>3, <3>2 DEF TypeOK, RefsAreExact
    <3> QED  BY <3>1, <3>2
  <2> QED  BY <2>2, <2>4, <2>5 DEF RefsAreExact
<1>4. TypeOK'
  BY <1>1, <1>2, <1>3 DEF TypeOK, DropRef, heapVars, ownerVars
<1>5. IdleUncounted'
  BY <1>1 DEF IdleUncounted, TypeOK
<1> QED  BY <1>3, <1>4, <1>5

LEMMA NextCount == CountInv /\ [Next]_vars => CountInv'
<1> SUFFICES ASSUME CountInv, [Next]_vars PROVE CountInv'  OBVIOUS
<1> USE DEF CountInv, TypeOK
<1>a. \A u \in Users : uh[u].idx \in Slots /\ uh[u].gen \in Nat
  BY HandleParts
<1>b. \A o \in Owners : oh[o].idx \in Slots /\ oh[o].gen \in Nat
  BY HandleParts
<1>c. \A i \in Slots : (i + 1) % NumSlots \in Slots
  <2> SUFFICES ASSUME NEW i \in Slots PROVE (i + 1) % NumSlots \in Slots  OBVIOUS
  <2>1. i + 1 \in Nat
    BY SlotFacts
  <2> QED  BY <2>1, ModInSlots
<1>0. ASSUME NEW u \in Users, EnterAcquire(u) PROVE CountInv'
  BY <1>0, EnterAcquireStep
<1>1. ASSUME NEW u \in Users, CountRef(u) PROVE CountInv'
  BY <1>1, CountRefStep
<1>2. ASSUME NEW u \in Users, LoadGeneration(u) PROVE CountInv'
  <2>1. upc[u] # "idle" /\ upc'[u] # "idle" /\ \A v \in Users \ {u} : upc'[v] = upc[v]
    BY <1>2 DEF LoadGeneration
  <2>2. RefsAreExact'
    BY <1>2 DEF LoadGeneration, slotVars, RefsAreExact, Holders
  <2>3. IdleUncounted'
    BY <1>2, <2>1 DEF LoadGeneration, IdleUncounted
  <2> QED  BY <1>2, <1>a, <2>2, <2>3 DEF LoadGeneration, slotVars, heapVars, ownerVars
<1>3. ASSUME NEW u \in Users, LoadContext(u) PROVE CountInv'
  <2>1. upc[u] # "idle" /\ upc'[u] # "idle" /\ \A v \in Users \ {u} : upc'[v] = upc[v]
    BY <1>3 DEF LoadContext
  <2>2. RefsAreExact'
    BY <1>3 DEF LoadContext, slotVars, RefsAreExact, Holders
  <2>3. IdleUncounted'
    BY <1>3, <2>1 DEF LoadContext, IdleUncounted
  <2> QED  BY <1>3, <1>a, <2>2, <2>3 DEF LoadContext, slotVars, heapVars, ownerVars
<1>4. ASSUME NEW u \in Users, DropRef(u) PROVE CountInv'
  BY <1>4, DropRefStep
<1>5. ASSUME NEW o \in Owners, Create(o) PROVE CountInv'
  <2>1. RefsAreExact' /\ IdleUncounted'
    BY <1>5, CountUnchanged DEF Create, slotVars, userVars
  <2>2. [idx |-> hint, gen |-> 0] \in Handle /\ 0 \in Slots
    BY HandleParts, SlotFacts
  <2>3. /\ object' \in [Ctx -> {"none", "live", "freed"}] /\ octx' \in [Owners -> Ctx \cup {NoCtx}]
        /\ oh' \in [Owners -> Handle] /\ oi' \in [Owners -> Slots] /\ opc' \in [Owners -> OwnerSteps]
    BY <1>5, <2>2 DEF Create
  <2> QED  BY <1>5, <2>1, <2>3 DEF Create, slotVars, userVars
<1>6. ASSUME NEW o \in Owners, NextProbe(o), UNCHANGED <<slotVars, userVars, issued, nativePtr, octx>>,
             ogen' \in [Owners -> Nat] PROVE CountInv'
  <2>1. RefsAreExact' /\ IdleUncounted'
    BY <1>6, CountUnchanged DEF slotVars, userVars
  <2>3. oh' \in [Owners -> Handle] /\ oi' \in [Owners -> Slots] /\ opc' \in [Owners -> OwnerSteps]
    <3>1. CASE oi[o] + 1 < NumSlots
      <4>1. [oh[o] EXCEPT !.idx = (@ + 1) % NumSlots] \in Handle
        BY <1>b, <1>c, HandleParts
      <4>2. oi[o] + 1 \in Slots
        BY <3>1, SlotFacts
      <4>3. /\ oh' = [oh EXCEPT ![o] = [oh[o] EXCEPT !.idx = (@ + 1) % NumSlots]]
            /\ oi' = [oi EXCEPT ![o] = oi[o] + 1]
            /\ opc' = [opc EXCEPT ![o] = "probe"]
        BY <1>6, <3>1 DEF NextProbe
      <4> QED  BY <4>1, <4>2, <4>3
    <3>2. CASE ~(oi[o] + 1 < NumSlots)
      BY <1>6, <3>2 DEF NextProbe
    <3> QED  BY <3>1, <3>2
  <2>4. object' \in [Ctx -> {"none", "live", "freed"}]
    BY <1>6 DEF NextProbe
  <2> QED  BY <1>6, <2>1, <2>3, <2>4 DEF slotVars, userVars
<1>7. ASSUME NEW o \in Owners, ProbeGeneration(o) PROVE CountInv'
  <2>1. ogen' \in [Owners -> Nat] /\ UNCHANGED <<slotVars, userVars, issued, nativePtr, octx>>
    BY <1>7, <1>b DEF ProbeGeneration
  <2>2. CASE NextProbe(o)
    BY <1>6, <2>1, <2>2
  <2>3. CASE opc' = [opc EXCEPT ![o] = "probeContext"] /\ UNCHANGED <<object, oi, oh>>
    BY <2>1, <2>3, CountUnchanged DEF slotVars, userVars
  <2> QED  BY <1>7, <2>2, <2>3 DEF ProbeGeneration
<1>8. ASSUME NEW o \in Owners, ProbeContext(o) PROVE CountInv'
  <2>1. ogen' \in [Owners -> Nat] /\ UNCHANGED <<slotVars, userVars, issued, nativePtr, octx>>
    BY <1>8 DEF ProbeContext
  <2>2. CASE NextProbe(o)
    BY <1>6, <2>1, <2>2
  <2>3. CASE opc' = [opc EXCEPT ![o] = "claim"] /\ UNCHANGED <<object, oi, oh>>
    BY <2>1, <2>3, CountUnchanged DEF slotVars, userVars
  <2> QED  BY <1>8, <2>2, <2>3 DEF ProbeContext
<1>9. ASSUME NEW o \in Owners, ClaimSlot(o) PROVE CountInv'
  BY <1>9, CountUnchanged DEF ClaimSlot, heapVars, userVars
<1>10. ASSUME NEW o \in Owners, PublishGeneration(o) PROVE CountInv'
  <2>b. ogen[o] + 1 \in Nat /\ oh[o] \in Handle
    OBVIOUS
  <2>1. [oh[o] EXCEPT !.gen = ogen[o] + 1] \in Handle
    BY <2>b, HandleParts
  <2>a. /\ generation' = [generation EXCEPT ![oh[o].idx] = ogen[o] + 1]
        /\ oh' = [oh EXCEPT ![o] = [oh[o] EXCEPT !.gen = ogen[o] + 1]]
        /\ opc' = [opc EXCEPT ![o] = "return"]
    BY <1>10 DEF PublishGeneration
  <2>2. generation' \in [Slots -> Nat] /\ oh' \in [Owners -> Handle] /\ opc' \in [Owners -> OwnerSteps]
    BY <2>a, <2>b, <2>1
  <2> QED  BY <1>10, <2>2, CountUnchanged DEF PublishGeneration, heapVars, userVars
<1>11. ASSUME NEW o \in Owners, ReturnHandle(o) PROVE CountInv'
  <2>1. hint' \in Slots
    BY <1>11, <1>b, <1>c DEF ReturnHandle
  <2> QED  BY <1>11, <2>1, CountUnchanged DEF ReturnHandle, userVars
<1>12. ASSUME NEW o \in Owners, Destroy(o) PROVE CountInv'
  <2>1. PICK h \in issued : /\ oh' = [oh EXCEPT ![o] = h]
                            /\ nativePtr' = [c \in Ctx |-> IF nativePtr[c] = h THEN ZeroHandle ELSE nativePtr[c]]
    BY <1>12 DEF Destroy
  <2> QED  BY <1>12, <2>1, HandleParts, CountUnchanged DEF Destroy, slotVars, userVars
<1>13. ASSUME NEW o \in Owners, CheckGeneration(o) PROVE CountInv'
  BY <1>13, CountUnchanged DEF CheckGeneration, slotVars, heapVars, userVars
<1>14. ASSUME NEW o \in Owners, MarkDead(o) PROVE CountInv'
  BY <1>14, CountUnchanged, HandleParts DEF MarkDead, heapVars, userVars
<1>15. ASSUME NEW o \in Owners, Drain(o) PROVE CountInv'
  BY <1>15, CountUnchanged DEF Drain, slotVars, heapVars, userVars
<1>15a. ASSUME NEW o \in Owners, GiveUpDrain(o) PROVE CountInv'
  <2>1. Holders(oh[o].idx) \subseteq Users
    BY DEF Holders
  <2> QED  BY <1>15a, <2>1, CountUnchanged DEF GiveUpDrain, slotVars, heapVars
<1>16. ASSUME NEW o \in Owners, TakeContext(o) PROVE CountInv'
  BY <1>16, <1>b, CountUnchanged DEF TakeContext, heapVars, userVars
<1>17. ASSUME NEW o \in Owners, Delete(o) PROVE CountInv'
  BY <1>17, CountUnchanged DEF Delete, slotVars, userVars
<1>18. CASE UNCHANGED vars
  BY <1>18, CountUnchanged DEF vars, slotVars, heapVars, userVars, ownerVars
<1> QED
  BY <1>0, <1>1, <1>2, <1>3, <1>4, <1>5, <1>7, <1>8, <1>9, <1>10, <1>11, <1>12, <1>13, <1>14,
     <1>15, <1>15a, <1>16, <1>17, <1>18
  DEF Next, UserNext, RegisterNext, InvalidateNext

(* Every variable keeps its type, whatever the number of lifecycle threads *)
(* and however long calls last: in particular activeRefs never goes        *)
(* negative.                                                               *)
THEOREM TypeCorrect == Spec => []TypeOK
<1>1. CountInv => TypeOK
  BY DEF CountInv
<1> QED  BY InitCount, NextCount, <1>1, PTL DEF Spec

(* activeRefs always counts exactly the callers between fetch_add and      *)
(* fetch_sub (acquire() and ~ScopedRef()).                                 *)
THEOREM ExactRefs == Spec => []RefsAreExact
<1>1. CountInv => RefsAreExact
  BY DEF CountInv
<1> QED  BY InitCount, NextCount, <1>1, PTL DEF Spec

-----------------------------------------------------------------------------
(* The table.  With one lifecycle thread a slot is always in step with its *)
(* context, except while that thread is about to make it so; whatever the  *)
(* callers do, and however long the drain takes.                           *)

Registering == {"probe", "probeContext", "claim", "publish", "return"}
Destroying  == {"check", "invalidate", "drain", "exchange"}

\* Handles in circulation have live (odd) generations that have come and perhaps gone.
HandlesOdd ==
  /\ \A h \in issued : Alive(h.gen) /\ h.gen <= generation[h.idx]
  /\ \A c \in Ctx : nativePtr[c] # ZeroHandle => nativePtr[c] \in issued
  /\ \A o \in Owners : opc[o] \in Destroying => oh[o] \in issued
  /\ \A o \in Owners : opc[o] = "return" => Alive(oh[o].gen)

\* Each registered context is a live object, in one slot, and every live object is in a
\* slot unless an owner has still to put it there or to delete it.
ContextsLive ==
  /\ \A s \in Slots : context[s] # NoCtx => object[context[s]] = "live"
  /\ \A s, t \in Slots : context[s] = context[t] /\ context[s] # NoCtx => s = t
  /\ \A c \in Ctx : object[c] = "live" =>
       \/ \E s \in Slots : context[s] = c
       \/ \E o \in Owners : octx[o] = c /\ opc[o] \in {"probe", "probeContext", "claim", "delete"}

\* A slot that is alive has a context, and one with a context is alive, unless an owner
\* is about to publish it or to take the context away.
SlotsMatch ==
  \A s \in Slots :
    /\ Alive(generation[s]) => context[s] # NoCtx
    /\ context[s] # NoCtx /\ ~Alive(generation[s]) =>
         \E o \in Owners : opc[o] \in {"publish", "drain", "exchange"} /\ oh[o].idx = s

\* What the owner knows of the slot and the object it is working on.
OwnerKnows ==
  \A o \in Owners :
    /\ opc[o] \in Registering \cup {"delete"} => octx[o] \in Ctx
    /\ opc[o] \in {"probe", "probeContext", "claim"} => object[octx[o]] = "live"
    /\ opc[o] \in {"probe", "probeContext", "claim", "delete"} =>
         \A s \in Slots : context[s] # octx[o]
    /\ opc[o] \in {"probeContext", "claim", "publish"} =>
         generation[oh[o].idx] = ogen[o] /\ ~Alive(ogen[o])
    /\ opc[o] = "claim" => context[oh[o].idx] = NoCtx
    /\ opc[o] \in {"publish", "return"} => context[oh[o].idx] = octx[o]
    /\ opc[o] \in {"invalidate", "return"} => generation[oh[o].idx] = oh[o].gen
    /\ opc[o] \in {"drain", "exchange"} => generation[oh[o].idx] = oh[o].gen + 1

\* A wrapper's handle names its object, and none is left with a handle being destroyed.
WrappersKnow ==
  /\ HandleNamesItsObject
  /\ \A o \in Owners : opc[o] \in {"check", "invalidate"} => \A c \in Ctx : nativePtr[c] # oh[o]

TableInv == HandlesOdd /\ ContextsLive /\ SlotsMatch /\ OwnerKnows /\ WrappersKnow

LEMMA InitTable == Init => TableInv
  BY NoCtxAssumption, SlotFacts
     DEF Init, TableInv, HandlesOdd, ContextsLive, SlotsMatch, OwnerKnows,
     WrappersKnow, HandleNamesItsObject, Registering, Destroying, Alive

\* The table is the lifecycle threads' alone.
LEMMA TableUnchanged ==
  ASSUME TableInv, UNCHANGED <<generation, context, heapVars, ownerVars>> PROVE TableInv'
  BY DEF TableInv, HandlesOdd, ContextsLive, SlotsMatch, OwnerKnows, WrappersKnow,
         HandleNamesItsObject,
     heapVars, ownerVars

LEMMA CreateTable ==
  ASSUME TypeOK, TableInv, NEW o \in Owners, \A q \in Owners : q = o, Create(o) PROVE TableInv'
<1>1. HandlesOdd /\ ContextsLive /\ SlotsMatch /\ OwnerKnows /\ WrappersKnow
  BY DEF TableInv
<1>2. /\ oh[o] \in Handle /\ oh[o].idx \in Slots /\ oh[o].gen \in Nat /\ ogen[o] \in Nat
      /\ \A s \in Slots : generation[s] \in Nat
      /\ \A h \in issued : h \in Handle /\ h.idx \in Slots /\ h.gen \in Nat
      /\ \A c \in Ctx : nativePtr[c] \in Handle /\ nativePtr[c].idx \in Slots
      /\ \A n \in Nat : Alive(n + 1) <=> ~Alive(n)
  BY HandleParts, Parity DEF TypeOK
<1>3. HandlesOdd'
  BY <1>1, <1>2, NoCtxAssumption DEF TypeOK, HandlesOdd, Destroying, Create, slotVars, userVars
<1>4. ContextsLive'
  BY <1>1, <1>2, NoCtxAssumption
     DEF TypeOK, ContextsLive, OwnerKnows, Registering, Create, slotVars, userVars
<1>5. SlotsMatch'
  BY <1>1, <1>2, NoCtxAssumption
     DEF TypeOK, SlotsMatch, OwnerKnows, HandlesOdd, Destroying, Create, slotVars, userVars
<1>6. OwnerKnows'
  BY <1>1, <1>2, NoCtxAssumption
     DEF TypeOK, OwnerKnows, ContextsLive, HandlesOdd, SlotsMatch, Registering, Destroying,
         Create, slotVars, userVars
<1>7. WrappersKnow'
  BY <1>1, <1>2, NoCtxAssumption
     DEF TypeOK, WrappersKnow, HandleNamesItsObject, OwnerKnows, HandlesOdd, Registering,
         Destroying, Create, slotVars, userVars
<1> QED  BY <1>3, <1>4, <1>5, <1>6, <1>7 DEF TableInv

\* A registration goes on with another slot, or gives the object up.
LEMMA ProbeContexts ==
  ASSUME TypeOK, ContextsLive, OwnerKnows, NEW o \in Owners, \A q \in Owners : q = o,
         opc[o] \in {"probe", "probeContext"}, UNCHANGED <<context, octx>>,
         \/ object' = object /\ opc'[o] \in {"probe", "probeContext", "claim"}
         \/ object' = [object EXCEPT ![octx[o]] = "freed"]
  PROVE  ContextsLive'
<1>1. octx[o] \in Ctx /\ \A s \in Slots : context[s] # octx[o]
  BY DEF OwnerKnows, Registering
<1>2. object \in [Ctx -> {"none", "live", "freed"}]
  BY DEF TypeOK
<1>3. \A c \in Ctx : c # octx[o] => object'[c] = object[c]
  BY <1>1, <1>2
<1>4. ASSUME NEW s \in Slots, context'[s] # NoCtx PROVE object'[context'[s]] = "live"
  BY <1>1, <1>3, <1>4 DEF ContextsLive, TypeOK
<1>5. ASSUME NEW s \in Slots, NEW t \in Slots, context'[s] = context'[t], context'[s] # NoCtx
      PROVE  s = t
  BY <1>5 DEF ContextsLive
<1>6. ASSUME NEW c \in Ctx, object'[c] = "live"
      PROVE  \/ \E s \in Slots : context'[s] = c
             \/ \E q \in Owners : /\ octx'[q] = c
                                  /\ opc'[q] \in {"probe", "probeContext", "claim", "delete"}
  <2>1. CASE c = octx[o]
    BY <1>1, <1>2, <1>6, <2>1
  <2>2. CASE c # octx[o]
    BY <1>3, <1>6, <2>2 DEF ContextsLive
  <2> QED  BY <2>1, <2>2
<1> QED  BY <1>4, <1>5, <1>6 DEF ContextsLive

LEMMA ProbeGenerationTable ==
  ASSUME TypeOK, TableInv, NEW o \in Owners, \A q \in Owners : q = o, ProbeGeneration(o) PROVE TableInv'
<1>1. HandlesOdd /\ ContextsLive /\ SlotsMatch /\ OwnerKnows /\ WrappersKnow
  BY DEF TableInv
<1>2. /\ oh[o] \in Handle /\ oh[o].idx \in Slots /\ oh[o].gen \in Nat /\ ogen[o] \in Nat
      /\ \A s \in Slots : generation[s] \in Nat
      /\ \A h \in issued : h \in Handle /\ h.idx \in Slots /\ h.gen \in Nat
      /\ \A c \in Ctx : nativePtr[c] \in Handle /\ nativePtr[c].idx \in Slots
      /\ \A n \in Nat : Alive(n + 1) <=> ~Alive(n)
  BY HandleParts, Parity DEF TypeOK
<1>3. HandlesOdd'
  BY <1>1, <1>2, NoCtxAssumption
     DEF TypeOK, HandlesOdd, Destroying, ProbeGeneration, slotVars, userVars, NextProbe
<1>4. ContextsLive'
  <2>1. /\ opc[o] \in {"probe", "probeContext"} /\ UNCHANGED <<context, octx>>
        /\ \/ object' = object /\ opc'[o] \in {"probe", "probeContext", "claim"}
           \/ object' = [object EXCEPT ![octx[o]] = "freed"]
    BY DEF TypeOK, ProbeGeneration, NextProbe, slotVars
  <2> QED  BY <1>1, <2>1, ProbeContexts
<1>5. SlotsMatch'
  BY <1>1, <1>2, NoCtxAssumption
     DEF TypeOK, SlotsMatch, OwnerKnows, HandlesOdd, Destroying, ProbeGeneration, slotVars,
         userVars, NextProbe
<1>6. OwnerKnows'
  BY <1>1, <1>2, NoCtxAssumption
     DEF TypeOK, OwnerKnows, ContextsLive, HandlesOdd, SlotsMatch, Registering, Destroying,
         ProbeGeneration, slotVars, userVars, NextProbe
<1>7. WrappersKnow'
  BY <1>1, <1>2, NoCtxAssumption
     DEF TypeOK, WrappersKnow, HandleNamesItsObject, OwnerKnows, HandlesOdd, Registering,
         Destroying, ProbeGeneration, slotVars, userVars, NextProbe
<1> QED  BY <1>3, <1>4, <1>5, <1>6, <1>7 DEF TableInv

LEMMA ProbeContextTable ==
  ASSUME TypeOK, TableInv, NEW o \in Owners, \A q \in Owners : q = o, ProbeContext(o) PROVE TableInv'
<1>1. HandlesOdd /\ ContextsLive /\ SlotsMatch /\ OwnerKnows /\ WrappersKnow
  BY DEF TableInv
<1>2. /\ oh[o] \in Handle /\ oh[o].idx \in Slots /\ oh[o].gen \in Nat /\ ogen[o] \in Nat
      /\ \A s \in Slots : generation[s] \in Nat
      /\ \A h \in issued : h \in Handle /\ h.idx \in Slots /\ h.gen \in Nat
      /\ \A c \in Ctx : nativePtr[c] \in Handle /\ nativePtr[c].idx \in Slots
      /\ \A n \in Nat : Alive(n + 1) <=> ~Alive(n)
  BY HandleParts, Parity DEF TypeOK
<1>3. HandlesOdd'
  BY <1>1, <1>2, NoCtxAssumption
     DEF TypeOK, HandlesOdd, Destroying, ProbeContext, slotVars, userVars, NextProbe
<1>4. ContextsLive'
  <2>1. /\ opc[o] \in {"probe", "probeContext"} /\ UNCHANGED <<context, octx>>
        /\ \/ object' = object /\ opc'[o] \in {"probe", "probeContext", "claim"}
           \/ object' = [object EXCEPT ![octx[o]] = "freed"]
    BY DEF TypeOK, ProbeContext, NextProbe, slotVars
  <2> QED  BY <1>1, <2>1, ProbeContexts
<1>5. SlotsMatch'
  BY <1>1, <1>2, NoCtxAssumption
     DEF TypeOK, SlotsMatch, OwnerKnows, HandlesOdd, Destroying, ProbeContext, slotVars, userVars,
         NextProbe
<1>6. OwnerKnows'
  BY <1>1, <1>2, NoCtxAssumption
     DEF TypeOK, OwnerKnows, ContextsLive, HandlesOdd, SlotsMatch, Registering, Destroying,
         ProbeContext, slotVars, userVars, NextProbe
<1>7. WrappersKnow'
  BY <1>1, <1>2, NoCtxAssumption
     DEF TypeOK, WrappersKnow, HandleNamesItsObject, OwnerKnows, HandlesOdd, Registering,
         Destroying, ProbeContext, slotVars, userVars, NextProbe
<1> QED  BY <1>3, <1>4, <1>5, <1>6, <1>7 DEF TableInv

LEMMA ClaimSlotTable ==
  ASSUME TypeOK, TableInv, NEW o \in Owners, \A q \in Owners : q = o, ClaimSlot(o) PROVE TableInv'
<1>1. HandlesOdd /\ ContextsLive /\ SlotsMatch /\ OwnerKnows /\ WrappersKnow
  BY DEF TableInv
<1>2. /\ oh[o] \in Handle /\ oh[o].idx \in Slots /\ oh[o].gen \in Nat /\ ogen[o] \in Nat
      /\ \A s \in Slots : generation[s] \in Nat
      /\ \A h \in issued : h \in Handle /\ h.idx \in Slots /\ h.gen \in Nat
      /\ \A c \in Ctx : nativePtr[c] \in Handle /\ nativePtr[c].idx \in Slots
      /\ \A n \in Nat : Alive(n + 1) <=> ~Alive(n)
  BY HandleParts, Parity DEF TypeOK
<1>3. HandlesOdd'
  BY <1>1, <1>2, NoCtxAssumption DEF TypeOK, HandlesOdd, Destroying, ClaimSlot, heapVars, userVars
<1>4. ContextsLive'
  BY <1>1, <1>2, NoCtxAssumption
     DEF TypeOK, ContextsLive, OwnerKnows, Registering, ClaimSlot, heapVars, userVars
<1>5. SlotsMatch'
  BY <1>1, <1>2, NoCtxAssumption
     DEF TypeOK, SlotsMatch, OwnerKnows, HandlesOdd, Destroying, ClaimSlot, heapVars, userVars
<1>6. OwnerKnows'
  BY <1>1, <1>2, NoCtxAssumption
     DEF TypeOK, OwnerKnows, ContextsLive, HandlesOdd, SlotsMatch, Registering, Destroying,
         ClaimSlot, heapVars, userVars
<1>7. WrappersKnow'
  BY <1>1, <1>2, NoCtxAssumption
     DEF TypeOK, WrappersKnow, HandleNamesItsObject, OwnerKnows, HandlesOdd, Registering,
         Destroying, ClaimSlot, heapVars, userVars
<1> QED  BY <1>3, <1>4, <1>5, <1>6, <1>7 DEF TableInv

LEMMA PublishGenerationTable ==
  ASSUME TypeOK, TableInv, NEW o \in Owners, \A q \in Owners : q = o, PublishGeneration(o) PROVE TableInv'
<1>1. HandlesOdd /\ ContextsLive /\ SlotsMatch /\ OwnerKnows /\ WrappersKnow
  BY DEF TableInv
<1>2. /\ oh[o] \in Handle /\ oh[o].idx \in Slots /\ oh[o].gen \in Nat /\ ogen[o] \in Nat
      /\ \A s \in Slots : generation[s] \in Nat
      /\ \A h \in issued : h \in Handle /\ h.idx \in Slots /\ h.gen \in Nat
      /\ \A c \in Ctx : nativePtr[c] \in Handle /\ nativePtr[c].idx \in Slots
      /\ \A n \in Nat : Alive(n + 1) <=> ~Alive(n)
  BY HandleParts, Parity DEF TypeOK
<1>3. /\ generation' = [generation EXCEPT ![oh[o].idx] = ogen[o] + 1] /\ opc[o] = "publish"
      /\ oh' = [oh EXCEPT ![o] = [oh[o] EXCEPT !.gen = ogen[o] + 1]]
      /\ opc' = [opc EXCEPT ![o] = "return"] /\ UNCHANGED <<context, heapVars, octx, ogen>>
  BY DEF PublishGeneration
<1>4. /\ generation[oh[o].idx] = ogen[o] /\ Alive(ogen[o] + 1) /\ context[oh[o].idx] = octx[o]
      /\ octx[o] # NoCtx /\ opc'[o] = "return"
      /\ oh'[o].idx = oh[o].idx /\ oh'[o].gen = ogen[o] + 1
      /\ \A s \in Slots : generation'[s] = IF s = oh[o].idx THEN ogen[o] + 1 ELSE generation[s]
  BY <1>1, <1>2, <1>3, NoCtxAssumption DEF TypeOK, OwnerKnows, Registering, Handle
<1>5. HandlesOdd'
  BY <1>1, <1>2, <1>3, <1>4 DEF HandlesOdd, Destroying, TypeOK, heapVars
<1>6. ContextsLive'
  BY <1>1, <1>2, NoCtxAssumption
     DEF TypeOK, ContextsLive, OwnerKnows, Registering, PublishGeneration, heapVars, userVars
<1>7. SlotsMatch'
  <2>1. ASSUME NEW s \in Slots, s # oh[o].idx, context[s] # NoCtx, ~Alive(generation[s])
        PROVE  FALSE
    BY <1>1, <1>3, <2>1 DEF SlotsMatch
  <2> QED  BY <1>1, <1>3, <1>4, <2>1 DEF SlotsMatch
<1>8. OwnerKnows'
  BY <1>1, <1>2, NoCtxAssumption
     DEF TypeOK, OwnerKnows, ContextsLive, HandlesOdd, SlotsMatch, Registering, Destroying,
         PublishGeneration, heapVars, userVars
<1>9. WrappersKnow'
  BY <1>1, <1>2, NoCtxAssumption
     DEF TypeOK, WrappersKnow, HandleNamesItsObject, OwnerKnows, HandlesOdd, Registering,
         Destroying, PublishGeneration, heapVars, userVars
<1> QED  BY <1>5, <1>6, <1>7, <1>8, <1>9 DEF TableInv

LEMMA ReturnHandleTable ==
  ASSUME TypeOK, TableInv, NEW o \in Owners, \A q \in Owners : q = o, ReturnHandle(o) PROVE TableInv'
<1>1. HandlesOdd /\ ContextsLive /\ SlotsMatch /\ OwnerKnows /\ WrappersKnow
  BY DEF TableInv
<1>2. /\ oh[o] \in Handle /\ oh[o].idx \in Slots /\ oh[o].gen \in Nat /\ ogen[o] \in Nat
      /\ \A s \in Slots : generation[s] \in Nat
      /\ \A h \in issued : h \in Handle /\ h.idx \in Slots /\ h.gen \in Nat
      /\ \A c \in Ctx : nativePtr[c] \in Handle /\ nativePtr[c].idx \in Slots
      /\ \A n \in Nat : Alive(n + 1) <=> ~Alive(n)
  BY HandleParts, Parity DEF TypeOK
<1>3. HandlesOdd'
  <2>1. /\ issued' = issued \cup {oh[o]} /\ nativePtr' = [nativePtr EXCEPT ![octx[o]] = oh[o]]
        /\ opc' = [opc EXCEPT ![o] = "idle"] /\ UNCHANGED <<generation, oh>> /\ opc[o] = "return"
    BY DEF ReturnHandle
  <2>2. Alive(oh[o].gen) /\ oh[o].gen <= generation[oh[o].idx]
    BY <1>1, <1>2, <2>1 DEF HandlesOdd, OwnerKnows
  <2>3. \A c \in Ctx : nativePtr'[c] \in {nativePtr[c], oh[o]}
    BY <2>1 DEF TypeOK
  <2> QED  BY <1>1, <2>1, <2>2, <2>3 DEF HandlesOdd, Destroying, TypeOK
<1>4. ContextsLive'
  BY <1>1, <1>2, NoCtxAssumption
     DEF TypeOK, ContextsLive, OwnerKnows, Registering, ReturnHandle, userVars
<1>5. SlotsMatch'
  BY <1>1, <1>2, NoCtxAssumption
     DEF TypeOK, SlotsMatch, OwnerKnows, HandlesOdd, Destroying, ReturnHandle, userVars
<1>6. OwnerKnows'
  BY <1>1, <1>2, NoCtxAssumption
     DEF TypeOK, OwnerKnows, ContextsLive, HandlesOdd, SlotsMatch, Registering, Destroying,
         ReturnHandle, userVars
<1>7. WrappersKnow'
  BY <1>1, <1>2, NoCtxAssumption
     DEF TypeOK, WrappersKnow, HandleNamesItsObject, OwnerKnows, HandlesOdd, Registering,
         Destroying, ReturnHandle, userVars
<1> QED  BY <1>3, <1>4, <1>5, <1>6, <1>7 DEF TableInv

LEMMA DestroyTable ==
  ASSUME TypeOK, TableInv, NEW o \in Owners, \A q \in Owners : q = o, Destroy(o) PROVE TableInv'
<1>1. HandlesOdd /\ ContextsLive /\ SlotsMatch /\ OwnerKnows /\ WrappersKnow
  BY DEF TableInv
<1>2. /\ oh[o] \in Handle /\ oh[o].idx \in Slots /\ oh[o].gen \in Nat /\ ogen[o] \in Nat
      /\ \A s \in Slots : generation[s] \in Nat
      /\ \A h \in issued : h \in Handle /\ h.idx \in Slots /\ h.gen \in Nat
      /\ \A c \in Ctx : nativePtr[c] \in Handle /\ nativePtr[c].idx \in Slots
      /\ \A n \in Nat : Alive(n + 1) <=> ~Alive(n)
  BY HandleParts, Parity DEF TypeOK
<1>3. HandlesOdd'
  BY <1>1, <1>2, NoCtxAssumption DEF TypeOK, HandlesOdd, Destroying, Destroy, slotVars, userVars
<1>4. ContextsLive'
  BY <1>1, <1>2, NoCtxAssumption
     DEF TypeOK, ContextsLive, OwnerKnows, Registering, Destroy, slotVars, userVars
<1>5. SlotsMatch'
  BY <1>1, <1>2, NoCtxAssumption
     DEF TypeOK, SlotsMatch, OwnerKnows, HandlesOdd, Destroying, Destroy, slotVars, userVars
<1>6. OwnerKnows'
  BY <1>1, <1>2, NoCtxAssumption
     DEF TypeOK, OwnerKnows, ContextsLive, HandlesOdd, SlotsMatch, Registering, Destroying,
         Destroy, slotVars, userVars
<1>7. WrappersKnow'
  <2>1. PICK h \in issued :
          /\ oh' = [oh EXCEPT ![o] = h] /\ opc' = [opc EXCEPT ![o] = "check"]
          /\ nativePtr' = [c \in Ctx |-> IF nativePtr[c] = h THEN ZeroHandle ELSE nativePtr[c]]
          /\ UNCHANGED <<generation, context>>
    BY DEF Destroy, slotVars
  <2>2. h # ZeroHandle
    BY <1>1 DEF HandlesOdd, Alive, ZeroHandle
  <2>3. \A c \in Ctx : nativePtr'[c] # h /\ (nativePtr'[c] = nativePtr[c] \/ nativePtr'[c] = ZeroHandle)
    BY <2>1, <2>2
  <2> QED  BY <1>1, <2>1, <2>3 DEF WrappersKnow, HandleNamesItsObject, TypeOK
<1> QED  BY <1>3, <1>4, <1>5, <1>6, <1>7 DEF TableInv

LEMMA CheckGenerationTable ==
  ASSUME TypeOK, TableInv, NEW o \in Owners, \A q \in Owners : q = o, CheckGeneration(o) PROVE TableInv'
<1>1. HandlesOdd /\ ContextsLive /\ SlotsMatch /\ OwnerKnows /\ WrappersKnow
  BY DEF TableInv
<1>2. /\ oh[o] \in Handle /\ oh[o].idx \in Slots /\ oh[o].gen \in Nat /\ ogen[o] \in Nat
      /\ \A s \in Slots : generation[s] \in Nat
      /\ \A h \in issued : h \in Handle /\ h.idx \in Slots /\ h.gen \in Nat
      /\ \A c \in Ctx : nativePtr[c] \in Handle /\ nativePtr[c].idx \in Slots
      /\ \A n \in Nat : Alive(n + 1) <=> ~Alive(n)
  BY HandleParts, Parity DEF TypeOK
<1>3. HandlesOdd'
  BY <1>1, <1>2, NoCtxAssumption
     DEF TypeOK, HandlesOdd, Destroying, CheckGeneration, slotVars, heapVars, userVars
<1>4. ContextsLive'
  BY <1>1, <1>2, NoCtxAssumption
     DEF TypeOK, ContextsLive, OwnerKnows, Registering, CheckGeneration, slotVars, heapVars,
         userVars
<1>5. SlotsMatch'
  BY <1>1, <1>2, NoCtxAssumption
     DEF TypeOK, SlotsMatch, OwnerKnows, HandlesOdd, Destroying, CheckGeneration, slotVars,
         heapVars, userVars
<1>6. OwnerKnows'
  BY <1>1, <1>2, NoCtxAssumption
     DEF TypeOK, OwnerKnows, ContextsLive, HandlesOdd, SlotsMatch, Registering, Destroying,
         CheckGeneration, slotVars, heapVars, userVars
<1>7. WrappersKnow'
  BY <1>1, <1>2, NoCtxAssumption
     DEF TypeOK, WrappersKnow, HandleNamesItsObject, OwnerKnows, HandlesOdd, Registering,
         Destroying, CheckGeneration, slotVars, heapVars, userVars
<1> QED  BY <1>3, <1>4, <1>5, <1>6, <1>7 DEF TableInv

LEMMA MarkDeadTable ==
  ASSUME TypeOK, TableInv, NEW o \in Owners, \A q \in Owners : q = o, MarkDead(o) PROVE TableInv'
<1>1. HandlesOdd /\ ContextsLive /\ SlotsMatch /\ OwnerKnows /\ WrappersKnow
  BY DEF TableInv
<1>2. /\ oh[o] \in Handle /\ oh[o].idx \in Slots /\ oh[o].gen \in Nat /\ ogen[o] \in Nat
      /\ \A s \in Slots : generation[s] \in Nat
      /\ \A h \in issued : h \in Handle /\ h.idx \in Slots /\ h.gen \in Nat
      /\ \A c \in Ctx : nativePtr[c] \in Handle /\ nativePtr[c].idx \in Slots
      /\ \A n \in Nat : Alive(n + 1) <=> ~Alive(n)
  BY HandleParts, Parity DEF TypeOK
<1>3. HandlesOdd'
  BY <1>1, <1>2, NoCtxAssumption DEF TypeOK, HandlesOdd, Destroying, MarkDead, heapVars, userVars
<1>4. ContextsLive'
  BY <1>1, <1>2, NoCtxAssumption
     DEF TypeOK, ContextsLive, OwnerKnows, Registering, MarkDead, heapVars, userVars
<1>5. SlotsMatch'
  BY <1>1, <1>2, NoCtxAssumption
     DEF TypeOK, SlotsMatch, OwnerKnows, HandlesOdd, Destroying, MarkDead, heapVars, userVars
<1>6. OwnerKnows'
  BY <1>1, <1>2, NoCtxAssumption
     DEF TypeOK, OwnerKnows, ContextsLive, HandlesOdd, SlotsMatch, Registering, Destroying,
         MarkDead, heapVars, userVars
<1>7. WrappersKnow'
  <2>1. /\ generation' = [generation EXCEPT ![oh[o].idx] = @ + 1] /\ opc[o] = "invalidate"
        /\ opc' = [opc EXCEPT ![o] = "drain"] /\ UNCHANGED <<context, nativePtr>>
    BY DEF MarkDead, heapVars
  <2>2. generation[oh[o].idx] = oh[o].gen
    BY <1>1, <2>1 DEF OwnerKnows
  <2>3. ASSUME NEW c \in Ctx, nativePtr[c] # ZeroHandle
        PROVE  nativePtr[c].idx # oh[o].idx
    <3>1. nativePtr[c] # oh[o] /\ generation[nativePtr[c].idx] = nativePtr[c].gen
      BY <1>1, <2>1, <2>3 DEF WrappersKnow, HandleNamesItsObject
    <3> QED  BY <1>2, <2>2, <3>1 DEF Handle
  <2>4. HandleNamesItsObject'
    BY <1>1, <1>2, <2>1, <2>3 DEF WrappersKnow, HandleNamesItsObject, TypeOK
  <2> QED  BY <2>1, <2>4 DEF WrappersKnow, TypeOK
<1> QED  BY <1>3, <1>4, <1>5, <1>6, <1>7 DEF TableInv

\* What the end of the drain does to the table, whether it saw no reference or gave up.
LeavesDrain(o) ==
  /\ opc[o] = "drain" /\ opc' = [opc EXCEPT ![o] = "exchange"]
  /\ UNCHANGED <<slotVars, heapVars, oh, octx, oi, ogen>>

LEMMA DrainEnds == ASSUME NEW o \in Owners, Drain(o) \/ GiveUpDrain(o) PROVE LeavesDrain(o)
  BY DEF Drain, GiveUpDrain, LeavesDrain

LEMMA DrainTable ==
  ASSUME TypeOK, TableInv, NEW o \in Owners, \A q \in Owners : q = o, LeavesDrain(o) PROVE TableInv'
<1>1. HandlesOdd /\ ContextsLive /\ SlotsMatch /\ OwnerKnows /\ WrappersKnow
  BY DEF TableInv
<1>2. /\ oh[o] \in Handle /\ oh[o].idx \in Slots /\ oh[o].gen \in Nat /\ ogen[o] \in Nat
      /\ \A s \in Slots : generation[s] \in Nat
      /\ \A h \in issued : h \in Handle /\ h.idx \in Slots /\ h.gen \in Nat
      /\ \A c \in Ctx : nativePtr[c] \in Handle /\ nativePtr[c].idx \in Slots
      /\ \A n \in Nat : Alive(n + 1) <=> ~Alive(n)
  BY HandleParts, Parity DEF TypeOK
<1>3. HandlesOdd'
  BY <1>1, <1>2, NoCtxAssumption
     DEF TypeOK, HandlesOdd, Destroying, LeavesDrain, slotVars, heapVars
<1>4. ContextsLive'
  BY <1>1, <1>2, NoCtxAssumption
     DEF TypeOK, ContextsLive, OwnerKnows, Registering, LeavesDrain, slotVars, heapVars
<1>5. SlotsMatch'
  BY <1>1, <1>2, NoCtxAssumption
     DEF TypeOK, SlotsMatch, OwnerKnows, HandlesOdd, Destroying, LeavesDrain, slotVars, heapVars
<1>6. OwnerKnows'
  BY <1>1, <1>2, NoCtxAssumption
     DEF TypeOK, OwnerKnows, ContextsLive, HandlesOdd, SlotsMatch, Registering, Destroying, LeavesDrain,
         slotVars, heapVars
<1>7. WrappersKnow'
  BY <1>1, <1>2, NoCtxAssumption
     DEF TypeOK, WrappersKnow, HandleNamesItsObject, OwnerKnows, HandlesOdd, Registering,
         Destroying, LeavesDrain, slotVars, heapVars
<1> QED  BY <1>3, <1>4, <1>5, <1>6, <1>7 DEF TableInv

LEMMA TakeContextTable ==
  ASSUME TypeOK, TableInv, NEW o \in Owners, \A q \in Owners : q = o, TakeContext(o) PROVE TableInv'
<1>1. HandlesOdd /\ ContextsLive /\ SlotsMatch /\ OwnerKnows /\ WrappersKnow
  BY DEF TableInv
<1>2. /\ oh[o] \in Handle /\ oh[o].idx \in Slots /\ oh[o].gen \in Nat /\ ogen[o] \in Nat
      /\ \A s \in Slots : generation[s] \in Nat
      /\ \A h \in issued : h \in Handle /\ h.idx \in Slots /\ h.gen \in Nat
      /\ \A c \in Ctx : nativePtr[c] \in Handle /\ nativePtr[c].idx \in Slots
      /\ \A n \in Nat : Alive(n + 1) <=> ~Alive(n)
  BY HandleParts, Parity DEF TypeOK
<1>3. HandlesOdd'
  BY <1>1, <1>2, NoCtxAssumption
     DEF TypeOK, HandlesOdd, Destroying, TakeContext, heapVars, userVars
<1>4. ContextsLive'
  BY <1>1, <1>2, NoCtxAssumption
     DEF TypeOK, ContextsLive, OwnerKnows, Registering, TakeContext, heapVars, userVars
<1>5. SlotsMatch'
  BY <1>1, <1>2, NoCtxAssumption
     DEF TypeOK, SlotsMatch, OwnerKnows, HandlesOdd, Destroying, TakeContext, heapVars, userVars
<1>6. OwnerKnows'
  BY <1>1, <1>2, NoCtxAssumption
     DEF TypeOK, OwnerKnows, ContextsLive, HandlesOdd, SlotsMatch, Registering, Destroying,
         TakeContext, heapVars, userVars
<1>7. WrappersKnow'
  BY <1>1, <1>2, NoCtxAssumption
     DEF TypeOK, WrappersKnow, HandleNamesItsObject, OwnerKnows, HandlesOdd, Registering,
         Destroying, TakeContext, heapVars, userVars
<1> QED  BY <1>3, <1>4, <1>5, <1>6, <1>7 DEF TableInv

LEMMA DeleteTable ==
  ASSUME TypeOK, TableInv, NEW o \in Owners, \A q \in Owners : q = o, Delete(o) PROVE TableInv'
<1>1. HandlesOdd /\ ContextsLive /\ SlotsMatch /\ OwnerKnows /\ WrappersKnow
  BY DEF TableInv
<1>2. /\ oh[o] \in Handle /\ oh[o].idx \in Slots /\ oh[o].gen \in Nat /\ ogen[o] \in Nat
      /\ \A s \in Slots : generation[s] \in Nat
      /\ \A h \in issued : h \in Handle /\ h.idx \in Slots /\ h.gen \in Nat
      /\ \A c \in Ctx : nativePtr[c] \in Handle /\ nativePtr[c].idx \in Slots
      /\ \A n \in Nat : Alive(n + 1) <=> ~Alive(n)
  BY HandleParts, Parity DEF TypeOK
<1>3. HandlesOdd'
  BY <1>1, <1>2, NoCtxAssumption DEF TypeOK, HandlesOdd, Destroying, Delete, slotVars, userVars
<1>4. ContextsLive'
  BY <1>1, <1>2, NoCtxAssumption
     DEF TypeOK, ContextsLive, OwnerKnows, Registering, Delete, slotVars, userVars
<1>5. SlotsMatch'
  BY <1>1, <1>2, NoCtxAssumption
     DEF TypeOK, SlotsMatch, OwnerKnows, HandlesOdd, Destroying, Delete, slotVars, userVars
<1>6. OwnerKnows'
  BY <1>1, <1>2, NoCtxAssumption
     DEF TypeOK, OwnerKnows, ContextsLive, HandlesOdd, SlotsMatch, Registering, Destroying,
         Delete, slotVars, userVars
<1>7. WrappersKnow'
  BY <1>1, <1>2, NoCtxAssumption
     DEF TypeOK, WrappersKnow, HandleNamesItsObject, OwnerKnows, HandlesOdd, Registering,
         Destroying, Delete, slotVars, userVars
<1> QED  BY <1>3, <1>4, <1>5, <1>6, <1>7 DEF TableInv

LEMMA NextTable == ASSUME SingleOwner, TypeOK, TableInv, [Next]_vars PROVE TableInv'
<1>1. ASSUME NEW u \in Users, UserNext(u) PROVE TableInv'
  BY <1>1, TableUnchanged
     DEF UserNext, EnterAcquire, CountRef, LoadGeneration, LoadContext, DropRef,
     slotVars, heapVars, ownerVars
<1>2. ASSUME NEW o \in Owners, RegisterNext(o) \/ InvalidateNext(o) PROVE TableInv'
  <2>1. \A q \in Owners : q = o
    BY SingleOwner DEF SingleOwner
  <2> QED
    BY <1>2, <2>1, CreateTable, ProbeGenerationTable, ProbeContextTable, ClaimSlotTable,
       PublishGenerationTable, ReturnHandleTable, DestroyTable, CheckGenerationTable, MarkDeadTable,
       DrainEnds, DrainTable, TakeContextTable, DeleteTable DEF RegisterNext, InvalidateNext
<1>3. CASE UNCHANGED vars
  BY <1>3, TableUnchanged DEF vars, slotVars
<1> QED  BY <1>1, <1>2, <1>3 DEF Next

LEMMA TableHolds == ASSUME SingleOwner PROVE Spec => []TableInv
<1>1. CountInv /\ TableInv /\ [Next]_vars => (CountInv /\ TableInv)'
  BY NextCount, NextTable DEF CountInv
<1> QED  BY InitCount, InitTable, <1>1, PTL DEF Spec

(* With one lifecycle thread, the handle a wrapper got from                *)
(* registerContext() names that wrapper's object until the wrapper is      *)
(* destroyed, however slots are reused.                                    *)
THEOREM HandlesAreRight == ASSUME SingleOwner PROVE Spec => []HandleNamesItsObject
<1>1. TableInv => HandleNamesItsObject
  BY DEF TableInv, WrappersKnow
<1> QED  BY <1>1, TableHolds, PTL

(* With one lifecycle thread, no object is leaked and no slot lost by any  *)
(* sequence of creations, refusals and destructions, repeated ones too.    *)
THEOREM TableInStep == ASSUME SingleOwner PROVE Spec => []TableMatchesHeap
<1>1. TableInv => TableMatchesHeap
  <2> SUFFICES ASSUME TableInv, \A o \in Owners : opc[o] = "idle"
      PROVE  /\ \A s \in Slots : Alive(generation[s]) <=> context[s] # NoCtx
             /\ \A c \in Ctx : Cardinality({s \in Slots : context[s] = c})
                                 = (IF object[c] = "live" THEN 1 ELSE 0)
    BY DEF TableMatchesHeap
  <2>1. \A s \in Slots : Alive(generation[s]) <=> context[s] # NoCtx
    BY DEF TableInv, SlotsMatch
  <2>2. ASSUME NEW c \in Ctx
        PROVE  Cardinality({s \in Slots : context[s] = c}) = (IF object[c] = "live" THEN 1 ELSE 0)
    <3>1. c # NoCtx
      BY NoCtxAssumption
    <3>2. CASE object[c] = "live"
      <4>1. PICK s \in Slots : context[s] = c
        BY <3>2 DEF TableInv, ContextsLive
      <4>2. {t \in Slots : context[t] = c} = {s}
        BY <3>1, <4>1 DEF TableInv, ContextsLive
      <4> QED  BY <3>2, <4>2, FS_Singleton
    <3>3. CASE object[c] # "live"
      <4>1. {s \in Slots : context[s] = c} = {}
        BY <3>1, <3>3 DEF TableInv, ContextsLive
      <4> QED  BY <3>3, <4>1, FS_EmptySet
    <3> QED  BY <3>2, <3>3
  <2> QED  BY <2>1, <2>2
<1> QED  BY <1>1, TableHolds, PTL

(* With one lifecycle thread, a handle that has been invalidated is never  *)
(* valid again: its generation lies behind its slot's for good.            *)
THEOREM StaleForGood == ASSUME SingleOwner PROVE Spec => StaleStaysStale
<1>1. CountInv /\ TableInv /\ TableInv' /\ [Next]_vars => [\A h \in issued : ~IsValid(h) => ~(IsValid(h))']_vars
  <2> SUFFICES ASSUME TypeOK, TableInv, Next, NEW h \in issued, ~IsValid(h) PROVE ~(IsValid(h))'
    BY DEF CountInv
  <2>1. /\ h.idx \in Slots /\ h.gen \in Nat /\ generation[h.idx] \in Nat
        /\ Alive(h.gen) /\ h.gen <= generation[h.idx]
    BY HandleParts DEF TypeOK, TableInv, HandlesOdd
  <2>2. h.gen < generation[h.idx]
    BY <2>1 DEF IsValid, TableInv, SlotsMatch
  <2>3. generation'[h.idx] \in {generation[h.idx], generation[h.idx] + 1}
    <3>1. ASSUME NEW o \in Owners, PublishGeneration(o) PROVE generation' = [generation EXCEPT ![oh[o].idx] = @ + 1]
      BY <3>1 DEF PublishGeneration, TableInv, OwnerKnows
    <3>2. \/ UNCHANGED generation
          \/ \E o \in Owners : generation' = [generation EXCEPT ![oh[o].idx] = @ + 1]
      BY <3>1
         DEF Next, UserNext, RegisterNext, InvalidateNext, EnterAcquire, CountRef, LoadGeneration,
         LoadContext, DropRef, Create, ProbeGeneration, ProbeContext, ClaimSlot, ReturnHandle, Destroy,
         CheckGeneration, MarkDead, Drain, GiveUpDrain, TakeContext, Delete, slotVars
    <3> QED  BY <2>1, <3>2 DEF TypeOK
  <2> QED  BY <2>1, <2>2, <2>3 DEF IsValid
<1>2. CountInv /\ TableInv /\ [Next]_vars => (CountInv /\ TableInv)'
  BY NextCount, NextTable DEF CountInv
<1> QED  BY InitCount, InitTable, <1>1, <1>2, PTL DEF Spec, StaleStaysStale

-----------------------------------------------------------------------------
(* No use after free.  With one lifecycle thread, a caller that has        *)
(* validated its generation and is counted pins the slot: the owner does   *)
(* not get past the drain before the caller is gone, unless it gives up    *)
(* and exposes it, so the context stays where it is.                       *)

Validated(u) ==
  u \notin exposed /\ upc[u] \in {"validating", "using"} /\ ugen[u] = uh[u].gen

\* A validated caller pins its slot.
CallersPin ==
  \A u \in Users :
    /\ upc[u] # "idle" => uh[u] \in issued \cup {ZeroHandle}
    /\ Validated(u) => \A o \in Owners : opc[o] = "exchange" => oh[o].idx # uh[u].idx
    /\ Validated(u) /\ uh[u] # ZeroHandle =>
         \/ generation[uh[u].idx] = uh[u].gen
         \/ \E o \in Owners : opc[o] = "drain" /\ oh[o] = uh[u]
    /\ upc[u] = "using" /\ u \notin exposed =>
         Validated(u) /\ uctx[u] # NoCtx /\ context[uh[u].idx] = uctx[u]

\* A caller that has loaded the generation has been counted before, or is exposed.
CountedFirst ==
  \A u \in Users \ exposed : upc[u] \in {"validating", "using", "refused"} => counted[u]

SafeInv == CountInv /\ CountedFirst /\ TableInv /\ CallersPin

LEMMA InitSafe == Init => SafeInv
  BY InitCount, InitTable DEF Init, SafeInv, CountedFirst, CallersPin, Validated

LEMMA NextCountedFirst ==
  ASSUME TypeOK, CountedFirst, [Next]_vars PROVE CountedFirst'
<1> USE DEF CountedFirst, TypeOK
<1>1. ASSUME NEW u \in Users, UserNext(u) PROVE CountedFirst'
  BY <1>1 DEF UserNext, EnterAcquire, CountRef, LoadGeneration, LoadContext, DropRef
<1>2. ASSUME NEW o \in Owners, RegisterNext(o) PROVE CountedFirst'
  BY <1>2 DEF RegisterNext, Create, ProbeGeneration, ProbeContext, ClaimSlot, PublishGeneration,
              ReturnHandle, userVars
<1>3. ASSUME NEW o \in Owners, InvalidateNext(o) PROVE CountedFirst'
  BY <1>3
     DEF InvalidateNext, Destroy, CheckGeneration, MarkDead, Drain, GiveUpDrain, TakeContext,
         Delete, userVars
<1>4. CASE UNCHANGED vars
  BY <1>4 DEF vars, userVars
<1> QED  BY <1>1, <1>2, <1>3, <1>4 DEF Next

LEMMA NextSafe ==
  ASSUME SingleOwner, SafeInv, [Next]_vars PROVE SafeInv'
<1>1. CountInv' /\ CountedFirst' /\ TableInv'
  BY NextCount, NextCountedFirst, NextTable DEF SafeInv, CountInv
<1>2. /\ TypeOK /\ RefsAreExact /\ CountedFirst /\ HandlesOdd /\ OwnerKnows /\ CallersPin
  BY DEF SafeInv, CountInv, TableInv
<1>3. /\ \A u \in Users : uh[u] \in Handle /\ uh[u].idx \in Slots /\ uh[u].gen \in Nat
      /\ \A o \in Owners : oh[o] \in Handle /\ oh[o].idx \in Slots /\ oh[o].gen \in Nat
  BY <1>2, HandleParts DEF TypeOK
<1>4. \A n \in Nat : Alive(n + 1) <=> ~Alive(n)
  BY Parity
<1>5. \A o, q \in Owners : q = o
  BY SingleOwner DEF SingleOwner
<1>6. ASSUME NEW u \in Users, EnterAcquire(u) PROVE CallersPin'
  BY <1>6, <1>2, <1>3, <1>4
     DEF CallersPin, Validated, HandlesOdd, OwnerKnows, Destroying, TypeOK, EnterAcquire,
         slotVars, heapVars, ownerVars
<1>7. ASSUME NEW u \in Users, CountRef(u) PROVE CallersPin'
  BY <1>7, <1>2, <1>3, <1>4
     DEF CallersPin, Validated, HandlesOdd, OwnerKnows, Destroying, TypeOK, CountRef, heapVars,
         ownerVars
<1>8. ASSUME NEW u \in Users, LoadGeneration(u) PROVE CallersPin'
  <2>1. /\ upc[u] = "entered" /\ ugen'[u] = generation[uh[u].idx] /\ upc'[u] = "validating"
        /\ \A v \in Users \ {u} : ugen'[v] = ugen[v] /\ upc'[v] = upc[v] /\ (v \in exposed' <=> v \in exposed)
        /\ UNCHANGED <<generation, context, issued, uh, uctx, opc, oh>>
    BY <1>2, <1>8 DEF TypeOK, LoadGeneration, slotVars, heapVars, ownerVars
  <2>2. ASSUME NEW o \in Owners, opc[o] = "exchange", oh[o].idx = uh[u].idx,
               generation[uh[u].idx] = uh[u].gen
        PROVE  FALSE
    <3>1. Alive(oh[o].gen) /\ generation[uh[u].idx] = oh[o].gen + 1
      BY <1>2, <2>2 DEF HandlesOdd, OwnerKnows, Destroying
    <3>2. ~Alive(uh[u].gen) /\ uh[u].gen # 0
      BY <1>3, <1>4, <2>2, <3>1
    <3>3. uh[u] \in issued \/ uh[u] = ZeroHandle
      BY <1>2, <2>1 DEF CallersPin
    <3> QED  BY <1>2, <3>2, <3>3 DEF HandlesOdd, ZeroHandle
  <2> QED  BY <1>2, <2>1, <2>2 DEF CallersPin, Validated
<1>9. ASSUME NEW u \in Users, LoadContext(u) PROVE CallersPin'
  BY <1>9, <1>2, <1>3, <1>4
     DEF CallersPin, Validated, HandlesOdd, OwnerKnows, Destroying, TypeOK, LoadContext, slotVars,
         heapVars, ownerVars
<1>10. ASSUME NEW u \in Users, DropRef(u) PROVE CallersPin'
  BY <1>10, <1>2, <1>3, <1>4
     DEF CallersPin, Validated, HandlesOdd, OwnerKnows, Destroying, TypeOK, DropRef, heapVars,
         ownerVars
<1>11. ASSUME NEW o \in Owners, Create(o) PROVE CallersPin'
  BY <1>11, <1>2, <1>3, <1>4, <1>5
     DEF CallersPin, Validated, HandlesOdd, OwnerKnows, Destroying, TypeOK, Create, slotVars,
         userVars
<1>12. ASSUME NEW o \in Owners, ProbeGeneration(o) PROVE CallersPin'
  BY <1>12, <1>2, <1>3, <1>4, <1>5
     DEF CallersPin, Validated, HandlesOdd, OwnerKnows, Destroying, TypeOK, ProbeGeneration,
         slotVars, userVars, NextProbe
<1>13. ASSUME NEW o \in Owners, ProbeContext(o) PROVE CallersPin'
  BY <1>13, <1>2, <1>3, <1>4, <1>5
     DEF CallersPin, Validated, HandlesOdd, OwnerKnows, Destroying, TypeOK, ProbeContext,
         slotVars, userVars, NextProbe
<1>14. ASSUME NEW o \in Owners, ClaimSlot(o) PROVE CallersPin'
  BY <1>14, <1>2, <1>3, <1>4, <1>5
     DEF CallersPin, Validated, HandlesOdd, OwnerKnows, Destroying, TypeOK, ClaimSlot, heapVars,
         userVars
<1>15. ASSUME NEW o \in Owners, PublishGeneration(o) PROVE CallersPin'
  BY <1>15, <1>2, <1>3, <1>4, <1>5
     DEF CallersPin, Validated, HandlesOdd, OwnerKnows, Destroying, TypeOK, PublishGeneration,
         heapVars, userVars
<1>16. ASSUME NEW o \in Owners, ReturnHandle(o) PROVE CallersPin'
  BY <1>16, <1>2, <1>3, <1>4, <1>5
     DEF CallersPin, Validated, HandlesOdd, OwnerKnows, Destroying, TypeOK, ReturnHandle, userVars
<1>17. ASSUME NEW o \in Owners, Destroy(o) PROVE CallersPin'
  BY <1>17, <1>2, <1>3, <1>4, <1>5
     DEF CallersPin, Validated, HandlesOdd, OwnerKnows, Destroying, TypeOK, Destroy, slotVars,
         userVars
<1>18. ASSUME NEW o \in Owners, CheckGeneration(o) PROVE CallersPin'
  BY <1>18, <1>2, <1>3, <1>4, <1>5
     DEF CallersPin, Validated, HandlesOdd, OwnerKnows, Destroying, TypeOK, CheckGeneration,
         slotVars, heapVars, userVars
<1>19. ASSUME NEW o \in Owners, MarkDead(o) PROVE CallersPin'
  <2>1. \A q \in Owners : q = o
    BY <1>5
  <2>2. /\ opc[o] = "invalidate" /\ opc' = [opc EXCEPT ![o] = "drain"]
        /\ generation' = [generation EXCEPT ![oh[o].idx] = @ + 1]
        /\ UNCHANGED <<issued, context, oh, upc, uh, ugen, uctx, exposed>>
    BY <1>19 DEF MarkDead, heapVars, userVars
  <2>3. generation[oh[o].idx] = oh[o].gen /\ opc'[o] = "drain"
    BY <1>2, <2>2 DEF OwnerKnows, TypeOK
  <2>a. \A u \in Users : Validated(u)' <=> Validated(u)
    BY <2>2 DEF Validated
  <2>b. \A q \in Owners : opc'[q] # "exchange"
    BY <2>1, <2>3
  <2>4. SUFFICES ASSUME NEW u \in Users, Validated(u), generation[uh[u].idx] = uh[u].gen
                 PROVE \/ generation'[uh[u].idx] = uh[u].gen
                       \/ oh[o] = uh[u]
    BY <1>2, <2>1, <2>2, <2>3, <2>a, <2>b DEF CallersPin
  <2>5. CASE uh[u].idx = oh[o].idx
    BY <1>3, <2>3, <2>4, <2>5 DEF Handle
  <2>6. CASE uh[u].idx # oh[o].idx
    BY <1>2, <1>3, <2>2, <2>4, <2>6 DEF TypeOK
  <2> QED  BY <2>5, <2>6
<1>20. ASSUME NEW o \in Owners, Drain(o) \/ GiveUpDrain(o) PROVE CallersPin'
  <2>1. \A u \in Users : Validated(u)' => Validated(u) /\ uh[u].idx # oh[o].idx
    <3> SUFFICES ASSUME NEW u \in Users, Validated(u)' PROVE Validated(u) /\ uh[u].idx # oh[o].idx
      OBVIOUS
    <3>1. Validated(u) /\ u \notin exposed'
      BY <1>20 DEF Drain, GiveUpDrain, Validated, userVars
    <3>2. counted[u]
      BY <1>2, <3>1 DEF CountedFirst, Validated
    <3>3. CASE Drain(o)
      <4>1. Holders(oh[o].idx) = {}
        BY <1>2, <1>3, <3>3, HoldersFinite, FS_EmptySet DEF RefsAreExact, Drain
      <4> QED  BY <3>1, <3>2, <4>1 DEF Holders
    <3>4. CASE GiveUpDrain(o)
      <4>1. u \notin Holders(oh[o].idx)
        BY <3>1, <3>4 DEF GiveUpDrain
      <4> QED  BY <3>1, <3>2, <4>1 DEF Holders
    <3> QED  BY <1>20, <3>3, <3>4
  <2>2. /\ opc' = [opc EXCEPT ![o] = "exchange"] /\ exposed \subseteq exposed'
        /\ UNCHANGED <<generation, context, issued, upc, uh, ugen, uctx, oh>>
    BY <1>20 DEF Drain, GiveUpDrain, slotVars, heapVars, userVars
  <2>3. \A q \in Owners : q = o
    BY <1>5
  <2>4. \A u \in Users : u \notin exposed' => (Validated(u)' <=> Validated(u))
    BY <2>2 DEF Validated
  <2> QED  BY <1>2, <2>1, <2>2, <2>3, <2>4 DEF CallersPin, TypeOK
<1>21. ASSUME NEW o \in Owners, TakeContext(o) PROVE CallersPin'
  BY <1>21, <1>2, <1>3, <1>4, <1>5
     DEF CallersPin, Validated, HandlesOdd, OwnerKnows, Destroying, TypeOK, TakeContext, heapVars,
         userVars
<1>22. ASSUME NEW o \in Owners, Delete(o) PROVE CallersPin'
  BY <1>22, <1>2, <1>3, <1>4, <1>5
     DEF CallersPin, Validated, HandlesOdd, OwnerKnows, Destroying, TypeOK, Delete, slotVars,
         userVars
<1>23. ASSUME UNCHANGED vars PROVE CallersPin'
  <2>1. UNCHANGED <<generation, context, issued, upc, uh, ugen, uctx, exposed, opc, oh>>
    BY <1>23 DEF vars, slotVars, heapVars, userVars, ownerVars
  <2>2. ASSUME NEW u \in Users PROVE Validated(u)' = Validated(u)
    BY <2>1 DEF Validated
  <2> QED  BY <1>2, <2>1, <2>2 DEF CallersPin
<1> QED
  BY <1>1, <1>6, <1>7, <1>8, <1>9, <1>10, <1>11, <1>12, <1>13, <1>14, <1>15, <1>16, <1>17, <1>18,
     <1>19, <1>20, <1>21, <1>22, <1>23
  DEF SafeInv, Next, UserNext, RegisterNext, InvalidateNext

(* The table's purpose, for any number of callers, slots and objects: with *)
(* one lifecycle thread, acquire() and invalidateAndFree() can interleave  *)
(* in any way, give up drains and reorder the count, and no caller is left *)
(* with a deleted object but the ones the drain gave up waiting for and    *)
(* the ones that validated before they were counted.                       *)
THEOREM NoFreeInUse == ASSUME SingleOwner PROVE Spec => []NoUseAfterFree
<1>1. SafeInv => NoUseAfterFree
  <2> SUFFICES ASSUME SafeInv, NEW u \in Users \ exposed, upc[u] = "using"
               PROVE uctx[u] \in Ctx /\ object[uctx[u]] = "live"
    BY DEF NoUseAfterFree
  <2>1. uh[u].idx \in Slots
    BY HandleParts DEF SafeInv, CountInv, TypeOK
  <2> QED  BY <2>1 DEF SafeInv, CountInv, TableInv, CallersPin, ContextsLive, TypeOK
<1>2. SafeInv /\ [Next]_vars => SafeInv'
  BY NextSafe
<1> QED  BY InitSafe, <1>1, <1>2, PTL DEF Spec

-----------------------------------------------------------------------------
(* Which object a handle means.  The code keeps no record of the object a  *)
(* handle was issued for, so the history variable names does: it collects  *)
(* what each wrapper's mNativePtr has ever held.  HSpec adds it to Spec    *)
(* and constrains nothing.                                                 *)

VARIABLE names

Given == {<<nativePtr[c], c>> : c \in {d \in Ctx : nativePtr[d] # ZeroHandle}}

HInit == Init /\ names = {}
HNext == Next /\ names' = names \cup Given'
HSpec == HInit /\ [][HNext]_<<vars, names>>

\* A pair is remembered for every handle, and only one; while the slot still has
\* the handle's generation, or its owner has not taken the context yet, the slot
\* has the object the handle was issued for.
Remembered ==
  /\ Given \subseteq names
  /\ \A h \in issued : \E c \in Ctx : <<h, c>> \in names
  /\ \A p \in names : p \in issued \X Ctx

InForce(h) ==
  \/ generation[h.idx] = h.gen
  \/ \E o \in Owners : opc[o] \in {"drain", "exchange"} /\ oh[o] = h

NamesHold ==
  /\ \A h \in issued, c \in Ctx : <<h, c>> \in names /\ InForce(h) => context[h.idx] = c
  /\ \A h \in issued, c, d \in Ctx : <<h, c>> \in names /\ <<h, d>> \in names => c = d

(* invalidateAndFree() deletes the object its handle was issued for, and   *)
(* no later tenant of the slot.                                            *)
DeletesItsOwn == \A o \in Owners : opc[o] = "delete" => <<oh[o], octx[o]>> \in names

(* A call that came with a handle and is not exposed works on the object   *)
(* its handle was issued for, and on no other.                             *)
WorksOnItsOwn ==
  \A u \in Users \ exposed : upc[u] = "using" /\ uh[u] # ZeroHandle =>
    \A c \in Ctx : <<uh[u], c>> \in names <=> c = uctx[u]

NamesInv == Remembered /\ NamesHold /\ DeletesItsOwn

LEMMA InitNames == HInit => NamesInv
  BY DEF HInit, Init, NamesInv, Remembered, Given, NamesHold, DeletesItsOwn

\* A step that issues no handle, and leaves the context of every handle still in
\* force, forgets nothing.
LEMMA NamesKept ==
  ASSUME NamesInv, names' = names \cup Given', issued' = issued, Given' \subseteq names,
         \A h \in issued : InForce(h)' => InForce(h) /\ context'[h.idx] = context[h.idx],
         \A o \in Owners : opc'[o] = "delete" => <<oh'[o], octx'[o]>> \in names
  PROVE  NamesInv'
<1>1. names' = names
  OBVIOUS
<1>2. Remembered' /\ DeletesItsOwn'
  BY <1>1 DEF NamesInv, Remembered, DeletesItsOwn
<1>3. NamesHold'
  BY <1>1 DEF NamesInv, NamesHold
<1> QED  BY <1>2, <1>3 DEF NamesInv

\* A handle that is returned is new: no older one has the slot's generation.
LEMMA ReturnHandleNames ==
  ASSUME TypeOK, TableInv, NamesInv, names' = names \cup Given',
         NEW o \in Owners, \A q \in Owners : q = o, ReturnHandle(o)
  PROVE  NamesInv'
<1>1. /\ opc[o] = "return" /\ octx[o] \in Ctx /\ Alive(oh[o].gen)
      /\ generation[oh[o].idx] = oh[o].gen /\ context[oh[o].idx] = octx[o]
  BY DEF ReturnHandle, TableInv, OwnerKnows, HandlesOdd, Registering
<1>2. /\ issued' = issued \cup {oh[o]} /\ nativePtr' = [nativePtr EXCEPT ![octx[o]] = oh[o]]
      /\ UNCHANGED <<generation, context, oh, octx>> /\ opc'[o] = "idle"
  BY DEF ReturnHandle, TypeOK
<1>3. oh[o] # ZeroHandle
  BY <1>1 DEF ZeroHandle, Alive
<1>4. Given' \subseteq names \cup {<<oh[o], octx[o]>>} /\ <<oh[o], octx[o]>> \in Given'
  BY <1>1, <1>2, <1>3 DEF TypeOK, Given, NamesInv, Remembered
<1>5. names' = names \cup {<<oh[o], octx[o]>>}
  BY <1>4
<1>6. Remembered'
  <2>1. \A h \in issued' : \E c \in Ctx : <<h, c>> \in names'
    BY <1>1, <1>2, <1>5 DEF NamesInv, Remembered
  <2>2. \A p \in names' : p \in issued' \X Ctx
    BY <1>1, <1>2, <1>5 DEF NamesInv, Remembered
  <2> QED  BY <2>1, <2>2 DEF Remembered
<1>7. \A h : InForce(h)' => generation[h.idx] = h.gen
  BY <1>2 DEF InForce
<1>8. \A c \in Ctx : <<oh[o], c>> \in names => c = octx[o]
  <2> SUFFICES ASSUME NEW c \in Ctx, <<oh[o], c>> \in names PROVE c = octx[o]  OBVIOUS
  <2>1. oh[o] \in issued /\ InForce(oh[o])
    BY <1>1 DEF NamesInv, Remembered, InForce
  <2> QED  BY <1>1, <2>1 DEF NamesInv, NamesHold
<1>9. ASSUME NEW h \in issued', NEW c \in Ctx, <<h, c>> \in names', InForce(h)'
      PROVE  context'[h.idx] = c
  <2>1. generation[h.idx] = h.gen
    BY <1>7, <1>9
  <2>2. CASE h = oh[o] /\ c = octx[o]
    BY <1>1, <1>2, <2>2
  <2>3. CASE <<h, c>> \in names
    <3>1. h \in issued /\ InForce(h)
      BY <2>1, <2>3 DEF NamesInv, Remembered, InForce
    <3> QED  BY <1>2, <2>3, <3>1 DEF NamesInv, NamesHold
  <2> QED  BY <1>5, <1>9, <2>2, <2>3
<1>10. ASSUME NEW h \in issued', NEW c \in Ctx, NEW d \in Ctx, <<h, c>> \in names', <<h, d>> \in names'
       PROVE  c = d
  <2>1. CASE h = oh[o]
    <3>1. c = octx[o] /\ d = octx[o]
      BY <1>5, <1>8, <1>10, <2>1
    <3> QED  BY <3>1
  <2>2. CASE h # oh[o]
    <3>1. h \in issued /\ <<h, c>> \in names /\ <<h, d>> \in names
      BY <1>2, <1>5, <1>10, <2>2
    <3> QED  BY <3>1 DEF NamesInv, NamesHold
  <2> QED  BY <2>1, <2>2
<1>11. DeletesItsOwn'
  BY <1>2 DEF DeletesItsOwn
<1> QED  BY <1>6, <1>9, <1>10, <1>11 DEF NamesInv, NamesHold

LEMMA NextNames ==
  ASSUME SingleOwner, TypeOK, TableInv, NamesInv, [HNext]_<<vars, names>> PROVE NamesInv'
<1>1. ASSUME NEW h \in issued
      PROVE  /\ h \in Handle /\ h.idx \in Slots /\ h.gen \in Nat /\ generation[h.idx] \in Nat
             /\ Alive(h.gen) /\ h.gen <= generation[h.idx]
  BY HandleParts DEF TypeOK, TableInv, HandlesOdd
<1>2. Given \subseteq names
  BY DEF NamesInv, Remembered
<1>3. ASSUME UNCHANGED <<generation, context, heapVars, ownerVars>>, names' = names \cup Given'
      PROVE  NamesInv'
  <2>1. Given' = Given /\ issued' = issued
    BY <1>3 DEF Given, heapVars
  <2>2. \A h \in issued : InForce(h)' => InForce(h) /\ context'[h.idx] = context[h.idx]
    BY <1>3 DEF InForce, ownerVars
  <2>3. \A o \in Owners : opc'[o] = "delete" => <<oh'[o], octx'[o]>> \in names
    BY <1>3 DEF ownerVars, NamesInv, DeletesItsOwn
  <2> QED  BY <1>2, <1>3, <2>1, <2>2, <2>3, NamesKept
<1>4. ASSUME NEW u \in Users, UserNext(u), names' = names \cup Given' PROVE NamesInv'
  BY <1>3, <1>4 DEF UserNext, EnterAcquire, CountRef, LoadGeneration, LoadContext, DropRef, slotVars
<1>5. ASSUME NEW o \in Owners, RegisterNext(o) \/ InvalidateNext(o), names' = names \cup Given'
      PROVE  NamesInv'
  <2>1. \A q \in Owners : q = o
    BY SingleOwner DEF SingleOwner
  <2>2. ASSUME issued' = issued, Given' \subseteq Given, opc'[o] \notin {"drain", "exchange", "delete"},
               \A h \in issued : generation'[h.idx] = h.gen =>
                 generation[h.idx] = h.gen /\ context'[h.idx] = context[h.idx]
        PROVE  NamesInv'
    <3>1. \A h \in issued : InForce(h)' => InForce(h) /\ context'[h.idx] = context[h.idx]
      BY <2>1, <2>2 DEF InForce
    <3>2. \A q \in Owners : opc'[q] # "delete"
      BY <2>1, <2>2
    <3> QED  BY <1>2, <1>5, <2>2, <3>1, <3>2, NamesKept
  <2>3. CASE Create(o) \/ ProbeGeneration(o) \/ ProbeContext(o)
    BY <2>2, <2>3 DEF Create, ProbeGeneration, ProbeContext, NextProbe, slotVars, Given, TypeOK
  <2>4. CASE ClaimSlot(o)
    <3>1. /\ issued' = issued /\ nativePtr' = nativePtr /\ generation' = generation
          /\ context' = [context EXCEPT ![oh[o].idx] = octx[o]] /\ opc'[o] = "publish"
          /\ ~Alive(generation[oh[o].idx])
      BY <2>4 DEF ClaimSlot, heapVars, TypeOK, TableInv, OwnerKnows
    <3>2. \A h \in issued : generation[h.idx] = h.gen => h.idx # oh[o].idx
      BY <1>1, <3>1
    <3> QED  BY <1>1, <2>2, <3>1, <3>2 DEF Given, TypeOK
  <2>5. CASE PublishGeneration(o)
    <3>1. /\ issued' = issued /\ nativePtr' = nativePtr /\ context' = context
          /\ generation' = [generation EXCEPT ![oh[o].idx] = generation[oh[o].idx] + 1]
          /\ opc'[o] = "return"
      BY <2>5 DEF PublishGeneration, heapVars, TypeOK, TableInv, OwnerKnows
    <3>2. \A h \in issued : generation'[h.idx] = h.gen => generation[h.idx] = h.gen
      BY <1>1, <3>1 DEF TypeOK
    <3> QED  BY <2>2, <3>1, <3>2 DEF Given
  <2>6. CASE ReturnHandle(o)
    BY <1>5, <2>1, <2>6, ReturnHandleNames
  <2>7. CASE Destroy(o)
    <3>1. /\ issued' = issued /\ UNCHANGED <<generation, context>> /\ opc'[o] = "check"
          /\ \A c \in Ctx : nativePtr'[c] = nativePtr[c] \/ nativePtr'[c] = ZeroHandle
      BY <2>7 DEF Destroy, slotVars, TypeOK
    <3>2. Given' \subseteq Given
      BY <3>1 DEF Given
    <3> QED  BY <2>2, <3>1, <3>2
  <2>8. CASE CheckGeneration(o)
    BY <2>2, <2>8 DEF CheckGeneration, slotVars, heapVars, Given, TypeOK
  <2>9. CASE MarkDead(o)
    <3>1. /\ issued' = issued /\ nativePtr' = nativePtr /\ UNCHANGED <<context, oh, octx>>
          /\ generation' = [generation EXCEPT ![oh[o].idx] = generation[oh[o].idx] + 1]
          /\ opc'[o] = "drain" /\ generation[oh[o].idx] = oh[o].gen
      BY <2>9 DEF MarkDead, heapVars, TypeOK, TableInv, OwnerKnows
    <3>2. \A h \in issued : generation'[h.idx] = h.gen => generation[h.idx] = h.gen
      BY <1>1, <3>1 DEF TypeOK
    <3>3. \A h \in issued : InForce(h)' => InForce(h) /\ context'[h.idx] = context[h.idx]
      BY <2>1, <3>1, <3>2 DEF InForce
    <3>4. Given' = Given /\ \A q \in Owners : opc'[q] # "delete"
      BY <2>1, <3>1 DEF Given
    <3> QED  BY <1>2, <1>5, <3>1, <3>3, <3>4, NamesKept
  <2>10. CASE Drain(o) \/ GiveUpDrain(o)
    <3>1. /\ issued' = issued /\ nativePtr' = nativePtr
          /\ UNCHANGED <<generation, context, oh, octx>>
          /\ opc[o] = "drain" /\ opc'[o] = "exchange"
      BY <2>10, DrainEnds DEF LeavesDrain, slotVars, heapVars, TypeOK
    <3>2. \A h \in issued : InForce(h)' => InForce(h) /\ context'[h.idx] = context[h.idx]
      BY <2>1, <3>1 DEF InForce
    <3>3. Given' = Given /\ \A q \in Owners : opc'[q] # "delete"
      BY <2>1, <3>1 DEF Given
    <3> QED  BY <1>2, <1>5, <3>1, <3>2, <3>3, NamesKept
  <2>11. CASE TakeContext(o)
    <3>1. /\ issued' = issued /\ nativePtr' = nativePtr /\ UNCHANGED <<generation, oh>>
          /\ context' = [context EXCEPT ![oh[o].idx] = NoCtx]
          /\ octx'[o] = context[oh[o].idx]
          /\ opc[o] = "exchange" /\ opc'[o] \in {"idle", "delete"}
      BY <2>11 DEF TakeContext, heapVars, TypeOK
    <3>2. oh[o] \in issued /\ generation[oh[o].idx] = oh[o].gen + 1
      BY <3>1 DEF TableInv, HandlesOdd, OwnerKnows, Destroying
    <3>3. ~Alive(generation[oh[o].idx])
      BY <1>1, <3>2, Parity
    <3>4. \A h \in issued : generation[h.idx] = h.gen => h.idx # oh[o].idx
      BY <1>1, <3>3
    <3>5. \A h \in issued : InForce(h)' => InForce(h) /\ context'[h.idx] = context[h.idx]
      BY <1>1, <2>1, <3>1, <3>4 DEF InForce, TypeOK
    <3>6. <<oh'[o], octx'[o]>> \in names
      <4>1. PICK c \in Ctx : <<oh[o], c>> \in names
        BY <3>2 DEF NamesInv, Remembered
      <4>2. InForce(oh[o])
        BY <3>1 DEF InForce
      <4>3. context[oh[o].idx] = c
        BY <3>2, <4>1, <4>2 DEF NamesInv, NamesHold
      <4> QED  BY <3>1, <4>1, <4>3
    <3>7. Given' = Given
      BY <3>1 DEF Given
    <3> QED  BY <1>2, <1>5, <2>1, <3>1, <3>5, <3>6, <3>7, NamesKept
  <2>12. CASE Delete(o)
    BY <2>2, <2>12 DEF Delete, slotVars, Given, TypeOK
  <2> QED
    BY <1>5, <2>3, <2>4, <2>5, <2>6, <2>7, <2>8, <2>9, <2>10, <2>11, <2>12
    DEF RegisterNext, InvalidateNext
<1>6. CASE UNCHANGED <<vars, names>>
  <2>1. UNCHANGED <<generation, context, heapVars, ownerVars>> /\ names' = names
    BY <1>6 DEF vars, slotVars
  <2>2. Given' = Given
    BY <2>1 DEF Given, heapVars
  <2> QED  BY <1>2, <1>3, <2>1, <2>2
<1> QED  BY <1>4, <1>5, <1>6 DEF HNext, Next

\* The history adds nothing to what the system may do.
LEMMA HistoryOnly == HSpec => Spec
<1>1. HInit => Init
  BY DEF HInit
<1>2. [HNext]_<<vars, names>> => [Next]_vars
  BY DEF HNext
<1> QED  BY <1>1, <1>2, PTL DEF HSpec, Spec

LEMMA NamesAlways == ASSUME SingleOwner PROVE HSpec => []NamesInv
<1>1. CountInv /\ TableInv => TypeOK /\ TableInv
  BY DEF CountInv
<1>2. TypeOK /\ TableInv /\ NamesInv /\ [HNext]_<<vars, names>> => NamesInv'
  BY NextNames
<1> QED  BY HistoryOnly, TableHolds, TypeCorrect, InitNames, <1>2, PTL DEF HSpec

(* With one lifecycle thread, nativeDestroy() deletes the object its       *)
(* handle was issued for, even if the handle is a stale copy and however   *)
(* long the drain takes: never a later object in the same slot.            *)
THEOREM DestroyIsExact == ASSUME SingleOwner PROVE HSpec => []DeletesItsOwn
<1>1. NamesInv => DeletesItsOwn
  BY DEF NamesInv
<1> QED  BY <1>1, NamesAlways, PTL

(* With one lifecycle thread, acquire() gives a caller the object its      *)
(* handle was issued for, and until its ScopedRef is gone a slot that is   *)
(* reused never redirects it to another camera; drains that give up and    *)
(* reordered counts can do that only to the callers they expose.           *)
THEOREM AcquireIsExact == ASSUME SingleOwner PROVE HSpec => []WorksOnItsOwn
<1>1. SafeInv /\ NamesInv => WorksOnItsOwn
  <2> SUFFICES ASSUME SafeInv, NamesInv, NEW u \in Users \ exposed, upc[u] = "using", uh[u] # ZeroHandle,
                      NEW c \in Ctx
               PROVE  <<uh[u], c>> \in names <=> c = uctx[u]
    BY DEF WorksOnItsOwn
  <2>1. uh[u] \in issued /\ InForce(uh[u]) /\ context[uh[u].idx] = uctx[u]
    BY DEF SafeInv, CallersPin, Validated, InForce
  <2>2. PICK d \in Ctx : <<uh[u], d>> \in names
    BY <2>1 DEF NamesInv, Remembered
  <2>3. \A e \in Ctx : <<uh[u], e>> \in names => e = uctx[u]
    BY <2>1 DEF NamesInv, NamesHold
  <2> QED  BY <2>2, <2>3
<1>2. SafeInv /\ [Next]_vars => SafeInv'
  BY NextSafe
<1>3. Spec => []SafeInv
  BY InitSafe, <1>2, PTL DEF Spec
<1> QED  BY <1>1, <1>3, HistoryOnly, NamesAlways, PTL

==============================================================================
