---------------------------- MODULE HandleManager ----------------------------
(***************************************************************************)
(* The slot table behind every JNI handle (HandleManager.h).               *)
(*                                                                         *)
(* A handle names a slot and the generation the slot had when the handle   *)
(* was issued.  Any number of JNI callers (Users) bracket their use of the *)
(* native object with acquire() and ~ScopedRef(); lifecycle threads        *)
(* (Owners) create an object and register it, and later invalidate the     *)
(* handle and delete the object.  Nothing is locked: each action below is  *)
(* one access to one of the slot's atomics, so every interleaving of the   *)
(* code's loads and stores is a behaviour.  The fetch_add of acquire() has *)
(* memory_order_acquire, which orders what it reads, and not what it       *)
(* writes, before the loads that follow: an arm64 processor may let them   *)
(* pass it, and so may the model.  The drain of invalidateAndFree() gives  *)
(* up after 10000 x 1 ms whoever still has a reference, and so may the     *)
(* model.  The history variable exposed remembers which callers one of the *)
(* two has left without protection; no action reads it.                    *)
(***************************************************************************)
EXTENDS Integers, FiniteSets

CONSTANTS Users,           \* threads that call into native code through a handle
          Owners,          \* threads that create and destroy native objects
          Ctx,             \* the native objects; an address is never reused
          NoCtx,           \* the null context
          NumSlots         \* MAX_HANDLE_SLOTS

ASSUME UsersAssumption == IsFiniteSet(Users)
ASSUME SlotsAssumption == NumSlots \in Nat \ {0}
ASSUME NoCtxAssumption == NoCtx \notin Ctx

Slots  == 0 .. NumSlots - 1
Handle == [idx : Slots, gen : Nat]

\* What Java's mNativePtr holds when there is no native object.
ZeroHandle == [idx |-> 0, gen |-> 0]

Alive(gen) == gen % 2 = 1

VARIABLES
  generation,   \* HandleSlot.generation: odd = alive, even = dead
  activeRefs,   \* HandleSlot.activeRefs
  context,      \* HandleSlot.context
  hint,         \* mNextFreeHint
  object,       \* the heap: "none", "live" or "freed" for each native object
  issued,       \* every handle ever returned; callers may keep a stale one
  nativePtr,    \* the handle the Java wrapper of an object holds
  upc, uh, ugen, uctx,      \* a user's step, handle, loaded generation, context
  counted,                  \* has the user's fetch_add taken effect?
  exposed,                  \* history: the users whose reference does not hold up the drain
  opc, oh, octx, oi, ogen   \* an owner's step, handle, object, probe count, generation

slotVars  == <<generation, activeRefs, context, hint>>
heapVars  == <<object, issued, nativePtr>>
userVars  == <<upc, uh, ugen, uctx, counted, exposed>>
ownerVars == <<opc, oh, octx, oi, ogen>>
vars == <<slotVars, heapVars, userVars, ownerVars>>

UserSteps  == {"idle", "entered", "validating", "using", "refused"}
OwnerSteps == {"idle", "probe", "probeContext", "claim", "publish", "return",
               "check", "invalidate", "drain", "exchange", "delete"}

Init ==
  /\ generation = [s \in Slots |-> 0]
  /\ activeRefs = [s \in Slots |-> 0]
  /\ context    = [s \in Slots |-> NoCtx]
  /\ hint = 0
  /\ object = [c \in Ctx |-> "none"]
  /\ issued = {}
  /\ nativePtr = [c \in Ctx |-> ZeroHandle]
  /\ upc  = [u \in Users |-> "idle"]
  /\ uh   = [u \in Users |-> ZeroHandle]
  /\ ugen = [u \in Users |-> 0]
  /\ uctx = [u \in Users |-> NoCtx]
  /\ counted = [u \in Users |-> FALSE]
  /\ exposed = {}
  /\ opc  = [o \in Owners |-> "idle"]
  /\ oh   = [o \in Owners |-> ZeroHandle]
  /\ octx = [o \in Owners |-> NoCtx]
  /\ oi   = [o \in Owners |-> 0]
  /\ ogen = [o \in Owners |-> 0]

\* The users counted in a slot's activeRefs.
Holders(s) == {u \in Users : counted[u] /\ uh[u].idx = s}

-----------------------------------------------------------------------------
(* Plausible bugs of the steps below; each breaks one of the properties.   *)

\* The drain loop left out.
Drain_Skipped(o) ==
  /\ opc[o] = "drain"
  /\ opc' = [opc EXCEPT ![o] = "exchange"]
  /\ UNCHANGED <<slotVars, heapVars, userVars, oh, octx, oi, ogen>>

\* invalidateAndFree() that leaves the context in the slot (load, not exchange).
TakeContext_Kept(o) ==
  /\ opc[o] = "exchange"
  /\ octx' = [octx EXCEPT ![o] = context[oh[o].idx]]
  /\ opc' = [opc EXCEPT ![o] = IF context[oh[o].idx] = NoCtx THEN "idle" ELSE "delete"]
  /\ UNCHANGED <<slotVars, heapVars, userVars, oh, oi, ogen>>

\* invalidateAndFree() that does not compare the generation of a stale handle.
CheckGeneration_Skipped(o) ==
  /\ opc[o] = "check"
  /\ opc' = [opc EXCEPT ![o] = "invalidate"]
  /\ UNCHANGED <<slotVars, heapVars, userVars, oh, octx, oi, ogen>>

\* A destruction that takes the generation back instead of advancing it.
MarkDead_Reset(o) ==
  /\ opc[o] = "invalidate"
  /\ generation' = [generation EXCEPT ![oh[o].idx] = @ - 1]
  /\ opc' = [opc EXCEPT ![o] = "drain"]
  /\ UNCHANGED <<activeRefs, context, hint, heapVars, userVars, oh, octx, oi, ogen>>

-----------------------------------------------------------------------------
(* acquire() and ~ScopedRef()                                              *)

\* A JNI function calls acquire() with the handle it was given: one that was once
\* returned, or the 0 of a wrapper without a native object, which passes the `< 0` test.
EnterAcquire(u) ==
  /\ upc[u] = "idle"
  /\ \E h \in issued \cup {ZeroHandle} : uh' = [uh EXCEPT ![u] = h]
  /\ upc' = [upc EXCEPT ![u] = "entered"]
  /\ UNCHANGED <<slotVars, heapVars, ugen, uctx, counted, exposed, ownerVars>>

\* The fetch_add takes effect: in program order before anything is loaded.
CountRef(u) ==
  /\ upc[u] # "idle" /\ ~counted[u]
  /\ activeRefs' = [activeRefs EXCEPT ![uh[u].idx] = @ + 1]
  /\ counted' = [counted EXCEPT ![u] = TRUE]
  /\ UNCHANGED <<generation, context, hint, heapVars, upc, uh, ugen, uctx, exposed, ownerVars>>

\* The load may pass the fetch_add before it; the caller is then exposed.
LoadGeneration(u) ==
  /\ upc[u] = "entered"
  /\ exposed' = IF counted[u] THEN exposed ELSE exposed \cup {u}
  /\ ugen' = [ugen EXCEPT ![u] = generation[uh[u].idx]]
  /\ upc' = [upc EXCEPT ![u] = "validating"]
  /\ UNCHANGED <<slotVars, heapVars, uh, uctx, counted, ownerVars>>

\* acquire() succeeds iff the generation matches and the context is not null.
LoadContext(u) ==
  /\ upc[u] = "validating"
  /\ uctx' = [uctx EXCEPT ![u] = context[uh[u].idx]]
  /\ upc' = [upc EXCEPT ![u] =
       IF ugen[u] = uh[u].gen /\ context[uh[u].idx] # NoCtx THEN "using" ELSE "refused"]
  /\ UNCHANGED <<slotVars, heapVars, uh, ugen, counted, exposed, ownerVars>>

\* The fetch_sub of a refused acquire(), or of ~ScopedRef() at the end of a call.
DropRef(u) ==
  /\ counted[u] /\ upc[u] \in {"using", "refused"}
  /\ counted' = [counted EXCEPT ![u] = FALSE]
  /\ activeRefs' = [activeRefs EXCEPT ![uh[u].idx] = @ - 1]
  /\ upc' = [upc EXCEPT ![u] = "idle"]
  /\ exposed' = exposed \ {u}
  /\ UNCHANGED <<generation, context, hint, heapVars, uh, ugen, uctx, ownerVars>>

-----------------------------------------------------------------------------
(* registerContext(), as nativeCreate() calls it                           *)

Create(o) ==
  /\ opc[o] = "idle"
  /\ \E c \in Ctx :
       /\ object[c] = "none"
       /\ object' = [object EXCEPT ![c] = "live"]
       /\ octx' = [octx EXCEPT ![o] = c]
  /\ oh' = [oh EXCEPT ![o] = [idx |-> hint, gen |-> 0]]
  /\ oi' = [oi EXCEPT ![o] = 0]
  /\ opc' = [opc EXCEPT ![o] = "probe"]
  /\ UNCHANGED <<slotVars, issued, nativePtr, userVars, ogen>>

\* The next iteration of the search, or INVALID_HANDLE and `delete camera`.
NextProbe(o) ==
  IF oi[o] + 1 < NumSlots
  THEN /\ oi' = [oi EXCEPT ![o] = @ + 1]
       /\ oh' = [oh EXCEPT ![o].idx = (@ + 1) % NumSlots]
       /\ opc' = [opc EXCEPT ![o] = "probe"]
       /\ UNCHANGED object
  ELSE /\ object' = [object EXCEPT ![octx[o]] = "freed"]
       /\ opc' = [opc EXCEPT ![o] = "idle"]
       /\ UNCHANGED <<oi, oh>>

ProbeGeneration(o) ==
  /\ opc[o] = "probe"
  /\ ogen' = [ogen EXCEPT ![o] = generation[oh[o].idx]]
  /\ IF Alive(generation[oh[o].idx])
     THEN NextProbe(o)
     ELSE /\ opc' = [opc EXCEPT ![o] = "probeContext"]
          /\ UNCHANGED <<object, oi, oh>>
  /\ UNCHANGED <<slotVars, issued, nativePtr, userVars, octx>>

ProbeContext(o) ==
  /\ opc[o] = "probeContext"
  /\ IF context[oh[o].idx] # NoCtx
     THEN NextProbe(o)
     ELSE /\ opc' = [opc EXCEPT ![o] = "claim"]
          /\ UNCHANGED <<object, oi, oh>>
  /\ UNCHANGED <<slotVars, issued, nativePtr, userVars, octx, ogen>>

ClaimSlot(o) ==
  /\ opc[o] = "claim"
  /\ context' = [context EXCEPT ![oh[o].idx] = octx[o]]
  /\ opc' = [opc EXCEPT ![o] = "publish"]
  /\ UNCHANGED <<generation, activeRefs, hint, heapVars, userVars, oh, octx, oi, ogen>>

PublishGeneration(o) ==
  /\ opc[o] = "publish"
  /\ generation' = [generation EXCEPT ![oh[o].idx] = ogen[o] + 1]
  /\ oh' = [oh EXCEPT ![o].gen = ogen[o] + 1]
  /\ opc' = [opc EXCEPT ![o] = "return"]
  /\ UNCHANGED <<activeRefs, context, hint, heapVars, userVars, octx, oi, ogen>>

\* The hint is advanced and the handle returned to Java (setField_long).
ReturnHandle(o) ==
  /\ opc[o] = "return"
  /\ hint' = (oh[o].idx + 1) % NumSlots
  /\ issued' = issued \cup {oh[o]}
  /\ nativePtr' = [nativePtr EXCEPT ![octx[o]] = oh[o]]
  /\ opc' = [opc EXCEPT ![o] = "idle"]
  /\ UNCHANGED <<generation, activeRefs, context, object, userVars, oh, octx, oi, ogen>>

-----------------------------------------------------------------------------
(* invalidateAndFree(), as nativeDestroy() calls it                        *)

\* The wrapper's mNativePtr is zeroed before the native object is destroyed;
\* the handle may also be a stale copy.
Destroy(o) ==
  /\ opc[o] = "idle"
  /\ \E h \in issued :
       /\ oh' = [oh EXCEPT ![o] = h]
       /\ nativePtr' = [c \in Ctx |-> IF nativePtr[c] = h THEN ZeroHandle ELSE nativePtr[c]]
  /\ opc' = [opc EXCEPT ![o] = "check"]
  /\ UNCHANGED <<slotVars, object, issued, userVars, octx, oi, ogen>>

CheckGeneration(o) ==
  /\ opc[o] = "check"
  /\ opc' = [opc EXCEPT ![o] =
       IF generation[oh[o].idx] = oh[o].gen THEN "invalidate" ELSE "idle"]
  /\ UNCHANGED <<slotVars, heapVars, userVars, oh, octx, oi, ogen>>

MarkDead(o) ==
  /\ opc[o] = "invalidate"
  /\ generation' = [generation EXCEPT ![oh[o].idx] = @ + 1]
  /\ opc' = [opc EXCEPT ![o] = "drain"]
  /\ UNCHANGED <<activeRefs, context, hint, heapVars, userVars, oh, octx, oi, ogen>>

\* The spin loop ends when it sees no active reference.
Drain(o) ==
  /\ opc[o] = "drain"
  /\ activeRefs[oh[o].idx] = 0
  /\ opc' = [opc EXCEPT ![o] = "exchange"]
  /\ UNCHANGED <<slotVars, heapVars, userVars, oh, octx, oi, ogen>>

\* Or it gives up, and leaves the callers it was waiting for to their luck.
GiveUpDrain(o) ==
  /\ opc[o] = "drain"
  /\ activeRefs[oh[o].idx] > 0
  /\ exposed' = exposed \cup Holders(oh[o].idx)
  /\ opc' = [opc EXCEPT ![o] = "exchange"]
  /\ UNCHANGED <<slotVars, heapVars, upc, uh, ugen, uctx, counted, oh, octx, oi, ogen>>

TakeContext(o) ==
  /\ opc[o] = "exchange"
  /\ octx' = [octx EXCEPT ![o] = context[oh[o].idx]]
  /\ context' = [context EXCEPT ![oh[o].idx] = NoCtx]
  /\ opc' = [opc EXCEPT ![o] = IF context[oh[o].idx] = NoCtx THEN "idle" ELSE "delete"]
  /\ UNCHANGED <<generation, activeRefs, hint, heapVars, userVars, oh, oi, ogen>>

Delete(o) ==
  /\ opc[o] = "delete"
  /\ object' = [object EXCEPT ![octx[o]] = "freed"]
  /\ opc' = [opc EXCEPT ![o] = "idle"]
  /\ UNCHANGED <<slotVars, issued, nativePtr, userVars, oh, octx, oi, ogen>>

-----------------------------------------------------------------------------
UserNext(u) == EnterAcquire(u) \/ CountRef(u) \/ LoadGeneration(u) \/ LoadContext(u) \/ DropRef(u)

RegisterNext(o) ==
  \/ Create(o) \/ ProbeGeneration(o) \/ ProbeContext(o)
  \/ ClaimSlot(o) \/ PublishGeneration(o) \/ ReturnHandle(o)

InvalidateNext(o) ==
  \/ Destroy(o) \/ CheckGeneration(o) \/ MarkDead(o)
  \/ Drain(o) \/ GiveUpDrain(o) \/ TakeContext(o) \/ Delete(o)

Next ==
  \/ \E u \in Users : UserNext(u)
  \/ \E o \in Owners : RegisterNext(o) \/ InvalidateNext(o)

Spec == Init /\ [][Next]_vars

-----------------------------------------------------------------------------
TypeOK ==
  /\ generation \in [Slots -> Nat]
  /\ activeRefs \in [Slots -> Nat]
  /\ context \in [Slots -> Ctx \cup {NoCtx}]
  /\ hint \in Slots
  /\ object \in [Ctx -> {"none", "live", "freed"}]
  /\ issued \subseteq Handle
  /\ nativePtr \in [Ctx -> Handle]
  /\ upc \in [Users -> UserSteps]
  /\ uh \in [Users -> Handle]
  /\ ugen \in [Users -> Nat]
  /\ uctx \in [Users -> Ctx \cup {NoCtx}]
  /\ counted \in [Users -> BOOLEAN]
  /\ exposed \subseteq Users
  /\ opc \in [Owners -> OwnerSteps]
  /\ oh \in [Owners -> Handle]
  /\ octx \in [Owners -> Ctx \cup {NoCtx}]
  /\ oi \in [Owners -> Slots]
  /\ ogen \in [Owners -> Nat]

(* What the class exists for (HandleManager.h:34, "prevent use-after-free    *)
(* crashes"): an object is never deleted while a caller holds a ScopedRef to *)
(* it, however acquire() and invalidateAndFree() interleave, for one         *)
(* lifecycle thread.  The two exceptions are exposed callers and no others:  *)
(* the drain that was waiting for this caller gave up, or its loads passed   *)
(* its own fetch_add.                                                        *)
NoUseAfterFree ==
  \A u \in Users \ exposed : upc[u] = "using" => uctx[u] \in Ctx /\ object[uctx[u]] = "live"

(* activeRefs counts exactly the callers between their fetch_add and their   *)
(* fetch_sub, refused acquires included: no path through acquire() and       *)
(* ~ScopedRef() leaks a count (the drain would never end) or drops one twice *)
(* (the drain would end early).                                              *)
RefsAreExact == \A s \in Slots : activeRefs[s] = Cardinality(Holders(s))

(* For one lifecycle thread, the handle a wrapper was given names that       *)
(* wrapper's object until the wrapper is destroyed, whatever callers do,     *)
(* however long the drain takes, and however often stale handles are         *)
(* destroyed again.  Two threads that register at once break it: the search  *)
(* of registerContext() is not atomic.                                       *)
HandleNamesItsObject ==
  \A c \in Ctx : nativePtr[c] # ZeroHandle =>
    /\ generation[nativePtr[c].idx] = nativePtr[c].gen
    /\ context[nativePtr[c].idx] = c

(* Between the calls of one lifecycle thread the table is in step with the   *)
(* heap: a slot is alive exactly when it has a context ("odd = alive, even = *)
(* dead"), and the live objects are exactly the registered ones, each in one *)
(* slot; nothing is leaked and no slot is lost, whatever sequence of         *)
(* creations, refusals, abandoned drains and repeated destructions went      *)
(* before.                                                                   *)
TableMatchesHeap ==
  (\A o \in Owners : opc[o] = "idle") =>
    /\ \A s \in Slots : Alive(generation[s]) <=> context[s] # NoCtx
    /\ \A c \in Ctx : Cardinality({s \in Slots : context[s] = c}) = (IF object[c] = "live" THEN 1 ELSE 0)

IsValid(h) == generation[h.idx] = h.gen /\ context[h.idx] # NoCtx

(* A handle that has become invalid is never valid again, so a stale copy    *)
(* kept by Java can never name the next object to use its slot.              *)
StaleStaysStale == [][\A h \in issued : ~IsValid(h) => ~(IsValid(h))']_vars

==============================================================================
