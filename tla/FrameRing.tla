------------------------------- MODULE FrameRing -------------------------------
(***************************************************************************)
(* The triple buffer between the conversion thread and the renderers       *)
(* (FrameBufferRing.cpp): a mailbox in which the producer writes to a slot *)
(* it believes nobody reads and a reader gets the newest completed frame.  *)
(*                                                                         *)
(* One producer; Renderer acquires and releases through JNI, with or       *)
(* without a GPU fence; each of Capturers runs captureToFd().  Every       *)
(* access to an index both sides use is an action of its own, so that each *)
(* side may be preempted between two of them; the write of a buffer's      *)
(* pixels has a beginning and an end.                                      *)
(*                                                                         *)
(* The ring does not protect every reader: one mReadIndex is stored some   *)
(* time after the slot was chosen and serves all readers.  The history     *)
(* variable lost names the readers of which it has lost sight, crossed     *)
(* tells whether two ever read different slots at once.                    *)
(***************************************************************************)
EXTENDS Integers, FiniteSets

CONSTANTS Count,           \* FRAME_BUFFER_COUNT
          Renderer,        \* the GL thread
          Capturers,       \* threads in captureToFd()
          MaxFrames        \* bound: frames the producer starts

ASSUME CountAssumption == Count \in Nat /\ Count >= 3
ASSUME ReadersAssumption == IsFiniteSet(Capturers) /\ Renderer \notin Capturers
ASSUME FramesAssumption == MaxFrames \in Nat

Slots   == 0 .. Count - 1
Readers == Capturers \cup {Renderer}
NoFrame == 0    \* pixels that are not one whole frame

VARIABLES
  mWriteIndex, mReadIndex, mLatestCompleted, mFrameCounter,
  valid, frameNumber,      \* FrameSlotMetadata of each slot
  isLockedByConsumer,
  gpuReleaseFence,         \* "none", "pending" or "signalled"
  refs,                    \* reference count of each AHardwareBuffer
  pixels,                  \* the frame in each buffer
  started,                 \* frames the producer has begun
  wpc, nextWrite,          \* the producer's step, and the slot it moves to
  rpc, rslot, rframe,      \* a reader's step, slot and frame
  number,                  \* what nativeFrameBufferGetFrameNumber() returned
  lost, crossed,           \* histories: see above
  gpuReads                 \* history: the frame the GPU is still to read from a slot

indexVars  == <<mWriteIndex, mReadIndex, mLatestCompleted, mFrameCounter>>
metaVars   == <<valid, frameNumber, isLockedByConsumer, gpuReleaseFence>>
bufferVars == <<refs, pixels>>
readerVars == <<rpc, rslot, rframe, number>>
historyVars == <<lost, crossed, gpuReads>>
vars == <<indexVars, metaVars, bufferVars, started, wpc, nextWrite, readerVars, historyVars>>

HoldSteps     == {"holding", "numbered", "fenced"}
ReaderSteps   == {"idle", "loaded", "marked"} \cup HoldSteps
ProducerSteps == {"idle", "checkFence", "waitFence", "checkLock", "lock", "writing",
                  "publish", "choose", "advance"}

Marked(r) == rpc[r] \in {"marked"} \cup HoldSteps    \* mReadIndex has been stored

Init ==
  /\ mWriteIndex = 0 /\ mReadIndex = 0 /\ mLatestCompleted = -1 /\ mFrameCounter = 0
  /\ valid = [s \in Slots |-> FALSE]
  /\ frameNumber = [s \in Slots |-> 0]
  /\ isLockedByConsumer = [s \in Slots |-> FALSE]
  /\ gpuReleaseFence = [s \in Slots |-> "none"]
  /\ refs = [s \in Slots |-> 1]
  /\ pixels = [s \in Slots |-> NoFrame]
  /\ started = 0
  /\ wpc = "idle" /\ nextWrite = 0
  /\ rpc = [r \in Readers |-> "idle"]
  /\ rslot = [r \in Readers |-> 0]
  /\ rframe = [r \in Readers |-> NoFrame]
  /\ number = NoFrame
  /\ lost = {} /\ crossed = FALSE
  /\ gpuReads = [s \in Slots |-> NoFrame]

-----------------------------------------------------------------------------
(* Plausible mistakes in this code, each of which some property rejects.    *)

NextSlot_IgnoresReader(s, read) == (s + 1) % Count
WaitFence_Skipped ==
  /\ wpc = "waitFence"
  /\ gpuReleaseFence' = gpuReleaseFence
  /\ wpc' = "lock"
  /\ UNCHANGED <<indexVars, valid, frameNumber, isLockedByConsumer, bufferVars, started, nextWrite,
                 readerVars, historyVars>>

StoreReadIndex_Forgotten(r) ==
  /\ rpc[r] = "loaded"
  /\ rpc' = [rpc EXCEPT ![r] = "marked"]
  /\ UNCHANGED <<indexVars, metaVars, bufferVars, started, wpc, nextWrite, rslot, rframe, number,
                 historyVars>>

LoadLatest_AnyValid(r) ==
  /\ rpc[r] = "idle"
  /\ \E s \in Slots \ {mWriteIndex} : valid[s] /\ rslot' = [rslot EXCEPT ![r] = s]
  /\ rpc' = [rpc EXCEPT ![r] = "loaded"]
  /\ UNCHANGED <<indexVars, metaVars, bufferVars, started, wpc, nextWrite, rframe, number, historyVars>>

-----------------------------------------------------------------------------
(* The producer: lockWriteBuffer(), then unlockWriteBuffer() or            *)
(* cancelWriteBuffer()                                                     *)

StartWrite ==
  /\ wpc = "idle"
  /\ started < MaxFrames
  /\ started' = started + 1
  /\ wpc' = "checkFence"
  /\ UNCHANGED <<indexVars, metaVars, bufferVars, nextWrite, readerVars, historyVars>>

CheckFence ==
  /\ wpc = "checkFence"
  /\ wpc' = IF gpuReleaseFence[mWriteIndex] # "none" THEN "waitFence" ELSE "checkLock"
  /\ UNCHANGED <<indexVars, metaVars, bufferVars, started, nextWrite, readerVars, historyVars>>

\* The poll ends with the fence ...
WaitFence ==
  /\ wpc = "waitFence"
  /\ gpuReleaseFence[mWriteIndex] = "signalled"
  /\ gpuReleaseFence' = [gpuReleaseFence EXCEPT ![mWriteIndex] = "none"]
  /\ wpc' = "lock"
  /\ UNCHANGED <<indexVars, valid, frameNumber, isLockedByConsumer, bufferVars, started, nextWrite,
                 readerVars, historyVars>>

\* ... or after 33 ms or an error: the fence is closed all the same, and the
\* producer goes on beside the GPU ("GPU may see partial data").
FenceTimesOut ==
  /\ wpc = "waitFence"
  /\ gpuReleaseFence' = [gpuReleaseFence EXCEPT ![mWriteIndex] = "none"]
  /\ gpuReads' = [gpuReads EXCEPT ![mWriteIndex] = NoFrame]
  /\ wpc' = "lock"
  /\ UNCHANGED <<indexVars, valid, frameNumber, isLockedByConsumer, bufferVars, started, nextWrite,
                 readerVars, lost, crossed>>

\* A slot a reader has locked makes the producer drop the frame.
CheckLock ==
  /\ wpc = "checkLock"
  /\ wpc' = IF isLockedByConsumer[mWriteIndex] THEN "idle" ELSE "lock"
  /\ UNCHANGED <<indexVars, metaVars, bufferVars, started, nextWrite, readerVars, historyVars>>

\* AHardwareBuffer_lock(), and the conversion into the buffer begins.
LockBuffer ==
  /\ wpc = "lock"
  /\ pixels' = [pixels EXCEPT ![mWriteIndex] = NoFrame]
  /\ wpc' = "writing"
  /\ UNCHANGED <<indexVars, metaVars, refs, started, nextWrite, readerVars, historyVars>>

\* The lock is refused: the frame is dropped before anything is written.
LockFails ==
  /\ wpc = "lock"
  /\ wpc' = "idle"
  /\ UNCHANGED <<indexVars, metaVars, bufferVars, started, nextWrite, readerVars, historyVars>>

\* cancelWriteBuffer(): the slot is used again for the next frame.
Cancel ==
  /\ wpc = "writing"
  /\ wpc' = "idle"
  /\ UNCHANGED <<indexVars, metaVars, bufferVars, started, nextWrite, readerVars, historyVars>>

\* unlockWriteBuffer(): AHardwareBuffer_unlock() and the slot's metadata.  The
\* unlock is taken to end with the pixels written: its fence is not modelled.
Complete ==
  /\ wpc = "writing"
  /\ mFrameCounter' = mFrameCounter + 1
  /\ pixels' = [pixels EXCEPT ![mWriteIndex] = mFrameCounter + 1]
  /\ frameNumber' = [frameNumber EXCEPT ![mWriteIndex] = mFrameCounter + 1]
  /\ valid' = [valid EXCEPT ![mWriteIndex] = TRUE]
  /\ wpc' = "publish"
  /\ UNCHANGED <<mWriteIndex, mReadIndex, mLatestCompleted, isLockedByConsumer, gpuReleaseFence,
                 refs, started, nextWrite, readerVars, historyVars>>

\* The mailbox.
Publish ==
  /\ wpc = "publish"
  /\ mLatestCompleted' = mWriteIndex
  /\ wpc' = "choose"
  /\ UNCHANGED <<mWriteIndex, mReadIndex, mFrameCounter, metaVars, bufferVars, started, nextWrite, readerVars, historyVars>>

\* The next slot, skipping the one being read.
NextSlot(s, read) == IF (s + 1) % Count = read THEN (s + 2) % Count ELSE (s + 1) % Count

\* The readers still to store the slot they chose when the producer looks at
\* mReadIndex: it steers clear of the newest slot only.
Overtaken == {r \in Readers : rpc[r] = "loaded" /\ rslot[r] # mLatestCompleted}

ChooseNext ==
  /\ wpc = "choose"
  /\ nextWrite' = NextSlot(mWriteIndex, mReadIndex)
  /\ lost' = lost \cup Overtaken
  /\ wpc' = "advance"
  /\ UNCHANGED <<indexVars, metaVars, bufferVars, started, readerVars, crossed, gpuReads>>

StoreWriteIndex ==
  /\ wpc = "advance"
  /\ mWriteIndex' = nextWrite
  /\ nextWrite' = 0
  /\ wpc' = "idle"
  /\ UNCHANGED <<mReadIndex, mLatestCompleted, mFrameCounter, metaVars, bufferVars, started,
                 readerVars, historyVars>>

-----------------------------------------------------------------------------
(* The readers: acquireReadBuffer(), releaseReadBuffer() and               *)
(* nativeFrameBufferReleaseWithFence()                                     *)

LoadLatest(r) ==
  /\ rpc[r] = "idle"
  /\ mLatestCompleted >= 0
  /\ valid[mLatestCompleted]
  /\ rslot' = [rslot EXCEPT ![r] = mLatestCompleted]
  /\ rpc' = [rpc EXCEPT ![r] = "loaded"]
  /\ UNCHANGED <<indexVars, metaVars, bufferVars, started, wpc, nextWrite, rframe, number, historyVars>>

\* The readers of other slots, which mReadIndex names no longer.
Displaced(r) == {q \in Readers \ {r} : Marked(q) /\ rslot[q] # rslot[r]}

StoreReadIndex(r) ==
  /\ rpc[r] = "loaded"
  /\ mReadIndex' = rslot[r]
  /\ rpc' = [rpc EXCEPT ![r] = "marked"]
  /\ lost' = lost \cup Displaced(r)
  /\ crossed' = (crossed \/ Displaced(r) # {})
  /\ UNCHANGED <<mWriteIndex, mLatestCompleted, mFrameCounter, metaVars, bufferVars, started, wpc,
                 nextWrite, rslot, rframe, number, gpuReads>>

\* The slot is locked, its metadata copied and the buffer's count raised.
LockSlot(r) ==
  /\ rpc[r] = "marked"
  /\ isLockedByConsumer' = [isLockedByConsumer EXCEPT ![rslot[r]] = TRUE]
  /\ rframe' = [rframe EXCEPT ![r] = frameNumber[rslot[r]]]
  /\ refs' = [refs EXCEPT ![rslot[r]] = @ + 1]
  /\ rpc' = [rpc EXCEPT ![r] = "holding"]
  /\ UNCHANGED <<indexVars, valid, frameNumber, gpuReleaseFence, pixels, started, wpc, nextWrite,
                 rslot, number, historyVars>>

\* releaseReadBuffer() works on mReadIndex, whatever slot its caller acquired.
\* The caller's locals end with the call.
Release(r) ==
  /\ rpc[r] \in HoldSteps
  /\ isLockedByConsumer' = [isLockedByConsumer EXCEPT ![mReadIndex] = FALSE]
  /\ refs' = [refs EXCEPT ![mReadIndex] = @ - 1]
  /\ rpc' = [rpc EXCEPT ![r] = "idle"]
  /\ rslot' = [rslot EXCEPT ![r] = 0]
  /\ rframe' = [rframe EXCEPT ![r] = NoFrame]
  /\ number' = IF r = Renderer THEN NoFrame ELSE number
  /\ lost' = lost \ {r}
  /\ UNCHANGED <<indexVars, valid, frameNumber, gpuReleaseFence, pixels, started, wpc, nextWrite,
                 crossed, gpuReads>>

\* The frame at mReadIndex, again whatever slot the renderer acquired.
GetFrameNumber ==
  /\ rpc[Renderer] = "holding"
  /\ number' = frameNumber[mReadIndex]
  /\ rpc' = [rpc EXCEPT ![Renderer] = "numbered"]
  /\ UNCHANGED <<indexVars, metaVars, bufferVars, started, wpc, nextWrite, rslot, rframe, historyVars>>

\* The slots that hold a frame: none once the frame has been recycled.
SlotsOf(frame) == {s \in Slots : valid[s] /\ frameNumber[s] = frame}

\* What the GPU is left to read: nothing the slot's fence stands for when it is
\* replaced by none, what the renderer drew from when its fence is pending.
StillRead(found, fence) ==
  [s \in Slots |->
     IF fence = "none" /\ s \in found THEN NoFrame
     ELSE IF fence = "pending" /\ s = rslot[Renderer] /\ Renderer \notin lost THEN rframe[Renderer]
     ELSE gpuReads[s]]

\* The first half of releaseWithFence; releaseReadBuffer() follows.  The
\* renderer passes no fence when EGL could not make one.
SetGpuReleaseFence ==
  /\ rpc[Renderer] = "numbered"
  /\ LET found == SlotsOf(number)
     IN  /\ \E fence \in {"none", "pending"} :
              /\ gpuReleaseFence' = [s \in Slots |-> IF s \in found THEN fence ELSE gpuReleaseFence[s]]
              /\ gpuReads' = StillRead(found, fence)
         /\ isLockedByConsumer' = [s \in Slots |-> s \notin found /\ isLockedByConsumer[s]]
  /\ rpc' = [rpc EXCEPT ![Renderer] = "fenced"]
  /\ UNCHANGED <<indexVars, valid, frameNumber, bufferVars, started, wpc, nextWrite, rslot, rframe,
                 number, lost, crossed>>

\* The GPU finishes reading a buffer.
GpuSignals ==
  /\ \E s \in Slots :
       /\ gpuReleaseFence[s] = "pending"
       /\ gpuReleaseFence' = [gpuReleaseFence EXCEPT ![s] = "signalled"]
       /\ gpuReads' = [gpuReads EXCEPT ![s] = NoFrame]
  /\ UNCHANGED <<indexVars, valid, frameNumber, isLockedByConsumer, bufferVars, started, wpc, nextWrite,
                 readerVars, lost, crossed>>

-----------------------------------------------------------------------------
ProducerNext ==
  \/ StartWrite \/ CheckFence \/ WaitFence \/ FenceTimesOut \/ CheckLock \/ LockBuffer \/ LockFails
  \/ Cancel \/ Complete \/ Publish \/ ChooseNext \/ StoreWriteIndex

ReaderNext(r) == LoadLatest(r) \/ StoreReadIndex(r) \/ LockSlot(r) \/ Release(r)

Next == \/ ProducerNext
        \/ GetFrameNumber \/ SetGpuReleaseFence \/ GpuSignals
        \/ \E r \in Readers : ReaderNext(r)

Spec == Init /\ [][Next]_vars

-----------------------------------------------------------------------------
TypeOK ==
  /\ mWriteIndex \in Slots /\ mReadIndex \in Slots /\ nextWrite \in Slots
  /\ mLatestCompleted \in Slots \cup {-1}
  /\ mFrameCounter \in 0 .. MaxFrames /\ started \in 0 .. MaxFrames
  /\ valid \in [Slots -> BOOLEAN]
  /\ frameNumber \in [Slots -> 0 .. MaxFrames]
  /\ isLockedByConsumer \in [Slots -> BOOLEAN]
  /\ gpuReleaseFence \in [Slots -> {"none", "pending", "signalled"}]
  /\ refs \in [Slots -> Int]
  /\ pixels \in [Slots -> 0 .. MaxFrames]
  /\ wpc \in ProducerSteps
  /\ rpc \in [Readers -> ReaderSteps]
  /\ rslot \in [Readers -> Slots]
  /\ rframe \in [Readers -> 0 .. MaxFrames] /\ number \in 0 .. MaxFrames
  /\ lost \subseteq Readers /\ crossed \in BOOLEAN
  /\ gpuReads \in [Slots -> 0 .. MaxFrames]

Holders(s) == {r \in Readers : rpc[r] \in HoldSteps /\ rslot[r] = s}

(* The buffer a reader holds contains one whole frame, the one its metadata *)
(* names, until it is released - for every reader the ring has not lost:    *)
(* one that stored mReadIndex before the producer looked at it (or has the  *)
(* newest slot), and that no other reader has displaced since.  The code    *)
(* claims it for all ("This prevents the camera from overwriting the buffer *)
(* the renderer is using").                                                 *)
ReaderSeesWholeFrame ==
  \A r \in Readers \ lost :
    rpc[r] \in HoldSteps => rframe[r] # NoFrame /\ pixels[rslot[r]] = rframe[r]

(* A buffer such a renderer released with a GPU fence is not written before *)
(* the fence signals, however often the renderer comes back to the slot:    *)
(* unless the 33 ms are over, or a later release took the fence away.       *)
GpuSeesWholeFrame == \A s \in Slots : gpuReads[s] # NoFrame => pixels[s] = gpuReads[s]

(* Each buffer is referenced once by the ring and once by each reader that  *)
(* holds it, and locked only while one does, as long as no two readers have *)
(* ever been at different slots: acquire and release match.  A count that   *)
(* is too low frees a buffer in use; a lock that stays stops the producer   *)
(* at that slot for ever.                                                   *)
RefsMatchHolders ==
  ~crossed =>
    \A s \in Slots :
      /\ refs[s] = 1 + Cardinality(Holders(s))
      /\ isLockedByConsumer[s] => Holders(s) # {}

(* Until then three buffers are enough: a locked slot the producer meets,   *)
(* and drops a frame for, is one whose every holder it overtook.            *)
NeverMeetsLock ==
  /\ ~crossed
  /\ wpc \in {"checkLock", "lock", "writing"}
  /\ isLockedByConsumer[mWriteIndex]
  => Holders(mWriteIndex) # {} /\ Holders(mWriteIndex) \subseteq lost

(* What is in the mailbox is whole: the slot mLatestCompleted names is not  *)
(* the one being written, and holds the frame its metadata says.            *)
MailboxIsWhole ==
  mLatestCompleted >= 0 =>
    /\ valid[mLatestCompleted]
    /\ pixels[mLatestCompleted] = frameNumber[mLatestCompleted]

-----------------------------------------------------------------------------
(* What the mailbox and the renderer's buffer contain, read from the pixels *)
(* themselves: a torn buffer counts as no frame, and so does the buffer of  *)
(* a renderer the ring has lost.                                            *)
NewestPixels == IF mLatestCompleted = -1 THEN NoFrame ELSE pixels[mLatestCompleted]
HeldPixels   == IF rpc[Renderer] # "idle" /\ Renderer \notin lost THEN pixels[rslot[Renderer]] ELSE NoFrame

(* The mailbox moves from each whole frame to the next one, skipping none   *)
(* and never going back, whatever the readers do to indices and locks.      *)
PublishesInOrder == [][NewestPixels' \in {NewestPixels, NewestPixels + 1}]_vars

Latest == INSTANCE LatestFrame WITH newest <- NewestPixels, held <- HeldPixels

(* The ring implements the mailbox: unlockWriteBuffer() publishes every     *)
(* frame exactly once and in order, acquireReadBuffer() takes the newest    *)
(* one at the instant it loads mLatestCompleted, and the buffer then keeps  *)
(* that frame until releaseReadBuffer() or until the ring loses the         *)
(* renderer, whatever the producer and the captures do meanwhile.           *)
ImplementsMailbox == Latest!Spec

==============================================================================
