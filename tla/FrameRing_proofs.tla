--------------------------- MODULE FrameRing_proofs ---------------------------
(***************************************************************************)
(* The triple buffer, for any number of frames, any number of slots from   *)
(* three up, and any number of captures beside the renderer, each of which *)
(* may be preempted anywhere.  What a reader is promised is proved until   *)
(* the ring loses it; with that exception the ring implements LatestFrame. *)
(***************************************************************************)
EXTENDS FrameRing, FiniteSetTheorems, TLAPS

USE CountAssumption, ReadersAssumption, FramesAssumption DEF Slots, NoFrame

\* The next slot is in the ring, and is neither the one before nor the one read.
LEMMA NextSlotFacts ==
  ASSUME NEW i \in Slots, NEW j \in Slots
  PROVE  NextSlot(i, j) \in Slots /\ NextSlot(i, j) # i /\ NextSlot(i, j) # j
<1>1. (i + 1) % Count = IF i = Count - 1 THEN 0 ELSE i + 1
  <2>1. Count % Count = 0
    BY SMT
  <2> QED  BY <2>1
<1>2. (i + 2) % Count = IF i = Count - 1 THEN 1 ELSE IF i = Count - 2 THEN 0 ELSE i + 2
  <2>1. Count % Count = 0 /\ (Count + 1) % Count = 1
    BY SMT
  <2> QED  BY <2>1
<1> QED  BY <1>1, <1>2 DEF NextSlot

-----------------------------------------------------------------------------
(* Types, with any readers                                                  *)

\* The frame counter is behind the frames begun, by one while a frame is being
\* written.
Counting ==
  /\ mFrameCounter <= started
  /\ wpc \notin {"idle", "publish", "choose", "advance"} => mFrameCounter < started

Typing == TypeOK /\ Counting

LEMMA InitTyping == Init => Typing
<1> SUFFICES ASSUME Init PROVE Typing  OBVIOUS
<1>0. 0 \in Slots /\ 0 \in 0 .. MaxFrames
  OBVIOUS
<1>1. /\ mWriteIndex \in Slots /\ mReadIndex \in Slots /\ nextWrite \in Slots
      /\ mLatestCompleted \in Slots \cup {-1}
  BY <1>0 DEF Init
<1>4. /\ mFrameCounter \in 0 .. MaxFrames /\ started \in 0 .. MaxFrames /\ number \in 0 .. MaxFrames
      /\ wpc \in ProducerSteps /\ lost \subseteq Readers /\ crossed \in BOOLEAN
  BY <1>0 DEF Init, ProducerSteps
<1>5. Counting
  BY DEF Init, Counting
<1>2. /\ valid \in [Slots -> BOOLEAN] /\ frameNumber \in [Slots -> 0 .. MaxFrames]
      /\ isLockedByConsumer \in [Slots -> BOOLEAN] /\ refs \in [Slots -> Int]
      /\ gpuReleaseFence \in [Slots -> {"none", "pending", "signalled"}]
      /\ pixels \in [Slots -> 0 .. MaxFrames] /\ gpuReads \in [Slots -> 0 .. MaxFrames]
  BY <1>0 DEF Init
<1>3. /\ rpc \in [Readers -> ReaderSteps] /\ rslot \in [Readers -> Slots]
      /\ rframe \in [Readers -> 0 .. MaxFrames]
  BY <1>0 DEF Init, ReaderSteps
<1> QED  BY <1>1, <1>2, <1>3, <1>4, <1>5 DEF Typing, TypeOK

LEMMA ReleaseType ==
  ASSUME TypeOK, NEW r \in Readers, Release(r)
  PROVE  refs' \in [Slots -> Int] /\ isLockedByConsumer' \in [Slots -> BOOLEAN]
<1>1. refs \in [Slots -> Int] /\ isLockedByConsumer \in [Slots -> BOOLEAN] /\ mReadIndex \in Slots
  BY DEF TypeOK
<1>2. refs[mReadIndex] - 1 \in Int
  BY <1>1
<1>3. /\ refs' = [refs EXCEPT ![mReadIndex] = refs[mReadIndex] - 1]
      /\ isLockedByConsumer' = [isLockedByConsumer EXCEPT ![mReadIndex] = FALSE]
  BY DEF Release
<1> QED  BY <1>1, <1>2, <1>3

LEMMA NextTyping == ASSUME Typing, [Next]_vars PROVE Typing'
<1> USE DEF Typing, TypeOK, Counting, ProducerSteps, ReaderSteps, HoldSteps,
     indexVars, metaVars, bufferVars, readerVars, historyVars
<1>a. \A i, j \in Slots : NextSlot(i, j) \in Slots
  BY NextSlotFacts
<1>b. Renderer \in Readers
  BY DEF Readers
<1>1. CASE StartWrite
  BY <1>1 DEF StartWrite
<1>2. CASE CheckFence
  BY <1>2 DEF CheckFence
<1>3. CASE WaitFence
  BY <1>3 DEF WaitFence
<1>4. CASE CheckLock
  BY <1>4 DEF CheckLock
<1>5. CASE LockBuffer
  BY <1>5 DEF LockBuffer
<1>6. CASE LockFails
  BY <1>6 DEF LockFails
<1>7. CASE Cancel
  BY <1>7 DEF Cancel
<1>8. CASE Complete
  <2>1. mFrameCounter + 1 \in 0 .. MaxFrames
    BY <1>8 DEF Complete
  <2>2. /\ pixels' \in [Slots -> 0 .. MaxFrames] /\ frameNumber' \in [Slots -> 0 .. MaxFrames]
        /\ valid' \in [Slots -> BOOLEAN]
    BY <1>8, <2>1 DEF Complete
  <2>3. /\ mFrameCounter' = mFrameCounter + 1 /\ started' = started /\ wpc = "writing" /\ wpc' = "publish"
        /\ UNCHANGED <<mWriteIndex, mReadIndex, nextWrite, mLatestCompleted, isLockedByConsumer,
                       gpuReleaseFence, refs, readerVars, historyVars>>
    BY <1>8 DEF Complete
  <2>4. Counting'
    BY <2>3
  <2> QED  BY <2>1, <2>2, <2>3, <2>4
<1>9. CASE Publish
  BY <1>9 DEF Publish
<1>10. CASE ChooseNext
  BY <1>10, <1>a DEF ChooseNext, Overtaken
<1>11. CASE GpuSignals
  <2>1. PICK s \in Slots : /\ gpuReleaseFence' = [gpuReleaseFence EXCEPT ![s] = "signalled"]
                           /\ gpuReads' = [gpuReads EXCEPT ![s] = 0]
    BY <1>11 DEF GpuSignals
  <2>2. /\ gpuReleaseFence' \in [Slots -> {"none", "pending", "signalled"}]
        /\ gpuReads' \in [Slots -> 0 .. MaxFrames]
    <3>1. 0 \in 0 .. MaxFrames
      OBVIOUS
    <3> QED  BY <2>1, <3>1
  <2> QED  BY <1>11, <2>2 DEF GpuSignals
<1>12. CASE SetGpuReleaseFence
  <2>1. /\ gpuReleaseFence' \in [Slots -> {"none", "pending", "signalled"}]
        /\ isLockedByConsumer' \in [Slots -> BOOLEAN]
    BY <1>12 DEF SetGpuReleaseFence
  <2>2. gpuReads' \in [Slots -> 0 .. MaxFrames]
    BY <1>12, <1>b DEF SetGpuReleaseFence, StillRead
  <2> QED  BY <1>12, <1>b, <2>1, <2>2 DEF SetGpuReleaseFence
<1>13. CASE GetFrameNumber
  BY <1>13, <1>b DEF GetFrameNumber
<1>14. ASSUME NEW r \in Readers, LoadLatest(r) PROVE Typing'
  <2>1. mLatestCompleted \in Slots
    BY <1>14 DEF LoadLatest
  <2>2. rslot' \in [Readers -> Slots]
    BY <1>14, <2>1 DEF LoadLatest
  <2>3. rpc' \in [Readers -> ReaderSteps]
    BY <1>14 DEF LoadLatest
  <2> QED  BY <1>14, <2>2, <2>3 DEF LoadLatest
<1>15. ASSUME NEW r \in Readers, StoreReadIndex(r) PROVE Typing'
  BY <1>15 DEF StoreReadIndex, Displaced
<1>16. ASSUME NEW r \in Readers, LockSlot(r) PROVE Typing'
  <2>1. /\ isLockedByConsumer' \in [Slots -> BOOLEAN] /\ rframe' \in [Readers -> 0 .. MaxFrames]
        /\ refs' \in [Slots -> Int]
    <3>1. frameNumber[rslot[r]] \in 0 .. MaxFrames /\ refs[rslot[r]] + 1 \in Int
      BY <1>16
    <3>2. /\ isLockedByConsumer' = [isLockedByConsumer EXCEPT ![rslot[r]] = TRUE]
          /\ rframe' = [rframe EXCEPT ![r] = frameNumber[rslot[r]]]
          /\ refs' = [refs EXCEPT ![rslot[r]] = refs[rslot[r]] + 1]
      BY <1>16 DEF LockSlot
    <3> QED  BY <3>1, <3>2
  <2>2. rpc' \in [Readers -> ReaderSteps]
    BY <1>16 DEF LockSlot
  <2>3. UNCHANGED <<indexVars, valid, frameNumber, gpuReleaseFence, pixels, started, wpc, nextWrite, rslot,
                    number, historyVars>>
    BY <1>16 DEF LockSlot
  <2> QED  BY <2>1, <2>2, <2>3
<1>17. ASSUME NEW r \in Readers, Release(r) PROVE Typing'
  <2>1. refs' \in [Slots -> Int] /\ isLockedByConsumer' \in [Slots -> BOOLEAN]
    BY <1>17, ReleaseType
  <2>2. rpc' \in [Readers -> ReaderSteps]
    BY <1>17 DEF Release
  <2>3. rslot' \in [Readers -> Slots] /\ rframe' \in [Readers -> 0 .. MaxFrames]
    <3>1. 0 \in Slots /\ 0 \in 0 .. MaxFrames
      OBVIOUS
    <3>2. rslot' = [rslot EXCEPT ![r] = 0] /\ rframe' = [rframe EXCEPT ![r] = 0]
      BY <1>17 DEF Release
    <3> QED  BY <3>1, <3>2
  <2>4. number' \in 0 .. MaxFrames /\ lost' \subseteq Readers
    BY <1>17 DEF Release
  <2> QED  BY <1>17, <2>1, <2>2, <2>3, <2>4 DEF Release
<1>18. CASE UNCHANGED vars
  BY <1>18 DEF vars
<1>19. CASE FenceTimesOut
  BY <1>19 DEF FenceTimesOut
<1>20. CASE StoreWriteIndex
  BY <1>20 DEF StoreWriteIndex
<1> QED
  BY <1>1, <1>2, <1>3, <1>4, <1>5, <1>6, <1>7, <1>8, <1>9, <1>10, <1>11, <1>12, <1>13, <1>14, <1>15,
     <1>16, <1>17, <1>18, <1>19, <1>20
  DEF Next, ProducerNext, ReaderNext

(* Every variable keeps its type, with any number of captures at the same  *)
(* time: the indices of lockWriteBuffer() and acquireReadBuffer() never    *)
(* leave the ring.                                                         *)
THEOREM RingTypeCorrect == Spec => []TypeOK
<1>1. Typing => TypeOK
  BY DEF Typing
<1> QED  BY InitTyping, NextTyping, <1>1, PTL DEF Spec

-----------------------------------------------------------------------------
(* The mailbox, with any readers                                            *)

\* The newest slot is never the one being written; between the two halves of
\* unlockWriteBuffer() the newest frame is the one before the last counted.
Published ==
  /\ wpc \in {"choose", "advance"} <=> mLatestCompleted = mWriteIndex
  /\ wpc = "advance" => nextWrite # mWriteIndex
  /\ wpc = "publish" => /\ valid[mWriteIndex]
                        /\ frameNumber[mWriteIndex] = mFrameCounter
                        /\ pixels[mWriteIndex] = mFrameCounter
  /\ MailboxIsWhole
  /\ NewestPixels = mFrameCounter - (IF wpc = "publish" THEN 1 ELSE 0)

LEMMA InitPublished == Init => Published
<1> SUFFICES ASSUME Init PROVE Published  OBVIOUS
<1>1. /\ mLatestCompleted = -1 /\ mWriteIndex = 0 /\ wpc = "idle" /\ mFrameCounter = 0
  BY DEF Init
<1> QED  BY <1>1 DEF Published, MailboxIsWhole, NewestPixels

\* No reader has a say in it.
LEMMA PublishedKept ==
  ASSUME Published,
         UNCHANGED <<mWriteIndex, nextWrite, mLatestCompleted, mFrameCounter, valid, frameNumber, pixels>>,
         wpc' = wpc \/ {wpc, wpc'} \cap {"publish", "choose", "advance"} = {}
  PROVE  Published'
<1>1. /\ wpc' = "choose" <=> wpc = "choose"
      /\ wpc' = "advance" <=> wpc = "advance"
      /\ wpc' = "publish" <=> wpc = "publish"
  OBVIOUS
<1>2. NewestPixels' = NewestPixels /\ MailboxIsWhole'
  BY DEF NewestPixels, MailboxIsWhole, Published
<1> QED  BY <1>1, <1>2 DEF Published

LEMMA NextPublished == ASSUME Typing, Published, [Next]_vars PROVE Published'
<1> USE DEF indexVars, metaVars, bufferVars, readerVars, historyVars
<1>t. /\ mWriteIndex \in Slots /\ mLatestCompleted \in Slots \cup {-1} /\ -1 \notin Slots
      /\ mFrameCounter \in Nat /\ pixels \in [Slots -> 0 .. MaxFrames]
      /\ valid \in [Slots -> BOOLEAN] /\ frameNumber \in [Slots -> 0 .. MaxFrames]
  BY DEF Typing, TypeOK
<1>1. CASE StartWrite \/ CheckFence \/ WaitFence \/ FenceTimesOut \/ CheckLock \/ LockFails \/ Cancel
  BY <1>1, PublishedKept DEF StartWrite, CheckFence, WaitFence, FenceTimesOut, CheckLock, LockFails, Cancel
<1>2. CASE LockBuffer
  <2>1. /\ UNCHANGED <<mWriteIndex, mLatestCompleted, mFrameCounter, valid, frameNumber>>
        /\ pixels' = [pixels EXCEPT ![mWriteIndex] = NoFrame] /\ wpc = "lock" /\ wpc' = "writing"
    BY <1>2 DEF LockBuffer
  <2>2. mLatestCompleted # mWriteIndex
    BY <2>1 DEF Published
  <2>3. mLatestCompleted # -1 => pixels'[mLatestCompleted] = pixels[mLatestCompleted]
    BY <1>t, <2>1, <2>2
  <2>4. NewestPixels' = NewestPixels /\ MailboxIsWhole'
    BY <1>t, <2>1, <2>3 DEF NewestPixels, MailboxIsWhole, Published
  <2> QED  BY <2>1, <2>2, <2>4 DEF Published
<1>3. CASE Complete
  <2>1. /\ UNCHANGED <<mWriteIndex, mLatestCompleted>> /\ mFrameCounter' = mFrameCounter + 1
        /\ wpc = "writing" /\ wpc' = "publish"
    BY <1>3 DEF Complete
  <2>2. /\ valid'[mWriteIndex] /\ frameNumber'[mWriteIndex] = mFrameCounter'
        /\ pixels'[mWriteIndex] = mFrameCounter'
    BY <1>3, <1>t DEF Complete
  <2>3. mLatestCompleted # mWriteIndex
    BY <2>1 DEF Published
  <2>4. mLatestCompleted # -1 => /\ pixels'[mLatestCompleted] = pixels[mLatestCompleted]
                                /\ valid'[mLatestCompleted] = valid[mLatestCompleted]
                                /\ frameNumber'[mLatestCompleted] = frameNumber[mLatestCompleted]
    BY <1>3, <1>t, <2>3 DEF Complete
  <2>5. NewestPixels' = NewestPixels /\ MailboxIsWhole'
    BY <1>t, <2>1, <2>4 DEF NewestPixels, MailboxIsWhole, Published
  <2>6. NewestPixels = mFrameCounter
    BY <1>t, <2>1 DEF Published
  <2>7. NewestPixels' = mFrameCounter' - (IF wpc' = "publish" THEN 1 ELSE 0)
    BY <1>t, <2>1, <2>5, <2>6
  <2> QED  BY <2>1, <2>2, <2>3, <2>5, <2>7 DEF Published
<1>4. CASE Publish
  <2>1. /\ UNCHANGED <<mWriteIndex, mFrameCounter, valid, frameNumber, pixels>>
        /\ mLatestCompleted' = mWriteIndex /\ wpc = "publish" /\ wpc' = "choose"
    BY <1>4 DEF Publish
  <2>2. NewestPixels' = mFrameCounter /\ MailboxIsWhole'
    BY <1>t, <2>1 DEF NewestPixels, MailboxIsWhole, Published
  <2> QED  BY <1>t, <2>1, <2>2 DEF Published
<1>5. CASE ChooseNext
  <2>1. /\ UNCHANGED <<mWriteIndex, mLatestCompleted, mFrameCounter, valid, frameNumber, pixels>>
        /\ nextWrite' = NextSlot(mWriteIndex, mReadIndex) /\ wpc = "choose" /\ wpc' = "advance"
    BY <1>5 DEF ChooseNext
  <2>2. nextWrite' # mWriteIndex'
    BY <2>1, NextSlotFacts DEF Typing, TypeOK
  <2>3. NewestPixels' = NewestPixels /\ MailboxIsWhole'
    BY <2>1 DEF NewestPixels, MailboxIsWhole, Published
  <2> QED  BY <2>1, <2>2, <2>3 DEF Published
<1>6. CASE StoreWriteIndex
  <2>1. /\ UNCHANGED <<mLatestCompleted, mFrameCounter, valid, frameNumber, pixels>>
        /\ mWriteIndex' = nextWrite /\ wpc = "advance" /\ wpc' = "idle"
    BY <1>6 DEF StoreWriteIndex
  <2>2. mWriteIndex' # mLatestCompleted
    BY <2>1 DEF Published
  <2>3. NewestPixels' = NewestPixels /\ MailboxIsWhole'
    BY <2>1 DEF NewestPixels, MailboxIsWhole, Published
  <2> QED  BY <2>1, <2>2, <2>3 DEF Published
<1>7. CASE GpuSignals \/ SetGpuReleaseFence \/ GetFrameNumber
  BY <1>7, PublishedKept DEF GpuSignals, SetGpuReleaseFence, GetFrameNumber
<1>8. ASSUME NEW r \in Readers, ReaderNext(r)
      PROVE  Published'
  BY <1>8, PublishedKept DEF ReaderNext, LoadLatest, StoreReadIndex, LockSlot, Release
<1>9. CASE UNCHANGED vars
  BY <1>9, PublishedKept DEF vars
<1> QED
  BY <1>1, <1>2, <1>3, <1>4, <1>5, <1>6, <1>7, <1>8, <1>9 DEF Next, ProducerNext

(* The mailbox always holds a whole frame: with any number of captures     *)
(* next to the renderer, readers the ring has lost, fences that time out   *)
(* and frames that are cancelled or dropped.                               *)
THEOREM RingMailboxWhole == Spec => []MailboxIsWhole
<1>1. Published => MailboxIsWhole
  BY DEF Published
<1>2. Typing /\ Published /\ [Next]_vars => (Typing /\ Published)'
  BY NextTyping, NextPublished
<1> QED  BY InitTyping, InitPublished, <1>1, <1>2, PTL DEF Spec

(* And it goes from each frame to the next: unlockWriteBuffer() publishes  *)
(* no frame twice, skips none and never goes back, whatever the readers do.*)
THEOREM RingPublishesInOrder == Spec => PublishesInOrder
<1>1. Typing /\ Published /\ Published' /\ [Next]_vars
        => [NewestPixels' \in {NewestPixels, NewestPixels + 1}]_vars
  <2> SUFFICES ASSUME Typing, Published, Published', Next
               PROVE  NewestPixels' \in {NewestPixels, NewestPixels + 1}
    OBVIOUS
  <2> USE DEF indexVars, metaVars, bufferVars, readerVars, historyVars
  <2>t. mFrameCounter \in Nat
    BY DEF Typing, TypeOK
  <2>1. \/ mFrameCounter' = mFrameCounter /\ (wpc' = "publish" <=> wpc = "publish")
        \/ mFrameCounter' = mFrameCounter + 1 /\ wpc = "writing" /\ wpc' = "publish"
        \/ mFrameCounter' = mFrameCounter /\ wpc = "publish" /\ wpc' = "choose"
    <3>1. CASE StartWrite \/ CheckFence \/ WaitFence \/ FenceTimesOut \/ CheckLock \/ LockFails \/ Cancel
      BY <3>1 DEF StartWrite, CheckFence, WaitFence, FenceTimesOut, CheckLock, LockFails, Cancel
    <3>2. CASE LockBuffer \/ Complete \/ Publish \/ ChooseNext \/ StoreWriteIndex
      BY <3>2 DEF LockBuffer, Complete, Publish, ChooseNext, StoreWriteIndex
    <3>3. CASE GpuSignals \/ SetGpuReleaseFence \/ GetFrameNumber
      BY <3>3 DEF GpuSignals, SetGpuReleaseFence, GetFrameNumber
    <3>4. ASSUME NEW r \in Readers, ReaderNext(r)
          PROVE  mFrameCounter' = mFrameCounter /\ wpc' = wpc
      BY <3>4 DEF ReaderNext, LoadLatest, StoreReadIndex, LockSlot, Release
    <3> QED  BY <3>1, <3>2, <3>3, <3>4 DEF Next, ProducerNext
  <2>2. /\ NewestPixels = mFrameCounter - (IF wpc = "publish" THEN 1 ELSE 0)
        /\ NewestPixels' = mFrameCounter' - (IF wpc' = "publish" THEN 1 ELSE 0)
    BY DEF Published
  <2> QED  BY <2>t, <2>1, <2>2
<1>2. Typing /\ Published /\ [Next]_vars => (Typing /\ Published)'
  BY NextTyping, NextPublished
<1> QED  BY InitTyping, InitPublished, <1>1, <1>2, PTL DEF Spec, PublishesInOrder

-----------------------------------------------------------------------------
(* The readers the ring has not lost                                        *)

\* Seen(r): the ring still protects the slot r has chosen.
Seen(r) == r \notin lost /\ rpc[r] # "idle"

\* A reader that has not stored its slot has chosen the newest one, which the
\* producer never takes next (or the producer has yet to look: "choose"); one
\* that has stored it is the one mReadIndex speaks of.  Neither's slot is the
\* one written to or moved to.
Shielded ==
  \A r \in Readers :
    Seen(r) =>
      /\ rpc[r] = "loaded" => rslot[r] = mLatestCompleted \/ wpc = "choose"
      /\ Marked(r) => rslot[r] = mReadIndex
      /\ wpc \notin {"choose", "advance"} => rslot[r] # mWriteIndex
      /\ wpc = "advance" => rslot[r] # nextWrite

LEMMA InitShielded == Init => Shielded
  BY DEF Init, Shielded, Seen

\* Steps that move neither indices nor readers, and gain no reader.
LEMMA ShieldedKept ==
  ASSUME Shielded, UNCHANGED <<mWriteIndex, mReadIndex, mLatestCompleted, nextWrite, rslot>>,
         wpc' = wpc \/ {wpc, wpc'} \cap {"choose", "advance"} = {},
         \A r \in Readers : /\ Seen(r)' => Seen(r)
                            /\ rpc'[r] = "loaded" => rpc[r] = "loaded"
                            /\ Marked(r)' => Marked(r)
  PROVE  Shielded'
<1> SUFFICES ASSUME NEW r \in Readers, Seen(r)'
             PROVE  /\ rpc'[r] = "loaded" => rslot'[r] = mLatestCompleted' \/ wpc' = "choose"
                    /\ Marked(r)' => rslot'[r] = mReadIndex'
                    /\ wpc' \notin {"choose", "advance"} => rslot'[r] # mWriteIndex'
                    /\ wpc' = "advance" => rslot'[r] # nextWrite'
  BY DEF Shielded
<1>1. Seen(r)
  OBVIOUS
<1>2. /\ wpc' = "choose" <=> wpc = "choose"
      /\ wpc' = "advance" <=> wpc = "advance"
  OBVIOUS
<1> QED  BY <1>1, <1>2 DEF Shielded

LEMMA NextShielded == ASSUME Typing, Published, Shielded, [Next]_vars PROVE Shielded'
<1> USE DEF indexVars, metaVars, bufferVars, readerVars, historyVars, HoldSteps
<1>t. /\ mWriteIndex \in Slots /\ mReadIndex \in Slots /\ nextWrite \in Slots
      /\ rpc \in [Readers -> ReaderSteps] /\ rslot \in [Readers -> Slots] /\ Renderer \in Readers
  BY DEF Typing, TypeOK, Readers
<1>1. CASE StartWrite \/ CheckFence \/ WaitFence \/ FenceTimesOut \/ CheckLock
  BY <1>1, ShieldedKept DEF StartWrite, CheckFence, WaitFence, FenceTimesOut, CheckLock, Seen, Marked
<1>2. CASE LockBuffer \/ LockFails \/ Cancel \/ Complete \/ GpuSignals
  BY <1>2, ShieldedKept DEF LockBuffer, LockFails, Cancel, Complete, GpuSignals, Seen, Marked
<1>3. CASE Publish
  <2>1. /\ UNCHANGED <<mWriteIndex, mReadIndex, rslot, rpc, lost>> /\ wpc = "publish" /\ wpc' = "choose"
    BY <1>3 DEF Publish
  <2> QED  BY <2>1 DEF Shielded, Seen, Marked
<1>4. CASE ChooseNext
  <2>1. /\ UNCHANGED <<mWriteIndex, mReadIndex, mLatestCompleted, rslot, rpc>>
        /\ nextWrite' = NextSlot(mWriteIndex, mReadIndex) /\ lost' = lost \cup Overtaken
        /\ wpc = "choose" /\ wpc' = "advance"
    BY <1>4 DEF ChooseNext
  <2>2. nextWrite' # mLatestCompleted /\ nextWrite' # mReadIndex
    BY <1>t, <2>1, NextSlotFacts DEF Published
  <2> SUFFICES ASSUME NEW r \in Readers, Seen(r)'
               PROVE  /\ rpc'[r] = "loaded" => rslot'[r] = mLatestCompleted'
                      /\ Marked(r)' => rslot'[r] = mReadIndex'
                      /\ rslot'[r] # nextWrite'
    BY <2>1 DEF Shielded
  <2>3. Seen(r) /\ (rpc[r] = "loaded" => rslot[r] = mLatestCompleted)
    BY <2>1 DEF Seen, Overtaken
  <2>4. Marked(r) => rslot[r] = mReadIndex
    BY <2>3 DEF Shielded
  <2>5. rpc[r] = "loaded" \/ Marked(r)
    BY <1>t, <2>3 DEF Seen, Marked, ReaderSteps
  <2> QED  BY <2>1, <2>2, <2>3, <2>4, <2>5 DEF Marked
<1>5. CASE StoreWriteIndex
  <2>1. /\ UNCHANGED <<mReadIndex, mLatestCompleted, rslot, rpc, lost>>
        /\ mWriteIndex' = nextWrite /\ wpc = "advance" /\ wpc' = "idle"
    BY <1>5 DEF StoreWriteIndex
  <2> QED  BY <2>1 DEF Shielded, Seen, Marked
<1>6. CASE GetFrameNumber \/ SetGpuReleaseFence
  <2>1. /\ UNCHANGED <<mWriteIndex, mReadIndex, mLatestCompleted, nextWrite, wpc, rslot, lost>>
        /\ rpc[Renderer] \in HoldSteps
        /\ \E step \in HoldSteps : rpc' = [rpc EXCEPT ![Renderer] = step]
    BY <1>6 DEF GetFrameNumber, SetGpuReleaseFence
  <2>2. \A r \in Readers : /\ Seen(r)' => Seen(r)
                           /\ rpc'[r] = "loaded" => rpc[r] = "loaded"
                           /\ Marked(r)' => Marked(r)
    BY <1>t, <2>1 DEF Seen, Marked
  <2> QED  BY <2>1, <2>2, ShieldedKept
<1>7. ASSUME NEW q \in Readers, LoadLatest(q) PROVE Shielded'
  <2>1. /\ UNCHANGED <<mWriteIndex, mReadIndex, mLatestCompleted, nextWrite, wpc, lost>>
        /\ rslot' = [rslot EXCEPT ![q] = mLatestCompleted] /\ rpc' = [rpc EXCEPT ![q] = "loaded"]
    BY <1>7 DEF LoadLatest
  <2>2. /\ wpc \notin {"choose", "advance"} => mLatestCompleted # mWriteIndex
        /\ wpc = "advance" => mLatestCompleted # nextWrite
    BY DEF Published
  <2> SUFFICES ASSUME NEW r \in Readers, Seen(r)'
               PROVE  /\ rpc'[r] = "loaded" => rslot'[r] = mLatestCompleted' \/ wpc' = "choose"
                      /\ Marked(r)' => rslot'[r] = mReadIndex'
                      /\ wpc' \notin {"choose", "advance"} => rslot'[r] # mWriteIndex'
                      /\ wpc' = "advance" => rslot'[r] # nextWrite'
    BY DEF Shielded
  <2>3. CASE r = q
    BY <1>t, <2>1, <2>2, <2>3 DEF Marked
  <2>4. CASE r # q
    <3>1. rpc'[r] = rpc[r] /\ rslot'[r] = rslot[r]
      BY <1>t, <2>1, <2>4
    <3> QED  BY <2>1, <3>1 DEF Shielded, Seen, Marked
  <2> QED  BY <2>3, <2>4
<1>8. ASSUME NEW q \in Readers, StoreReadIndex(q) PROVE Shielded'
  <2>1. /\ UNCHANGED <<mWriteIndex, mLatestCompleted, nextWrite, wpc, rslot>>
        /\ mReadIndex' = rslot[q] /\ lost' = lost \cup Displaced(q)
        /\ rpc[q] = "loaded" /\ rpc' = [rpc EXCEPT ![q] = "marked"]
    BY <1>8 DEF StoreReadIndex
  <2> SUFFICES ASSUME NEW r \in Readers, Seen(r)'
               PROVE  /\ rpc'[r] = "loaded" => rslot'[r] = mLatestCompleted' \/ wpc' = "choose"
                      /\ Marked(r)' => rslot'[r] = mReadIndex'
                      /\ wpc' \notin {"choose", "advance"} => rslot'[r] # mWriteIndex'
                      /\ wpc' = "advance" => rslot'[r] # nextWrite'
    BY DEF Shielded
  <2>2. CASE r = q
    <3>1. Seen(q) /\ rpc'[q] = "marked"
      BY <1>t, <2>1, <2>2 DEF Seen
    <3> QED  BY <2>1, <2>2, <3>1 DEF Shielded
  <2>3. CASE r # q
    <3>1. rpc'[r] = rpc[r] /\ Seen(r) /\ r \notin Displaced(q)
      BY <1>t, <2>1, <2>3 DEF Seen
    <3>2. Marked(r) => rslot[r] = rslot[q]
      BY <3>1, <2>3 DEF Displaced
    <3> QED  BY <2>1, <3>1, <3>2 DEF Shielded, Marked
  <2> QED  BY <2>2, <2>3
<1>9. ASSUME NEW q \in Readers, LockSlot(q) PROVE Shielded'
  <2>1. /\ UNCHANGED <<mWriteIndex, mReadIndex, mLatestCompleted, nextWrite, wpc, rslot, lost>>
        /\ rpc[q] = "marked" /\ rpc' = [rpc EXCEPT ![q] = "holding"]
    BY <1>9 DEF LockSlot
  <2>2. \A r \in Readers : /\ Seen(r)' => Seen(r)
                           /\ rpc'[r] = "loaded" => rpc[r] = "loaded"
                           /\ Marked(r)' => Marked(r)
    BY <1>t, <2>1 DEF Seen, Marked
  <2> QED  BY <2>1, <2>2, ShieldedKept
<1>10. ASSUME NEW q \in Readers, Release(q) PROVE Shielded'
  <2>1. /\ UNCHANGED <<mWriteIndex, mReadIndex, mLatestCompleted, nextWrite, wpc>>
        /\ rslot' = [rslot EXCEPT ![q] = 0] /\ rpc' = [rpc EXCEPT ![q] = "idle"] /\ lost' = lost \ {q}
    BY <1>10 DEF Release
  <2> SUFFICES ASSUME NEW r \in Readers, Seen(r)'
               PROVE  /\ rpc'[r] = "loaded" => rslot'[r] = mLatestCompleted' \/ wpc' = "choose"
                      /\ Marked(r)' => rslot'[r] = mReadIndex'
                      /\ wpc' \notin {"choose", "advance"} => rslot'[r] # mWriteIndex'
                      /\ wpc' = "advance" => rslot'[r] # nextWrite'
    BY DEF Shielded
  <2>2. r # q
    BY <1>t, <2>1 DEF Seen
  <2>3. rpc'[r] = rpc[r] /\ rslot'[r] = rslot[r] /\ Seen(r)
    BY <1>t, <2>1, <2>2 DEF Seen
  <2> QED  BY <2>1, <2>3 DEF Shielded, Marked
<1>11. CASE UNCHANGED vars
  BY <1>11, ShieldedKept DEF vars, Seen, Marked
<1> QED
  BY <1>1, <1>2, <1>3, <1>4, <1>5, <1>6, <1>7, <1>8, <1>9, <1>10, <1>11 DEF Next, ProducerNext, ReaderNext

-----------------------------------------------------------------------------
(* Their buffers                                                            *)

\* A valid slot holds the frame its metadata names, unless it is the one being
\* rewritten; a reader the ring protects knows the frame of its slot.
Whole ==
  /\ \A s \in Slots :
       valid[s] => /\ frameNumber[s] > 0
                   /\ \/ pixels[s] = frameNumber[s]
                      \/ s = mWriteIndex /\ wpc \notin {"publish", "choose", "advance"}
  /\ \A r \in Readers :
       Seen(r) => /\ valid[rslot[r]]
                  /\ rpc[r] \in HoldSteps => rframe[r] = frameNumber[rslot[r]]
  /\ Seen(Renderer) /\ rpc[Renderer] \in {"numbered", "fenced"} => number = frameNumber[rslot[Renderer]]

LEMMA InitWhole == Init => Whole
  BY DEF Init, Whole, Seen, Readers

LEMMA SeenIsWhole ==
  ASSUME Typing, Shielded, Whole, NEW r \in Readers, Seen(r)
  PROVE  /\ rslot[r] \in Slots /\ valid[rslot[r]]
         /\ frameNumber[rslot[r]] > 0 /\ pixels[rslot[r]] = frameNumber[rslot[r]]
         /\ wpc \in {"checkLock", "lock", "writing"} => rslot[r] # mWriteIndex
<1>1. rslot[r] \in Slots
  BY DEF Typing, TypeOK
<1>2. wpc \notin {"choose", "advance"} => rslot[r] # mWriteIndex
  BY DEF Shielded
<1> QED  BY <1>1, <1>2 DEF Whole

\* Steps that neither change frames nor begin or end the write of one, and by
\* which no reader learns anything.
LEMMA WholeKept ==
  ASSUME Whole, UNCHANGED <<mWriteIndex, valid, frameNumber, pixels, rslot, rframe, number>>,
         wpc' = wpc \/ {wpc, wpc'} \cap {"publish", "choose", "advance"} = {}
                    \/ {wpc, wpc'} \subseteq {"publish", "choose", "advance"},
         \A r \in Readers : Seen(r)' => Seen(r) /\ (rpc'[r] \in HoldSteps => rpc[r] \in HoldSteps),
         rpc'[Renderer] \in {"numbered", "fenced"} => rpc[Renderer] \in {"numbered", "fenced"}
  PROVE  Whole'
<1>1. wpc' \in {"publish", "choose", "advance"} <=> wpc \in {"publish", "choose", "advance"}
  OBVIOUS
<1>2. \A s \in Slots :
        valid'[s] => /\ frameNumber'[s] > 0
                     /\ \/ pixels'[s] = frameNumber'[s]
                        \/ s = mWriteIndex' /\ wpc' \notin {"publish", "choose", "advance"}
  BY <1>1 DEF Whole
<1>3. \A r \in Readers :
        Seen(r)' => /\ valid'[rslot'[r]]
                    /\ rpc'[r] \in HoldSteps => rframe'[r] = frameNumber'[rslot'[r]]
  BY DEF Whole
<1>4. Seen(Renderer)' /\ rpc'[Renderer] \in {"numbered", "fenced"}
        => number' = frameNumber'[rslot'[Renderer]]
  BY DEF Whole, Readers
<1> QED  BY <1>2, <1>3, <1>4 DEF Whole

LEMMA NextWhole == ASSUME Typing, Published, Shielded, Whole, [Next]_vars PROVE Whole'
<1> USE DEF indexVars, metaVars, bufferVars, readerVars, historyVars, HoldSteps
<1>c. mFrameCounter \in Nat
  BY DEF Typing, TypeOK
<1>t. /\ mWriteIndex \in Slots /\ mReadIndex \in Slots
      /\ valid \in [Slots -> BOOLEAN] /\ frameNumber \in [Slots -> 0 .. MaxFrames]
      /\ pixels \in [Slots -> 0 .. MaxFrames]
      /\ rpc \in [Readers -> ReaderSteps] /\ rslot \in [Readers -> Slots]
      /\ rframe \in [Readers -> 0 .. MaxFrames] /\ Renderer \in Readers
  BY DEF Typing, TypeOK, Readers
<1>1. CASE StartWrite \/ CheckFence \/ WaitFence \/ FenceTimesOut \/ CheckLock \/ LockFails \/ Cancel
  BY <1>1, WholeKept
  DEF StartWrite, CheckFence, WaitFence, FenceTimesOut, CheckLock, LockFails, Cancel, Seen
<1>2. CASE GpuSignals \/ Publish
  BY <1>2, WholeKept DEF GpuSignals, Publish, Seen
<1>3. CASE ChooseNext
  <2>1. /\ UNCHANGED <<mWriteIndex, valid, frameNumber, pixels, rslot, rframe, number, rpc>>
        /\ wpc = "choose" /\ wpc' = "advance" /\ lost' = lost \cup Overtaken
    BY <1>3 DEF ChooseNext
  <2>2. \A r \in Readers : Seen(r)' => Seen(r)
    BY <2>1 DEF Seen
  <2> QED  BY <2>1, <2>2, WholeKept
<1>4. CASE StoreWriteIndex
  <2>1. /\ UNCHANGED <<valid, frameNumber, pixels, rslot, rframe, number, rpc, lost>>
        /\ wpc = "advance" /\ wpc' = "idle"
    BY <1>4 DEF StoreWriteIndex
  <2> QED  BY <2>1 DEF Whole, Seen
<1>5. CASE LockBuffer
  <2>1. /\ UNCHANGED <<mWriteIndex, valid, frameNumber, rslot, rframe, number, rpc, lost>>
        /\ pixels' = [pixels EXCEPT ![mWriteIndex] = NoFrame] /\ wpc = "lock" /\ wpc' = "writing"
    BY <1>5 DEF LockBuffer
  <2>2. \A s \in Slots : s # mWriteIndex => pixels'[s] = pixels[s]
    BY <1>t, <2>1
  <2> QED  BY <2>1, <2>2 DEF Whole, Seen
<1>6. CASE Complete
  <2>1. /\ UNCHANGED <<mWriteIndex, rslot, rframe, number, rpc, lost>> /\ wpc = "writing" /\ wpc' = "publish"
    BY <1>6 DEF Complete
  <2>2. /\ pixels'[mWriteIndex] = mFrameCounter + 1 /\ frameNumber'[mWriteIndex] = mFrameCounter + 1
        /\ \A s \in Slots : s # mWriteIndex => /\ pixels'[s] = pixels[s] /\ frameNumber'[s] = frameNumber[s]
                                               /\ valid'[s] = valid[s]
    BY <1>6, <1>t DEF Complete
  <2>3. \A r \in Readers : Seen(r) => rslot[r] \in Slots /\ rslot[r] # mWriteIndex
    BY <2>1, <1>t DEF Shielded
  <2>4. \A s \in Slots : valid'[s] => frameNumber'[s] > 0 /\ pixels'[s] = frameNumber'[s]
    <3>1. frameNumber'[mWriteIndex] > 0 /\ pixels'[mWriteIndex] = frameNumber'[mWriteIndex]
      BY <1>c, <2>2
    <3>2. \A s \in Slots : s # mWriteIndex /\ valid[s] => frameNumber[s] > 0 /\ pixels[s] = frameNumber[s]
      BY DEF Whole
    <3> QED  BY <2>2, <3>1, <3>2
  <2>5. \A r \in Readers : Seen(r)' => Seen(r)
    BY <2>1 DEF Seen
  <2>6. \A r \in Readers :
          Seen(r)' => /\ valid'[rslot'[r]]
                      /\ rpc'[r] \in HoldSteps => rframe'[r] = frameNumber'[rslot'[r]]
    BY <2>1, <2>2, <2>3, <2>5 DEF Whole
  <2>7. Seen(Renderer)' /\ rpc'[Renderer] \in {"numbered", "fenced"}
          => number' = frameNumber'[rslot'[Renderer]]
    BY <1>t, <2>1, <2>2, <2>3, <2>5 DEF Whole
  <2> QED  BY <2>1, <2>4, <2>6, <2>7 DEF Whole
<1>7. CASE GetFrameNumber
  <2>1. /\ UNCHANGED <<mWriteIndex, mReadIndex, valid, frameNumber, pixels, wpc, rslot, rframe, lost>>
        /\ number' = frameNumber[mReadIndex] /\ rpc[Renderer] = "holding"
        /\ rpc' = [rpc EXCEPT ![Renderer] = "numbered"]
    BY <1>7 DEF GetFrameNumber
  <2>2. Seen(Renderer) => rslot[Renderer] = mReadIndex
    BY <1>t, <2>1 DEF Shielded, Marked
  <2>3. \A r \in Readers : /\ Seen(r)' <=> Seen(r)
                           /\ rpc'[r] \in HoldSteps <=> rpc[r] \in HoldSteps
    BY <1>t, <2>1 DEF Seen
  <2> QED  BY <1>t, <2>1, <2>2, <2>3 DEF Whole
<1>8. CASE SetGpuReleaseFence
  <2>1. /\ UNCHANGED <<mWriteIndex, valid, frameNumber, pixels, wpc, rslot, rframe, number, lost>>
        /\ rpc[Renderer] = "numbered" /\ rpc' = [rpc EXCEPT ![Renderer] = "fenced"]
    BY <1>8 DEF SetGpuReleaseFence
  <2>2. \A r \in Readers : Seen(r)' => Seen(r) /\ (rpc'[r] \in HoldSteps => rpc[r] \in HoldSteps)
    BY <1>t, <2>1 DEF Seen
  <2> QED  BY <2>1, <2>2, WholeKept
<1>9. ASSUME NEW q \in Readers, LoadLatest(q) PROVE Whole'
  <2>1. /\ UNCHANGED <<mWriteIndex, valid, frameNumber, pixels, wpc, rframe, number, lost>>
        /\ rslot' = [rslot EXCEPT ![q] = mLatestCompleted] /\ rpc' = [rpc EXCEPT ![q] = "loaded"]
        /\ valid[mLatestCompleted]
    BY <1>9 DEF LoadLatest
  <2>2. /\ rpc'[q] = "loaded" /\ rslot'[q] = mLatestCompleted
        /\ \A r \in Readers : r # q => rpc'[r] = rpc[r] /\ rslot'[r] = rslot[r]
    BY <1>t, <2>1
  <2>3. \A r \in Readers :
          Seen(r)' => /\ valid'[rslot'[r]]
                      /\ rpc'[r] \in HoldSteps => rframe'[r] = frameNumber'[rslot'[r]]
    BY <2>1, <2>2 DEF Whole, Seen
  <2>4. Seen(Renderer)' /\ rpc'[Renderer] \in {"numbered", "fenced"}
          => number' = frameNumber'[rslot'[Renderer]]
    BY <1>t, <2>1, <2>2 DEF Whole, Seen
  <2> QED  BY <2>1, <2>3, <2>4 DEF Whole
<1>10. ASSUME NEW q \in Readers, StoreReadIndex(q) PROVE Whole'
  <2>1. /\ UNCHANGED <<mWriteIndex, valid, frameNumber, pixels, wpc, rslot, rframe, number>>
        /\ lost' = lost \cup Displaced(q) /\ rpc[q] = "loaded" /\ rpc' = [rpc EXCEPT ![q] = "marked"]
    BY <1>10 DEF StoreReadIndex
  <2>2. \A r \in Readers : Seen(r)' => Seen(r) /\ (rpc'[r] \in HoldSteps => rpc[r] \in HoldSteps)
    BY <1>t, <2>1 DEF Seen
  <2>3. rpc'[Renderer] \in {"numbered", "fenced"} => rpc[Renderer] \in {"numbered", "fenced"}
    BY <1>t, <2>1
  <2> QED  BY <2>1, <2>2, <2>3, WholeKept
<1>11. ASSUME NEW q \in Readers, LockSlot(q) PROVE Whole'
  <2>1. /\ UNCHANGED <<mWriteIndex, valid, frameNumber, pixels, wpc, rslot, number, lost>>
        /\ rframe' = [rframe EXCEPT ![q] = frameNumber[rslot[q]]]
        /\ rpc[q] = "marked" /\ rpc' = [rpc EXCEPT ![q] = "holding"]
    BY <1>11 DEF LockSlot
  <2>2. /\ rpc'[q] = "holding" /\ rframe'[q] = frameNumber[rslot[q]]
        /\ \A r \in Readers : r # q => rpc'[r] = rpc[r] /\ rframe'[r] = rframe[r]
    BY <1>t, <2>1
  <2>3. \A r \in Readers : Seen(r)' => Seen(r)
    BY <2>1, <2>2 DEF Seen
  <2>4. \A r \in Readers :
          Seen(r)' => /\ valid'[rslot'[r]]
                      /\ rpc'[r] \in HoldSteps => rframe'[r] = frameNumber'[rslot'[r]]
    BY <2>1, <2>2, <2>3 DEF Whole
  <2>5. Seen(Renderer)' /\ rpc'[Renderer] \in {"numbered", "fenced"}
          => number' = frameNumber'[rslot'[Renderer]]
    BY <1>t, <2>1, <2>2, <2>3 DEF Whole
  <2> QED  BY <2>1, <2>4, <2>5 DEF Whole
<1>12. ASSUME NEW q \in Readers, Release(q) PROVE Whole'
  <2>1. /\ UNCHANGED <<mWriteIndex, valid, frameNumber, pixels, wpc>>
        /\ rslot' = [rslot EXCEPT ![q] = 0] /\ rframe' = [rframe EXCEPT ![q] = NoFrame]
        /\ number' = IF q = Renderer THEN NoFrame ELSE number
        /\ lost' = lost \ {q} /\ rpc' = [rpc EXCEPT ![q] = "idle"]
    BY <1>12 DEF Release
  <2>2. rpc'[q] = "idle" /\ \A r \in Readers : r # q => /\ rpc'[r] = rpc[r] /\ rframe'[r] = rframe[r]
                                                        /\ rslot'[r] = rslot[r]
    BY <1>t, <2>1
  <2>3. \A r \in Readers : Seen(r)' => Seen(r) /\ r # q
    BY <2>1, <2>2 DEF Seen
  <2>4. \A r \in Readers :
          Seen(r)' => /\ valid'[rslot'[r]]
                      /\ rpc'[r] \in HoldSteps => rframe'[r] = frameNumber'[rslot'[r]]
    BY <2>1, <2>2, <2>3 DEF Whole
  <2>5. Seen(Renderer)' /\ rpc'[Renderer] \in {"numbered", "fenced"}
          => number' = frameNumber'[rslot'[Renderer]]
    BY <1>t, <2>1, <2>2, <2>3 DEF Whole
  <2> QED  BY <2>1, <2>4, <2>5 DEF Whole
<1>13. CASE UNCHANGED vars
  BY <1>13, WholeKept DEF vars, Seen
<1> QED
  BY <1>1, <1>2, <1>3, <1>4, <1>5, <1>6, <1>7, <1>8, <1>9, <1>10, <1>11, <1>12, <1>13
  DEF Next, ProducerNext, ReaderNext

-----------------------------------------------------------------------------
(* What the GPU reads                                                       *)

\* The fence of what is still read is pending at its slot, and the producer has
\* not gone past it.
Fenced ==
  \A s \in Slots :
    gpuReads[s] # NoFrame =>
      /\ gpuReleaseFence[s] = "pending"
      /\ pixels[s] = gpuReads[s]
      /\ ~(s = mWriteIndex /\ wpc \in {"checkLock", "lock", "writing"})

LEMMA InitFenced == Init => Fenced
  BY DEF Init, Fenced

LEMMA FencedKept ==
  ASSUME Fenced, UNCHANGED <<mWriteIndex, gpuReads, gpuReleaseFence, pixels>>,
         wpc' \in {"checkLock", "lock", "writing"} => wpc \in {"checkLock", "lock", "writing"}
  PROVE  Fenced'
  BY DEF Fenced

LEMMA NextFenced == ASSUME Typing, Shielded, Whole, Fenced, [Next]_vars PROVE Fenced'
<1> USE DEF indexVars, metaVars, bufferVars, readerVars, historyVars
<1>t. /\ mWriteIndex \in Slots /\ Renderer \in Readers /\ pixels \in [Slots -> 0 .. MaxFrames]
      /\ gpuReleaseFence \in [Slots -> {"none", "pending", "signalled"}]
      /\ gpuReads \in [Slots -> 0 .. MaxFrames]
  BY DEF Typing, TypeOK, Readers
<1>1. CASE StartWrite \/ LockFails \/ CheckLock \/ Cancel \/ Publish \/ ChooseNext
  BY <1>1, FencedKept DEF StartWrite, LockFails, CheckLock, Cancel, Publish, ChooseNext
<1>2. CASE CheckFence
  <2>1. /\ UNCHANGED <<mWriteIndex, gpuReads, gpuReleaseFence, pixels>>
        /\ \/ wpc' = "waitFence"
           \/ wpc' = "checkLock" /\ gpuReleaseFence[mWriteIndex] = "none"
    BY <1>2 DEF CheckFence
  <2> QED  BY <2>1 DEF Fenced
<1>3. CASE WaitFence \/ FenceTimesOut
  <2>1. /\ UNCHANGED <<mWriteIndex, pixels>> /\ wpc' = "lock"
        /\ gpuReleaseFence' = [gpuReleaseFence EXCEPT ![mWriteIndex] = "none"]
        /\ \/ gpuReads' = gpuReads /\ gpuReleaseFence[mWriteIndex] = "signalled"
           \/ gpuReads' = [gpuReads EXCEPT ![mWriteIndex] = NoFrame]
    BY <1>3 DEF WaitFence, FenceTimesOut
  <2>2. gpuReads'[mWriteIndex] = NoFrame
    BY <1>t, <2>1 DEF Fenced
  <2>3. \A s \in Slots : s # mWriteIndex => /\ gpuReads'[s] = gpuReads[s]
                                            /\ gpuReleaseFence'[s] = gpuReleaseFence[s]
    BY <1>t, <2>1
  <2> QED  BY <2>1, <2>2, <2>3 DEF Fenced
<1>4. CASE LockBuffer \/ Complete
  <2>1. /\ UNCHANGED <<mWriteIndex, gpuReads, gpuReleaseFence>> /\ wpc \in {"lock", "writing"}
        /\ \E p : pixels' = [pixels EXCEPT ![mWriteIndex] = p]
    BY <1>4 DEF LockBuffer, Complete
  <2>2. gpuReads[mWriteIndex] = NoFrame
    BY <1>t, <2>1 DEF Fenced
  <2>3. \A s \in Slots : s # mWriteIndex => pixels'[s] = pixels[s]
    BY <1>t, <2>1
  <2> QED  BY <2>1, <2>2, <2>3 DEF Fenced
<1>5. CASE StoreWriteIndex
  <2>1. UNCHANGED <<gpuReads, gpuReleaseFence, pixels>> /\ wpc' = "idle"
    BY <1>5 DEF StoreWriteIndex
  <2> QED  BY <2>1 DEF Fenced
<1>6. CASE GpuSignals
  <2>1. UNCHANGED <<mWriteIndex, pixels, wpc>>
    BY <1>6 DEF GpuSignals
  <2>2. PICK t \in Slots : /\ gpuReleaseFence' = [gpuReleaseFence EXCEPT ![t] = "signalled"]
                           /\ gpuReads' = [gpuReads EXCEPT ![t] = NoFrame]
    BY <1>6 DEF GpuSignals
  <2>3. gpuReads'[t] = NoFrame /\ \A s \in Slots : s # t => /\ gpuReads'[s] = gpuReads[s]
                                                            /\ gpuReleaseFence'[s] = gpuReleaseFence[s]
    BY <1>t, <2>2
  <2> QED  BY <2>1, <2>3 DEF Fenced
<1>7. CASE SetGpuReleaseFence
  <2>1. UNCHANGED <<mWriteIndex, pixels, wpc>> /\ rpc[Renderer] = "numbered"
    BY <1>7 DEF SetGpuReleaseFence
  <2>2. PICK fence \in {"none", "pending"} :
          /\ gpuReleaseFence' = [s \in Slots |-> IF s \in SlotsOf(number) THEN fence ELSE gpuReleaseFence[s]]
          /\ gpuReads' = StillRead(SlotsOf(number), fence)
    BY <1>7 DEF SetGpuReleaseFence
  <2> SUFFICES ASSUME NEW s \in Slots, gpuReads'[s] # NoFrame
               PROVE  /\ gpuReleaseFence'[s] = "pending" /\ pixels[s] = gpuReads'[s]
                      /\ ~(s = mWriteIndex /\ wpc \in {"checkLock", "lock", "writing"})
    BY <2>1 DEF Fenced
  <2>3. CASE fence = "pending" /\ s = rslot[Renderer] /\ Renderer \notin lost
    <3>1. Seen(Renderer)
      BY <2>1, <2>3 DEF Seen
    <3>2. /\ valid[s] /\ frameNumber[s] > 0 /\ pixels[s] = frameNumber[s]
          /\ wpc \in {"checkLock", "lock", "writing"} => s # mWriteIndex
      BY <1>t, <2>3, <3>1, SeenIsWhole
    <3>3. rframe[Renderer] = frameNumber[s] /\ number = frameNumber[s]
      BY <1>t, <2>1, <2>3, <3>1 DEF Whole, HoldSteps
    <3>4. s \in SlotsOf(number)
      BY <3>2, <3>3 DEF SlotsOf
    <3>5. gpuReleaseFence'[s] = "pending" /\ gpuReads'[s] = rframe[Renderer]
      BY <2>2, <2>3, <3>4 DEF StillRead
    <3> QED  BY <3>2, <3>3, <3>5
  <2>4. CASE ~(fence = "pending" /\ s = rslot[Renderer] /\ Renderer \notin lost)
    <3>1. gpuReads'[s] = gpuReads[s] /\ ~(fence = "none" /\ s \in SlotsOf(number))
      BY <2>2, <2>4 DEF StillRead
    <3>2. gpuReleaseFence'[s] \in {gpuReleaseFence[s], "pending"}
      BY <2>2, <3>1
    <3> QED  BY <3>1, <3>2 DEF Fenced
  <2> QED  BY <2>3, <2>4
<1>8. CASE GetFrameNumber
  BY <1>8, FencedKept DEF GetFrameNumber
<1>9. ASSUME NEW q \in Readers, ReaderNext(q) PROVE Fenced'
  BY <1>9, FencedKept DEF ReaderNext, LoadLatest, StoreReadIndex, LockSlot, Release
<1>10. CASE UNCHANGED vars
  BY <1>10, FencedKept DEF vars
<1> QED
  BY <1>1, <1>2, <1>3, <1>4, <1>5, <1>6, <1>7, <1>8, <1>9, <1>10 DEF Next, ProducerNext

-----------------------------------------------------------------------------
(* References and locks                                                     *)

\* Until two readers have been at different slots, mReadIndex is every reader's
\* slot, and what releaseReadBuffer() gives back is what its caller took.
Balanced ==
  /\ ~crossed => \A r \in Readers : Marked(r) => rslot[r] = mReadIndex
  /\ RefsMatchHolders

LEMMA HoldersFinite ==
  ASSUME NEW s PROVE IsFiniteSet(Holders(s)) /\ Cardinality(Holders(s)) \in Nat
<1>1. IsFiniteSet(Readers)
  BY FS_AddElement DEF Readers
<1>2. Holders(s) \subseteq Readers
  BY DEF Holders
<1> QED  BY <1>1, <1>2, FS_Subset, FS_CardinalityType

LEMMA InitBalanced == Init => Balanced
<1> SUFFICES ASSUME Init PROVE Balanced  OBVIOUS
<1>1. \A s \in Slots : Holders(s) = {}
  BY DEF Init, Holders, HoldSteps
<1>2. Cardinality({}) = 0
  BY FS_EmptySet
<1>3. RefsMatchHolders
  <2>1. ASSUME NEW s \in Slots
        PROVE  refs[s] = 1 + Cardinality(Holders(s)) /\ (isLockedByConsumer[s] => Holders(s) # {})
    <3>1. refs[s] = 1 /\ ~isLockedByConsumer[s]
      BY DEF Init
    <3>2. Cardinality(Holders(s)) = 0
      BY <1>1, <1>2
    <3> QED  BY <3>1, <3>2
  <2> QED  BY <2>1 DEF RefsMatchHolders
<1>4. \A r \in Readers : ~Marked(r)
  BY DEF Init, Marked, HoldSteps
<1> QED  BY <1>3, <1>4 DEF Balanced

\* Steps by which nobody begins or ends to hold a slot, and nothing is locked.
LEMMA BalancedKept ==
  ASSUME Balanced, UNCHANGED <<mReadIndex, refs, crossed>>,
         \A s \in Slots : isLockedByConsumer'[s] => isLockedByConsumer[s],
         \A r \in Readers : /\ Marked(r)' => Marked(r) /\ rslot'[r] = rslot[r]
                            /\ rpc'[r] \in HoldSteps <=> rpc[r] \in HoldSteps
                            /\ rpc[r] \in HoldSteps => rslot'[r] = rslot[r]
  PROVE  Balanced'
<1>1. \A s \in Slots : Holders(s)' = Holders(s)
  BY DEF Holders
<1>2. RefsMatchHolders'
  BY <1>1 DEF Balanced, RefsMatchHolders
<1>3. ~crossed' => \A r \in Readers : Marked(r)' => rslot'[r] = mReadIndex'
  BY DEF Balanced
<1> QED  BY <1>2, <1>3 DEF Balanced

LEMMA NextBalanced == ASSUME Typing, Balanced, [Next]_vars PROVE Balanced'
<1> USE DEF indexVars, metaVars, bufferVars, readerVars, historyVars
<1>t. /\ mReadIndex \in Slots /\ refs \in [Slots -> Int] /\ isLockedByConsumer \in [Slots -> BOOLEAN]
      /\ rpc \in [Readers -> ReaderSteps] /\ rslot \in [Readers -> Slots] /\ Renderer \in Readers
  BY DEF Typing, TypeOK, Readers
<1>1. CASE StartWrite \/ CheckFence \/ WaitFence \/ FenceTimesOut \/ CheckLock \/ LockBuffer
  BY <1>1, BalancedKept DEF StartWrite, CheckFence, WaitFence, FenceTimesOut, CheckLock, LockBuffer, Marked
<1>2. CASE LockFails \/ Cancel \/ Complete \/ Publish \/ ChooseNext \/ StoreWriteIndex \/ GpuSignals
  BY <1>2, BalancedKept
  DEF LockFails, Cancel, Complete, Publish, ChooseNext, StoreWriteIndex, GpuSignals, Marked
<1>3. CASE GetFrameNumber \/ SetGpuReleaseFence
  <2>1. /\ UNCHANGED <<mReadIndex, refs, crossed, rslot>> /\ rpc[Renderer] \in HoldSteps
        /\ \E step \in HoldSteps : rpc' = [rpc EXCEPT ![Renderer] = step]
    BY <1>3 DEF GetFrameNumber, SetGpuReleaseFence, HoldSteps
  <2>2. \A s \in Slots : isLockedByConsumer'[s] => isLockedByConsumer[s]
    BY <1>3 DEF GetFrameNumber, SetGpuReleaseFence
  <2>3. \A r \in Readers : rpc'[r] = rpc[r] \/ {rpc[r], rpc'[r]} \subseteq HoldSteps
    BY <1>t, <2>1
  <2>4. \A r \in Readers : Marked(r)' => Marked(r)
    BY <2>3 DEF Marked
  <2> QED  BY <2>1, <2>2, <2>3, <2>4, BalancedKept
<1>4. ASSUME NEW q \in Readers, LoadLatest(q) PROVE Balanced'
  <2>1. /\ UNCHANGED <<mReadIndex, refs, crossed, isLockedByConsumer>> /\ rpc[q] = "idle"
        /\ rslot' = [rslot EXCEPT ![q] = mLatestCompleted] /\ rpc' = [rpc EXCEPT ![q] = "loaded"]
    BY <1>4 DEF LoadLatest
  <2>2. /\ rpc'[q] = "loaded"
        /\ \A r \in Readers : r # q => rpc'[r] = rpc[r] /\ rslot'[r] = rslot[r]
    BY <1>t, <2>1
  <2>3. \A r \in Readers : Marked(r)' => Marked(r) /\ rslot'[r] = rslot[r]
    BY <2>2 DEF Marked, HoldSteps
  <2>4. \A r \in Readers : /\ rpc'[r] \in HoldSteps <=> rpc[r] \in HoldSteps
                           /\ rpc[r] \in HoldSteps => rslot'[r] = rslot[r]
    BY <2>1, <2>2 DEF HoldSteps
  <2> QED  BY <2>1, <2>3, <2>4, BalancedKept
<1>5. ASSUME NEW q \in Readers, StoreReadIndex(q) PROVE Balanced'
  <2>1. /\ UNCHANGED <<refs, isLockedByConsumer, rslot>> /\ mReadIndex' = rslot[q]
        /\ crossed' = (crossed \/ Displaced(q) # {})
        /\ rpc[q] = "loaded" /\ rpc' = [rpc EXCEPT ![q] = "marked"]
    BY <1>5 DEF StoreReadIndex
  <2>2. rpc'[q] = "marked" /\ \A r \in Readers : r # q => rpc'[r] = rpc[r]
    BY <1>t, <2>1
  <2>3. \A s \in Slots : Holders(s)' = Holders(s)
    BY <2>1, <2>2 DEF Holders, HoldSteps
  <2>4. RefsMatchHolders'
    BY <2>1, <2>3 DEF Balanced, RefsMatchHolders
  <2>5. ASSUME ~crossed', NEW r \in Readers, Marked(r)' PROVE rslot'[r] = mReadIndex'
    <3>1. Displaced(q) = {}
      BY <2>1, <2>5
    <3>2. CASE r = q
      BY <2>1, <3>2
    <3>3. CASE r # q
      BY <2>1, <2>2, <2>5, <3>1, <3>3 DEF Displaced, Marked
    <3> QED  BY <3>2, <3>3
  <2> QED  BY <2>4, <2>5 DEF Balanced
<1>6. ASSUME NEW q \in Readers, LockSlot(q) PROVE Balanced'
  <2>1. /\ UNCHANGED <<mReadIndex, rslot, crossed>>
        /\ isLockedByConsumer' = [isLockedByConsumer EXCEPT ![rslot[q]] = TRUE]
        /\ refs' = [refs EXCEPT ![rslot[q]] = refs[rslot[q]] + 1]
        /\ rpc[q] = "marked" /\ rpc' = [rpc EXCEPT ![q] = "holding"]
    BY <1>6 DEF LockSlot
  <2>2. rpc'[q] = "holding" /\ (\A r \in Readers : r # q => rpc'[r] = rpc[r]) /\ rslot[q] \in Slots
    BY <1>t, <2>1
  <2>3. \A r \in Readers : Marked(r)' => Marked(r)
    BY <2>1, <2>2 DEF Marked, HoldSteps
  <2>4. \A s \in Slots : s = rslot[q] => Holders(s)' = Holders(s) \cup {q} /\ q \notin Holders(s)
    BY <2>1, <2>2 DEF Holders, HoldSteps
  <2>5. \A s \in Slots : s # rslot[q] => Holders(s)' = Holders(s)
    BY <2>1, <2>2 DEF Holders, HoldSteps
  <2>7. ASSUME ~crossed', NEW s \in Slots
        PROVE  refs'[s] = 1 + Cardinality(Holders(s)') /\ (isLockedByConsumer'[s] => Holders(s)' # {})
    <3>1. refs[s] = 1 + Cardinality(Holders(s)) /\ (isLockedByConsumer[s] => Holders(s) # {})
      BY <2>1, <2>7 DEF Balanced, RefsMatchHolders
    <3>2. CASE s = rslot[q]
      <4>1. refs'[s] = refs[s] + 1
        BY <1>t, <2>1, <3>2
      <4>2. Holders(s)' = Holders(s) \cup {q} /\ q \notin Holders(s)
        BY <2>4, <3>2
      <4>3. Cardinality(Holders(s)) \in Nat /\ Cardinality(Holders(s)') = Cardinality(Holders(s)) + 1
        BY <4>2, HoldersFinite, FS_AddElement
      <4> QED  BY <3>1, <4>1, <4>2, <4>3
    <3>3. CASE s # rslot[q]
      <4>1. refs'[s] = refs[s] /\ isLockedByConsumer'[s] = isLockedByConsumer[s]
        BY <1>t, <2>1, <3>3
      <4> QED  BY <2>5, <3>1, <3>3, <4>1
    <3> QED  BY <3>2, <3>3
  <2>8. RefsMatchHolders'
    BY <2>7 DEF RefsMatchHolders
  <2> QED  BY <2>1, <2>3, <2>8 DEF Balanced
<1>7. ASSUME NEW q \in Readers, Release(q) PROVE Balanced'
  <2>1. /\ UNCHANGED <<mReadIndex, crossed>>
        /\ isLockedByConsumer' = [isLockedByConsumer EXCEPT ![mReadIndex] = FALSE]
        /\ refs' = [refs EXCEPT ![mReadIndex] = refs[mReadIndex] - 1]
        /\ rpc[q] \in HoldSteps /\ rpc' = [rpc EXCEPT ![q] = "idle"] /\ rslot' = [rslot EXCEPT ![q] = 0]
    BY <1>7 DEF Release
  <2>2. /\ rpc'[q] = "idle"
        /\ \A r \in Readers : r # q => rpc'[r] = rpc[r] /\ rslot'[r] = rslot[r]
    BY <1>t, <2>1
  <2>3. \A r \in Readers : Marked(r)' => Marked(r) /\ rslot'[r] = rslot[r]
    BY <2>2 DEF Marked, HoldSteps
  <2>4. \A s \in Slots : Holders(s)' = Holders(s) \ {q}
    BY <2>2 DEF Holders, HoldSteps
  <2>5. ASSUME ~crossed', NEW s \in Slots
        PROVE  refs'[s] = 1 + Cardinality(Holders(s)') /\ (isLockedByConsumer'[s] => Holders(s)' # {})
    <3>1. refs[s] = 1 + Cardinality(Holders(s)) /\ (isLockedByConsumer[s] => Holders(s) # {})
      BY <2>1, <2>5 DEF Balanced, RefsMatchHolders
    <3>2. rslot[q] = mReadIndex
      BY <2>1, <2>5 DEF Balanced, Marked
    <3>3. CASE s = mReadIndex
      <4>1. refs'[s] = refs[s] - 1 /\ ~isLockedByConsumer'[s]
        BY <1>t, <2>1, <3>3
      <4>2. q \in Holders(s)
        BY <2>1, <3>2, <3>3 DEF Holders
      <4>3. Cardinality(Holders(s)) \in Nat /\ Cardinality(Holders(s)') = Cardinality(Holders(s)) - 1
        BY <2>4, <4>2, HoldersFinite, FS_RemoveElement
      <4> QED  BY <3>1, <4>1, <4>3
    <3>4. CASE s # mReadIndex
      <4>1. refs'[s] = refs[s] /\ isLockedByConsumer'[s] = isLockedByConsumer[s]
        BY <1>t, <2>1, <3>4
      <4>2. Holders(s)' = Holders(s)
        BY <2>4, <3>2, <3>4 DEF Holders
      <4> QED  BY <3>1, <4>1, <4>2
    <3> QED  BY <3>3, <3>4
  <2>6. RefsMatchHolders'
    BY <2>5 DEF RefsMatchHolders
  <2> QED  BY <2>1, <2>3, <2>6 DEF Balanced
<1>8. CASE UNCHANGED vars
  BY <1>8, BalancedKept DEF vars, Marked
<1> QED
  BY <1>1, <1>2, <1>3, <1>4, <1>5, <1>6, <1>7, <1>8 DEF Next, ProducerNext, ReaderNext

-----------------------------------------------------------------------------
(* What the readers are promised                                            *)

RingInv == Typing /\ Published /\ Shielded /\ Whole /\ Fenced /\ Balanced

LEMMA RingAlways == Spec => []RingInv
<1>1. Init => RingInv
  BY InitTyping, InitPublished, InitShielded, InitWhole, InitFenced, InitBalanced DEF RingInv
<1>2. RingInv /\ [Next]_vars => RingInv'
  BY NextTyping, NextPublished, NextShielded, NextWhole, NextFenced, NextBalanced DEF RingInv
<1> QED  BY <1>1, <1>2, PTL DEF Spec

(* A reader holds one whole frame until it releases it, as long as the ring *)
(* has not lost it: acquireReadBuffer() stored mReadIndex before            *)
(* unlockWriteBuffer() looked at it, and no other reader has stored another *)
(* slot since.                                                              *)
THEOREM RingReaderWhole == Spec => []ReaderSeesWholeFrame
<1>1. RingInv => ReaderSeesWholeFrame
  <2> SUFFICES ASSUME RingInv, NEW r \in Readers, r \notin lost, rpc[r] \in HoldSteps
               PROVE  rframe[r] # NoFrame /\ pixels[rslot[r]] = rframe[r]
    BY DEF ReaderSeesWholeFrame
  <2>1. Seen(r)
    BY DEF Seen, HoldSteps
  <2>2. rframe[r] = frameNumber[rslot[r]]
    BY <2>1 DEF RingInv, Whole
  <2>3. frameNumber[rslot[r]] > 0 /\ pixels[rslot[r]] = frameNumber[rslot[r]]
    BY <2>1, SeenIsWhole DEF RingInv
  <2> QED  BY <2>2, <2>3
<1> QED  BY RingAlways, <1>1, PTL

(* A buffer such a renderer released with a fence is not written before the *)
(* GPU has signalled it (releaseWithFence, lockWriteBuffer), unless the     *)
(* wait times out or the fence is taken away again.                         *)
THEOREM RingGpuWhole == Spec => []GpuSeesWholeFrame
<1>1. RingInv => GpuSeesWholeFrame
  BY DEF RingInv, Fenced, GpuSeesWholeFrame
<1> QED  BY RingAlways, <1>1, PTL

(* Every AHardwareBuffer_acquire is matched by one release, and no lock    *)
(* outlives its reader, until two readers meet at different slots.         *)
THEOREM RingBalanced == Spec => []RefsMatchHolders
<1>1. RingInv => RefsMatchHolders
  BY DEF RingInv, Balanced
<1> QED  BY RingAlways, <1>1, PTL

(* Until then three slots are enough: lockWriteBuffer() drops a frame for  *)
(* a locked slot only when all its readers were overtaken.                 *)
THEOREM RingNeverMeetsLock == Spec => []NeverMeetsLock
<1>1. RingInv => NeverMeetsLock
  <2> SUFFICES ASSUME RingInv, ~crossed, wpc \in {"checkLock", "lock", "writing"},
                      isLockedByConsumer[mWriteIndex]
               PROVE  Holders(mWriteIndex) # {} /\ Holders(mWriteIndex) \subseteq lost
    BY DEF NeverMeetsLock
  <2>1. mWriteIndex \in Slots
    BY DEF RingInv, Typing, TypeOK
  <2>2. Holders(mWriteIndex) # {}
    BY <2>1 DEF RingInv, Balanced, RefsMatchHolders
  <2>3. ASSUME NEW r \in Holders(mWriteIndex), r \notin lost PROVE FALSE
    <3>1. r \in Readers /\ rslot[r] = mWriteIndex /\ Seen(r)
      BY <2>3 DEF Holders, Seen, HoldSteps
    <3> QED  BY <3>1 DEF RingInv, Shielded
  <2> QED  BY <2>2, <2>3
<1> QED  BY RingAlways, <1>1, PTL

-----------------------------------------------------------------------------
(* The ring implements the mailbox                                          *)

\* What the renderer has changes as it loads the newest slot, and by being
\* given back or lost; nothing else touches it.
LEMMA HeldSteps ==
  ASSUME RingInv, [Next]_vars
  PROVE  \/ LoadLatest(Renderer)
         \/ HeldPixels' = HeldPixels
         \/ HeldPixels' = NoFrame
<1> USE DEF indexVars, metaVars, bufferVars, readerVars, historyVars
<1>t. /\ Renderer \in Readers /\ rslot[Renderer] \in Slots /\ pixels \in [Slots -> 0 .. MaxFrames]
      /\ rpc \in [Readers -> ReaderSteps] /\ rslot \in [Readers -> Slots]
  BY DEF RingInv, Typing, TypeOK, Readers
<1>h. /\ Seen(Renderer) => HeldPixels = pixels[rslot[Renderer]]
      /\ Seen(Renderer)' => HeldPixels' = pixels'[rslot'[Renderer]]
      /\ ~Seen(Renderer)' => HeldPixels' = NoFrame
  BY DEF HeldPixels, Seen
<1>k. ASSUME UNCHANGED <<rslot, pixels>>, Seen(Renderer)' => Seen(Renderer)
      PROVE  HeldPixels' = HeldPixels \/ HeldPixels' = NoFrame
  BY <1>h, <1>k
<1>1. CASE StartWrite \/ CheckFence \/ WaitFence \/ FenceTimesOut \/ CheckLock \/ LockFails \/ Cancel
  BY <1>1, <1>k DEF StartWrite, CheckFence, WaitFence, FenceTimesOut, CheckLock, LockFails, Cancel, Seen
<1>2. CASE Publish \/ ChooseNext \/ StoreWriteIndex \/ GpuSignals
  BY <1>2, <1>k DEF Publish, ChooseNext, StoreWriteIndex, GpuSignals, Seen
<1>3. CASE LockBuffer \/ Complete
  <2>1. /\ UNCHANGED <<rslot, rpc, lost>> /\ wpc \in {"lock", "writing"}
        /\ \E p : pixels' = [pixels EXCEPT ![mWriteIndex] = p]
    BY <1>3 DEF LockBuffer, Complete
  <2>2. Seen(Renderer) => rslot[Renderer] # mWriteIndex
    BY <1>t, <2>1 DEF RingInv, Shielded
  <2>3. Seen(Renderer)' => Seen(Renderer)
    BY <2>1 DEF Seen
  <2> QED  BY <1>t, <1>h, <2>1, <2>2, <2>3
<1>4. CASE GetFrameNumber \/ SetGpuReleaseFence
  <2>1. UNCHANGED <<rslot, pixels, lost>> /\ rpc[Renderer] # "idle"
    BY <1>4 DEF GetFrameNumber, SetGpuReleaseFence
  <2> QED  BY <1>k, <2>1 DEF Seen
<1>5. ASSUME NEW q \in Readers, StoreReadIndex(q) \/ LockSlot(q)
      PROVE  HeldPixels' = HeldPixels \/ HeldPixels' = NoFrame
  <2>1. /\ UNCHANGED <<rslot, pixels>> /\ lost \subseteq lost' /\ rpc[q] # "idle"
        /\ \E step : rpc' = [rpc EXCEPT ![q] = step]
    BY <1>5 DEF StoreReadIndex, LockSlot
  <2>2. Seen(Renderer)' => Seen(Renderer)
    BY <1>t, <2>1 DEF Seen
  <2> QED  BY <1>k, <2>1, <2>2
<1>6. ASSUME NEW q \in Readers, q # Renderer, LoadLatest(q) \/ Release(q)
      PROVE  HeldPixels' = HeldPixels \/ HeldPixels' = NoFrame
  <2>1. rpc'[Renderer] = rpc[Renderer] /\ rslot'[Renderer] = rslot[Renderer] /\ pixels' = pixels
    BY <1>t, <1>6 DEF LoadLatest, Release
  <2>2. Renderer \in lost' <=> Renderer \in lost
    BY <1>6 DEF LoadLatest, Release
  <2> QED  BY <1>h, <2>1, <2>2 DEF Seen
<1>7. CASE Release(Renderer)
  <2>1. rpc'[Renderer] = "idle"
    BY <1>t, <1>7 DEF Release
  <2> QED  BY <2>1 DEF HeldPixels
<1>8. CASE UNCHANGED vars
  BY <1>8, <1>k DEF vars, Seen
<1> QED
  BY <1>1, <1>2, <1>3, <1>4, <1>5, <1>6, <1>7, <1>8 DEF Next, ProducerNext, ReaderNext

\* The newest frame changes as unlockWriteBuffer() stores mLatestCompleted.
LEMMA NewestSteps ==
  ASSUME RingInv, RingInv', [Next]_vars
  PROVE  \/ /\ NewestPixels' = NewestPixels + 1
            /\ HeldPixels' = HeldPixels
         \/ NewestPixels' = NewestPixels
<1> USE DEF indexVars, metaVars, bufferVars, readerVars, historyVars
<1>t. mFrameCounter \in Nat /\ mFrameCounter' \in Nat
  BY DEF RingInv, Typing, TypeOK
<1>n. /\ NewestPixels = mFrameCounter - (IF wpc = "publish" THEN 1 ELSE 0)
      /\ NewestPixels' = mFrameCounter' - (IF wpc' = "publish" THEN 1 ELSE 0)
  BY DEF RingInv, Published
<1>1. CASE Publish
  <2>1. /\ UNCHANGED <<mFrameCounter, pixels, rpc, rslot, lost>> /\ wpc = "publish" /\ wpc' = "choose"
    BY <1>1 DEF Publish
  <2>2. HeldPixels' = HeldPixels
    BY <2>1 DEF HeldPixels
  <2> QED  BY <1>t, <1>n, <2>1, <2>2
<1>2. CASE Complete
  <2>1. mFrameCounter' = mFrameCounter + 1 /\ wpc = "writing" /\ wpc' = "publish"
    BY <1>2 DEF Complete
  <2> QED  BY <1>t, <1>n, <2>1
<1>3. ASSUME mFrameCounter' = mFrameCounter, wpc' = "publish" <=> wpc = "publish"
      PROVE  NewestPixels' = NewestPixels
  BY <1>n, <1>3
<1>4. CASE StartWrite \/ CheckFence \/ WaitFence \/ FenceTimesOut \/ CheckLock \/ LockFails \/ Cancel
  BY <1>3, <1>4 DEF StartWrite, CheckFence, WaitFence, FenceTimesOut, CheckLock, LockFails, Cancel
<1>5. CASE LockBuffer \/ ChooseNext \/ StoreWriteIndex
  BY <1>3, <1>5 DEF LockBuffer, ChooseNext, StoreWriteIndex
<1>8. CASE GpuSignals \/ SetGpuReleaseFence \/ GetFrameNumber
  BY <1>3, <1>8 DEF GpuSignals, SetGpuReleaseFence, GetFrameNumber
<1>6. ASSUME NEW q \in Readers, ReaderNext(q) PROVE NewestPixels' = NewestPixels
  BY <1>3, <1>6 DEF ReaderNext, LoadLatest, StoreReadIndex, LockSlot, Release
<1>7. CASE UNCHANGED vars
  BY <1>3, <1>7 DEF vars
<1> QED
  BY <1>1, <1>2, <1>4, <1>5, <1>6, <1>7, <1>8 DEF Next, ProducerNext

\* The load of mLatestCompleted is the instant at which the frame is acquired.
LEMMA LoadIsAcquire ==
  ASSUME RingInv, LoadLatest(Renderer)
  PROVE  \/ HeldPixels = NoFrame /\ NewestPixels # NoFrame /\ HeldPixels' = NewestPixels
         \/ HeldPixels' = HeldPixels
<1>1. /\ rpc[Renderer] = "idle" /\ mLatestCompleted >= 0 /\ UNCHANGED <<pixels, lost>>
      /\ rslot' = [rslot EXCEPT ![Renderer] = mLatestCompleted]
      /\ rpc' = [rpc EXCEPT ![Renderer] = "loaded"]
  BY DEF LoadLatest, bufferVars, historyVars
<1>2. /\ rpc'[Renderer] = "loaded" /\ rslot'[Renderer] = mLatestCompleted
      /\ mLatestCompleted \in Slots /\ mLatestCompleted # -1
  BY <1>1 DEF RingInv, Typing, TypeOK, Readers
<1>3. HeldPixels = NoFrame
  BY <1>1 DEF HeldPixels
<1>4. NewestPixels = pixels[mLatestCompleted]
  BY <1>2 DEF NewestPixels
<1>5. NewestPixels # NoFrame
  <2>1. valid[mLatestCompleted] /\ pixels[mLatestCompleted] = frameNumber[mLatestCompleted]
    BY <1>1 DEF RingInv, Published, MailboxIsWhole
  <2>2. frameNumber[mLatestCompleted] > 0
    BY <1>2, <2>1 DEF RingInv, Whole
  <2> QED  BY <1>4, <2>1, <2>2
<1>6. CASE Renderer \in lost
  BY <1>1, <1>3, <1>6 DEF HeldPixels
<1>7. CASE Renderer \notin lost
  BY <1>1, <1>2, <1>3, <1>4, <1>5, <1>7 DEF HeldPixels
<1> QED  BY <1>6, <1>7

(* The indices, metadata, locks and fences of the ring implement           *)
(* LatestFrame: unlockWriteBuffer() publishes each frame once,             *)
(* acquireReadBuffer() takes the newest as it loads mLatestCompleted, and  *)
(* the buffer keeps it until releaseReadBuffer() or until the ring loses   *)
(* the renderer, whatever any number of captures do.                       *)
THEOREM RingIsMailbox == Spec => ImplementsMailbox
<1>1. Init => Latest!Init
  BY DEF Init, Latest!Init, NewestPixels, HeldPixels, Readers
<1>2. RingInv /\ RingInv' /\ [Next]_vars => [Latest!Next]_Latest!latestVars
  <2> SUFFICES ASSUME RingInv, RingInv', [Next]_vars
               PROVE  Latest!Next \/ UNCHANGED <<NewestPixels, HeldPixels>>
    BY DEF Latest!latestVars
  <2>1. CASE NewestPixels' = NewestPixels + 1 /\ HeldPixels' = HeldPixels
    BY <2>1 DEF Latest!Next, Latest!Publish
  <2>2. CASE NewestPixels' = NewestPixels
    <3>1. CASE LoadLatest(Renderer)
      BY <2>2, <3>1, LoadIsAcquire DEF Latest!Next, Latest!Acquire
    <3>2. CASE HeldPixels' = HeldPixels
      BY <2>2, <3>2
    <3>3. CASE HeldPixels' = NoFrame
      BY <2>2, <3>3 DEF Latest!Next, Latest!Release
    <3> QED  BY <3>1, <3>2, <3>3, HeldSteps
  <2> QED  BY <2>1, <2>2, NewestSteps
<1> QED  BY RingAlways, <1>1, <1>2, PTL DEF Spec, ImplementsMailbox, Latest!Spec

=============================================================================
