-------------------------- MODULE PendingQueue_proofs --------------------------
(***************************************************************************)
(* The pending queue's hand-over for a ring of any size greater than one   *)
(* and any number of frames: its invariants, that no wake-up is lost, and  *)
(* that it implements the safety of BoundedFifo.                           *)
(***************************************************************************)
EXTENDS PendingQueue, TLAPS, SequenceTheorems

USE SizeAssumption, BoundAssumption, AllocAssumption

\* The wrap-around without the modulus, which is what the provers need.
LEMMA SuccWraps ==
  ASSUME NEW i \in Slots PROVE Succ(i) = IF i = Size - 1 THEN 0 ELSE i + 1
<1>1. CASE i = Size - 1
  <2>1. Size % Size = 0
    BY SMT
  <2> QED  BY <1>1, <2>1 DEF Succ, Slots
<1>2. CASE i # Size - 1
  BY <1>2 DEF Succ, Slots
<1> QED  BY <1>1, <1>2

\* Consequently Succ is a permutation of the slots without a fixed point.
LEMMA SuccFacts ==
  /\ \A i \in Slots : Succ(i) \in Slots /\ Succ(i) # i
  /\ \A i, j \in Slots : Succ(i) = Succ(j) => i = j
  BY SuccWraps DEF Slots

\* The published slots that have not been given back: from the read index up
\* to, but not including, the write index, around the end of the ring.
InWindow(i) ==
  IF mPendingReadIdx <= mPendingWriteIdx
  THEN mPendingReadIdx <= i /\ i < mPendingWriteIdx
  ELSE mPendingReadIdx <= i \/ i < mPendingWriteIdx

-----------------------------------------------------------------------------
(* The inductive invariant: the two threads' positions, and what the slots *)
(* of the window hold.  The slot being given back is still in the window,  *)
(* but its flag is down.                                                   *)

WindowReady ==
  \A i \in Slots : InWindow(i) =>
    /\ data[i] # Torn
    /\ ready[i] \/ (cpc = "advance" /\ i = mPendingReadIdx)

FillingSteps ==
  /\ ppc \in Filling => frame # 0
  /\ ppc \in {"setReady", "publish"} => data[mPendingWriteIdx] = frame
  /\ ppc = "publish" => ready[mPendingWriteIdx]

QueueInv == TypeOK /\ ExclusiveSlots /\ ConvertsWholeFrame /\ WindowReady /\ FillingSteps

LEMMA InitQueue == Init => QueueInv
<1> SUFFICES ASSUME Init PROVE QueueInv  OBVIOUS
<1> USE DEF Init
<1>1. TypeOK
  <2>1. 0 \in Slots /\ 0 \in 0 .. MaxFrames /\ Torn = 0
    BY DEF Slots, Torn
  <2>2. ready \in [Slots -> BOOLEAN]
    OBVIOUS
  <2>3. data \in [Slots -> 0 .. MaxFrames]
    BY <2>1
  <2>4. taken \in 0 .. MaxFrames /\ frame \in 0 .. MaxFrames /\ framesDroppedQueueFull \in Nat
    BY <2>1
  <2>5. ppc \in ProducerSteps /\ cpc \in ConsumerSteps /\ eventFd \in BOOLEAN
    BY DEF ProducerSteps, ConsumerSteps
  <2> QED  BY <2>1, <2>2, <2>3, <2>4, <2>5 DEF TypeOK
<1>2. ExclusiveSlots /\ ConvertsWholeFrame /\ FillingSteps
  BY DEF ExclusiveSlots, ConvertsWholeFrame, FillingSteps, Filling, Working
<1>3. WindowReady
  BY DEF WindowReady, InWindow, Slots
<1> QED  BY <1>1, <1>2, <1>3 DEF QueueInv

LEMMA NextQueue == QueueInv /\ [Next]_vars => QueueInv'
<1> SUFFICES ASSUME QueueInv, [Next]_vars PROVE QueueInv'  OBVIOUS
<1> USE DEF QueueInv, TypeOK, ProducerSteps, ConsumerSteps, ExclusiveSlots, ConvertsWholeFrame,
            WindowReady, InWindow, FillingSteps, Filling, Working, Torn
<1>a. /\ Succ(mPendingWriteIdx) = IF mPendingWriteIdx = Size - 1 THEN 0 ELSE mPendingWriteIdx + 1
      /\ Succ(mPendingReadIdx) = IF mPendingReadIdx = Size - 1 THEN 0 ELSE mPendingReadIdx + 1
  BY SuccWraps
<1>1. CASE Deliver
  BY <1>1, <1>a DEF Deliver, Refuse, IsFull, Slots
<1>2. CASE OutOfMemory
  BY <1>2, <1>a DEF OutOfMemory, Refuse, Slots
<1>3. CASE BeginCopy
  BY <1>3, <1>a DEF BeginCopy, Slots
<1>4. CASE EndCopy
  BY <1>4, <1>a DEF EndCopy, Slots
<1>5. CASE SetReady
  BY <1>5, <1>a DEF SetReady, Slots
<1>6. CASE Publish
  BY <1>6, <1>a DEF Publish, Slots
<1>7. CASE Signal
  BY <1>7, <1>a DEF Signal, Slots
<1>8. CASE Dequeue
  BY <1>8, <1>a DEF Dequeue, IsEmpty, Slots
<1>9. CASE CheckReady
  BY <1>9, <1>a DEF CheckReady, Slots
<1>10. CASE Convert
  BY <1>10, <1>a DEF Convert, Slots
<1>11. CASE ClearReady
  BY <1>11, <1>a DEF ClearReady, Slots
<1>12. CASE AdvanceRead
  BY <1>12, <1>a DEF AdvanceRead, Slots
<1>13. CASE PollReadable \/ PollTimeout \/ DrainEventFd
  BY <1>13, <1>a DEF PollReadable, PollTimeout, DrainEventFd, Slots
<1>14. CASE UNCHANGED vars
  BY <1>14 DEF vars
<1> QED
  BY <1>1, <1>2, <1>3, <1>4, <1>5, <1>6, <1>7, <1>8, <1>9, <1>10, <1>11, <1>12, <1>13, <1>14
  DEF Next, Enqueue, Consume

(* The indices stay in the ring, and every variable keeps its type.        *)
THEOREM QueueTypeCorrect == Spec => []TypeOK
<1>1. QueueInv => TypeOK
  BY DEF QueueInv
<1> QED  BY InitQueue, NextQueue, <1>1, PTL DEF Spec

(* The callback and the conversion thread never work on the same slot,     *)
(* although each decides on an index of the other that may be out of date. *)
THEOREM QueueExclusive == Spec => []ExclusiveSlots
<1>1. QueueInv => ExclusiveSlots
  BY DEF QueueInv
<1> QED  BY InitQueue, NextQueue, <1>1, PTL DEF Spec

(* What the conversion thread reads in place is one whole frame throughout. *)
THEOREM QueueWholeFrames == Spec => []ConvertsWholeFrame
<1>1. QueueInv => ConvertsWholeFrame
  BY DEF QueueInv
<1> QED  BY InitQueue, NextQueue, <1>1, PTL DEF Spec

(* A frame inside the window is ready: dequeuePendingFrame() never finds   *)
(* the ready flag down, so it never blocks with a frame waiting.           *)
THEOREM QueueReady == Spec => []PublishedIsReady
<1>1. QueueInv => PublishedIsReady
  BY DEF QueueInv, TypeOK, WindowReady, InWindow, ExclusiveSlots, Working, PublishedIsReady, Slots
<1> QED  BY InitQueue, NextQueue, <1>1, PTL DEF Spec

-----------------------------------------------------------------------------
(* No wake-up is lost.                                                     *)

(* Whatever the order of the callback's index and eventfd writes and the   *)
(* thread's look at the index, its poll and its read of the eventfd: it    *)
(* never blocks with a frame waiting and no signal on its way.             *)
THEOREM NoSignalLost == Spec => []NoLostSignal
<1>1. Init => NoLostSignal
  BY DEF Init, NoLostSignal
<1>2. QueueInv /\ NoLostSignal /\ [Next]_vars => NoLostSignal'
  <2> SUFFICES ASSUME QueueInv, NoLostSignal, [Next]_vars PROVE NoLostSignal'  OBVIOUS
  <2>1. cpc = "checkReady" => ready[mPendingReadIdx]
    BY DEF QueueInv, TypeOK, WindowReady, InWindow, ExclusiveSlots, Working, Slots
  <2>2. CASE Deliver \/ Enqueue
    BY <2>2 DEF NoLostSignal, IsEmpty, Deliver, Enqueue, Refuse, OutOfMemory, BeginCopy, EndCopy,
       SetReady, Publish, Signal
  <2>3. CASE Consume \/ PollTimeout
    BY <2>1, <2>3 DEF NoLostSignal, IsEmpty, Consume, Dequeue, CheckReady, Convert, ClearReady,
       AdvanceRead, PollReadable, DrainEventFd, PollTimeout
  <2>4. CASE UNCHANGED vars
    BY <2>4 DEF NoLostSignal, IsEmpty, vars
  <2> QED  BY <2>2, <2>3, <2>4 DEF Next
<1> QED  BY InitQueue, NextQueue, <1>1, <1>2, PTL DEF Spec

-----------------------------------------------------------------------------
(* The queue implements the bounded FIFO (its safety: what may happen).    *)

\* The modulus on the numbers it is applied to.
LEMMA ModIs ==
  ASSUME NEW n \in Slots
  PROVE  n % Size = n /\ (n + Size) % Size = n /\ (n - Size) % Size = n
  BY SMT DEF Slots

\* How many frames wait, and where.
IndexFacts ==
  /\ mPendingReadIdx \in Slots /\ mPendingWriteIdx \in Slots
  /\ Succ(mPendingWriteIdx) = IF mPendingWriteIdx = Size - 1 THEN 0 ELSE mPendingWriteIdx + 1
  /\ Succ(mPendingReadIdx) = IF mPendingReadIdx = Size - 1 THEN 0 ELSE mPendingReadIdx + 1
  /\ Waiting \in 0 .. Size - 1
  /\ Waiting = IF mPendingReadIdx <= mPendingWriteIdx THEN mPendingWriteIdx - mPendingReadIdx
               ELSE mPendingWriteIdx - mPendingReadIdx + Size

LEMMA WaitingIs == TypeOK => IndexFacts
<1> SUFFICES ASSUME TypeOK PROVE IndexFacts  OBVIOUS
<1>1. /\ Waiting \in 0 .. Size - 1
      /\ Waiting = IF mPendingReadIdx <= mPendingWriteIdx THEN mPendingWriteIdx - mPendingReadIdx
                   ELSE mPendingWriteIdx - mPendingReadIdx + Size
  <2>1. CASE mPendingReadIdx <= mPendingWriteIdx
    <3>1. mPendingWriteIdx - mPendingReadIdx \in Slots
      BY <2>1 DEF TypeOK, Slots
    <3> QED  BY <2>1, <3>1, ModIs DEF Waiting, Slots
  <2>2. CASE ~ (mPendingReadIdx <= mPendingWriteIdx)
    <3>1. mPendingWriteIdx - mPendingReadIdx + Size \in Slots
      BY <2>2 DEF TypeOK, Slots
    <3>2. (mPendingWriteIdx - mPendingReadIdx + Size) - Size = mPendingWriteIdx - mPendingReadIdx
      BY DEF TypeOK, Slots
    <3>3. Waiting = mPendingWriteIdx - mPendingReadIdx + Size
      BY <3>1, <3>2, ModIs DEF Waiting
    <3> QED  BY <2>2, <3>1, <3>3 DEF Slots
  <2> QED  BY <2>1, <2>2
<1>2. mPendingReadIdx \in Slots /\ mPendingWriteIdx \in Slots
  BY DEF TypeOK
<1> QED  BY <1>1, <1>2, SuccWraps DEF IndexFacts

\* The slot of the i-th waiting frame.
At(i) ==
  IF mPendingReadIdx + i - 1 < Size
  THEN mPendingReadIdx + i - 1 ELSE mPendingReadIdx + i - 1 - Size

\* The refinement mapping's queue, slot by slot.
QueueFacts ==
  /\ QueueOf \in Seq(Nat) /\ Len(QueueOf) = Waiting
  /\ \A i \in 1 .. Waiting : QueueOf[i] = data[At(i)] /\ At(i) \in Slots /\ At(i) # mPendingWriteIdx

LEMMA QueueIs == TypeOK => QueueFacts
<1> SUFFICES ASSUME TypeOK PROVE QueueFacts  OBVIOUS
<1>1. Waiting \in Nat /\ IndexFacts
  BY WaitingIs DEF IndexFacts
<1>2. ASSUME NEW i \in 1 .. Waiting
      PROVE  At(i) \in Slots /\ At(i) # mPendingWriteIdx /\ (mPendingReadIdx + i - 1) % Size = At(i)
  <2>1. /\ mPendingReadIdx \in Slots /\ mPendingWriteIdx \in Slots /\ i \in Int
        /\ i >= 1 /\ i <= Waiting
    BY <1>1 DEF TypeOK
  <2>2. At(i) \in Slots /\ At(i) # mPendingWriteIdx
    BY <1>1, <2>1 DEF IndexFacts, At, Slots
  <2>3. mPendingReadIdx + i - 1 = At(i) \/ mPendingReadIdx + i - 1 = At(i) + Size
    BY <2>1, <2>2 DEF At, Slots
  <2> QED  BY <2>2, <2>3, ModIs
<1>3. \A i \in 1 .. Waiting : QueueOf[i] = data[At(i)]
  BY <1>2 DEF QueueOf
<1>4. \A i \in 1 .. Waiting : QueueOf[i] \in Nat
  BY <1>2, <1>3 DEF TypeOK
<1>5. QueueOf = [i \in 1 .. Waiting |-> QueueOf[i]]
  BY DEF QueueOf
<1>6. QueueOf \in Seq(Nat) /\ Len(QueueOf) = Waiting
  BY <1>1, <1>4, <1>5
<1> QED  BY <1>2, <1>3, <1>6 DEF QueueFacts

\* Both hold after a step as well.
LEMMA FactsNext == TypeOK' => IndexFacts' /\ QueueFacts'
  BY WaitingIs, QueueIs, PTL

\* A step that moves neither index nor changes a waiting frame leaves the queue.
LEMMA QueueUnchanged ==
  ASSUME TypeOK, TypeOK', UNCHANGED <<mPendingWriteIdx, mPendingReadIdx>>,
         \A i \in Slots : i # mPendingWriteIdx => data'[i] = data[i]
  PROVE  QueueOf' = QueueOf
<1>0. QueueFacts /\ QueueFacts'
  BY QueueIs, FactsNext
<1>1. Waiting' = Waiting
  BY DEF Waiting
<1>2. \A i \in 1 .. Waiting : QueueOf'[i] = QueueOf[i]
  <2>1. \A i : At(i)' = At(i)
    BY DEF At
  <2> QED  BY <1>0, <1>1, <2>1 DEF QueueFacts
<1>3. /\ QueueOf \in Seq(Nat) /\ Len(QueueOf) = Waiting
      /\ QueueOf' \in Seq(Nat) /\ Len(QueueOf') = Waiting
  BY <1>0, <1>1 DEF QueueFacts
<1> QED  BY <1>2, <1>3, SeqEqual

\* Publishing appends the frame in the write slot.
LEMMA PublishAppends ==
  ASSUME QueueInv, TypeOK', Publish
  PROVE  /\ Waiting < Size - 1
         /\ QueueOf' = Append(QueueOf, frame)
<1>0. IndexFacts /\ IndexFacts' /\ QueueFacts /\ QueueFacts'
  BY WaitingIs, QueueIs, FactsNext DEF QueueInv
<1>1. /\ TypeOK /\ Succ(mPendingWriteIdx) # mPendingReadIdx /\ data[mPendingWriteIdx] = frame
      /\ mPendingWriteIdx' = Succ(mPendingWriteIdx) /\ UNCHANGED <<mPendingReadIdx, data, frame>>
      /\ frame \in Nat
  BY DEF QueueInv, TypeOK, ExclusiveSlots, FillingSteps, Filling, Publish
<1>2. Waiting < Size - 1 /\ Waiting' = Waiting + 1 /\ Waiting \in Nat
  BY <1>0, <1>1 DEF IndexFacts, Slots
<1>3. At(Waiting + 1) = mPendingWriteIdx
  BY <1>0, <1>1 DEF IndexFacts, At, Slots
<1>4. \A i : At(i)' = At(i)
  BY <1>1 DEF At
<1> DEFINE s == Append(QueueOf, frame)
<1>5. /\ s \in Seq(Nat) /\ Len(s) = Waiting + 1 /\ s[Waiting + 1] = frame
      /\ \A i \in 1 .. Waiting : s[i] = QueueOf[i]
  BY <1>0, <1>1, <1>2, AppendProperties DEF QueueFacts
<1> HIDE DEF s
<1>6. /\ QueueOf' \in Seq(Nat) /\ Len(QueueOf') = Waiting + 1
      /\ \A i \in 1 .. Waiting + 1 : QueueOf'[i] = data[At(i)]
  BY <1>0, <1>1, <1>2, <1>4 DEF QueueFacts
<1>7. \A i \in 1 .. Waiting + 1 : QueueOf'[i] = s[i]
  <2>1. ASSUME NEW i \in 1 .. Waiting PROVE QueueOf'[i] = s[i]
    <3>1. QueueOf'[i] = data[At(i)]
      BY <1>2, <1>6, <2>1
    <3>2. QueueOf[i] = data[At(i)]
      BY <1>0, <2>1 DEF QueueFacts
    <3>3. s[i] = QueueOf[i]
      BY <1>5, <2>1
    <3> QED  BY <3>1, <3>2, <3>3
  <2>2. QueueOf'[Waiting + 1] = s[Waiting + 1]
    BY <1>1, <1>2, <1>3, <1>5, <1>6
  <2>3. \A i \in 1 .. Waiting + 1 : i \in 1 .. Waiting \/ i = Waiting + 1
    BY <1>2
  <2> QED  BY <2>1, <2>2, <2>3
<1>8. QueueOf' = s
  BY <1>5, <1>6, <1>7, SeqEqual
<1> QED  BY <1>2, <1>8 DEF s

\* Giving the slot back removes the oldest frame.
LEMMA AdvanceRemoves ==
  ASSUME QueueInv, TypeOK', AdvanceRead
  PROVE  QueueOf # <<>> /\ QueueOf' = Tail(QueueOf)
<1>0. IndexFacts /\ IndexFacts' /\ QueueFacts /\ QueueFacts'
  BY WaitingIs, QueueIs, FactsNext DEF QueueInv
<1>1. /\ TypeOK /\ mPendingReadIdx # mPendingWriteIdx
      /\ mPendingReadIdx' = Succ(mPendingReadIdx) /\ UNCHANGED <<mPendingWriteIdx, data>>
  BY DEF QueueInv, ExclusiveSlots, Working, AdvanceRead
<1>2. Waiting \in Nat \ {0} /\ Waiting' = Waiting - 1
  BY <1>0, <1>1 DEF IndexFacts, Slots
<1>3. \A i \in 1 .. Waiting - 1 : At(i)' = At(i + 1)
  BY <1>0, <1>1, <1>2 DEF IndexFacts, At, Slots
<1>4. QueueOf \in Seq(Nat) /\ Len(QueueOf) = Waiting /\ QueueOf # <<>>
  BY <1>0, <1>1, <1>2 DEF QueueFacts
<1> DEFINE s == Tail(QueueOf)
<1>5. s \in Seq(Nat) /\ Len(s) = Waiting - 1 /\ \A i \in 1 .. Waiting - 1 : s[i] = QueueOf[i + 1]
  BY <1>4, HeadTailProperties
<1> HIDE DEF s
<1>6. /\ QueueOf' \in Seq(Nat) /\ Len(QueueOf') = Waiting - 1
      /\ \A i \in 1 .. Waiting - 1 : QueueOf'[i] = data[At(i + 1)]
  BY <1>0, <1>1, <1>2, <1>3 DEF QueueFacts
<1>7. \A i \in 1 .. Waiting - 1 : QueueOf'[i] = s[i]
  <2>1. \A i \in 1 .. Waiting - 1 : i + 1 \in 1 .. Waiting
    BY <1>2
  <2> QED  BY <1>0, <1>1, <1>5, <1>6, <2>1 DEF QueueFacts
<1>8. QueueOf' = s
  BY <1>5, <1>6, <1>7, SeqEqual
<1> QED  BY <1>4, <1>8 DEF s

(* The indices, flags and slots of the ring implement BoundedFifo: frames  *)
(* leave in the order they came, none twice, and one is lost only because  *)
(* the queue was full or its buffer could not grow, and is counted then.   *)
THEOREM RingIsFifo == Spec => Fifo!Spec
<1>1. Init => Fifo!Init
  <2> SUFFICES ASSUME Init PROVE Fifo!Init  OBVIOUS
  <2>1. TypeOK /\ mPendingReadIdx = mPendingWriteIdx
    BY InitQueue DEF QueueInv, Init
  <2>2. QueueOf \in Seq(Nat) /\ Len(QueueOf) = 0
    BY <2>1, WaitingIs, QueueIs DEF IndexFacts, QueueFacts, Slots
  <2>3. QueueOf = <<>>
    BY <2>2, EmptySeq
  <2> QED  BY <2>3 DEF Init, Fifo!Init, Decided, Filling
<1>2. QueueInv /\ QueueInv' /\ [Next]_vars => [Fifo!Next]_Fifo!fifoVars
  <2> SUFFICES ASSUME QueueInv, QueueInv', [Next]_vars PROVE Fifo!Next \/ UNCHANGED Fifo!fifoVars
    OBVIOUS
  <2>1. TypeOK /\ TypeOK' /\ frame \in Nat /\ framesDroppedQueueFull \in Nat
    BY DEF QueueInv, TypeOK
  <2>2. Len(QueueOf) = Waiting
    BY <2>1, QueueIs DEF QueueFacts
  <2>3. CASE Deliver
    <3>1. QueueOf' = QueueOf
      BY <2>1, <2>3, QueueUnchanged DEF Deliver
    <3>2. CASE IsFull
      <4>1. Waiting = Size - 1
        BY <2>1, <3>2, WaitingIs DEF IsFull, IndexFacts, Slots
      <4>2. Decided' = Decided + 1 /\ framesDroppedQueueFull' = framesDroppedQueueFull + 1
        BY <2>3, <3>2 DEF Deliver, Refuse, Decided, Filling
      <4> QED  BY <2>2, <3>1, <4>1, <4>2 DEF Fifo!Next, Fifo!Drop
    <3>3. CASE ~IsFull
      <4>1. Decided' = Decided /\ UNCHANGED framesDroppedQueueFull
        BY <2>1, <2>3, <3>3 DEF Deliver, Decided, Filling
      <4> QED  BY <3>1, <4>1 DEF Fifo!fifoVars
    <3> QED  BY <3>2, <3>3
  <2>4. CASE OutOfMemory
    <3>1. QueueOf' = QueueOf
      BY <2>1, <2>4, QueueUnchanged DEF OutOfMemory
    <3>2. /\ Decided' = Decided + 1 /\ AllocMayFail
          /\ framesDroppedQueueFull' = framesDroppedQueueFull + 1
      BY <2>1, <2>4 DEF OutOfMemory, Refuse, Decided, Filling
    <3> QED  BY <3>1, <3>2 DEF Fifo!Next, Fifo!Drop
  <2>5. CASE BeginCopy \/ EndCopy
    <3>1. \A i \in Slots : i # mPendingWriteIdx => data'[i] = data[i]
      BY <2>1, <2>5 DEF BeginCopy, EndCopy, TypeOK
    <3>2. QueueOf' = QueueOf
      BY <2>1, <2>5, <3>1, QueueUnchanged DEF BeginCopy, EndCopy
    <3>3. Decided' = Decided /\ UNCHANGED framesDroppedQueueFull
      BY <2>5 DEF BeginCopy, EndCopy, Decided, Filling
    <3> QED  BY <3>2, <3>3 DEF Fifo!fifoVars
  <2>6. CASE Publish
    <3>1. QueueOf' = Append(QueueOf, frame) /\ Len(QueueOf) < Size - 1
      BY <2>1, <2>2, <2>6, PublishAppends
    <3>2. Decided = frame - 1 /\ Decided' = frame /\ UNCHANGED framesDroppedQueueFull
      BY <2>6 DEF Publish, Decided, Filling
    <3>3. Decided + 1 = frame
      BY <2>1, <3>2
    <3> QED  BY <3>1, <3>2, <3>3 DEF Fifo!Next, Fifo!Accept
  <2>7. CASE AdvanceRead
    <3>1. QueueOf # <<>> /\ QueueOf' = Tail(QueueOf)
      BY <2>1, <2>7, AdvanceRemoves
    <3>2. Decided' = Decided /\ UNCHANGED framesDroppedQueueFull
      BY <2>7 DEF AdvanceRead, Decided
    <3> QED  BY <3>1, <3>2 DEF Fifo!Next, Fifo!Remove
  <2>8. CASE \/ SetReady \/ Signal \/ Dequeue \/ CheckReady \/ Convert \/ ClearReady \/ PollReadable
             \/ PollTimeout \/ DrainEventFd \/ UNCHANGED vars
    <3>1. /\ UNCHANGED <<mPendingWriteIdx, mPendingReadIdx, data, frame, framesDroppedQueueFull>>
          /\ ppc' \in Filling <=> ppc \in Filling
      BY <2>8 DEF SetReady, Signal, Dequeue, CheckReady, Convert, ClearReady, PollReadable,
         PollTimeout, DrainEventFd, vars, Filling
    <3>2. QueueOf' = QueueOf
      BY <2>1, <3>1, QueueUnchanged
    <3> QED  BY <3>1, <3>2 DEF Decided, Fifo!fifoVars
  <2> QED  BY <2>3, <2>4, <2>5, <2>6, <2>7, <2>8 DEF Next, Enqueue, Consume
<1> QED  BY InitQueue, NextQueue, <1>1, <1>2, PTL DEF Spec, Fifo!Spec

==============================================================================
