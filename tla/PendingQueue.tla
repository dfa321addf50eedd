----------------------------- MODULE PendingQueue -----------------------------
(***************************************************************************)
(* The lock-free queue of raw frames in FrameBufferRing and the loop of    *)
(* the conversion thread that empties it.                                  *)
(*                                                                         *)
(* The USB callback (producer) copies a frame into the slot at             *)
(* mPendingWriteIdx, publishes it and writes to an eventfd; the conversion *)
(* thread (consumer) works on the slot at mPendingReadIdx in place and     *)
(* gives it back afterwards.  Each action is one access to a shared atomic *)
(* or one end of an access to a slot's buffer that takes time.             *)
(***************************************************************************)
EXTENDS Integers, Sequences

CONSTANTS Size,          \* PENDING_QUEUE_SIZE
          MaxFrames,     \* bound: frames the camera delivers
          AllocMayFail   \* can ensureCapacity() fail?

ASSUME SizeAssumption == Size \in Nat /\ Size > 1
ASSUME BoundAssumption == MaxFrames \in Nat
ASSUME AllocAssumption == AllocMayFail \in BOOLEAN

Slots == 0 .. Size - 1

Succ(i) == (i + 1) % Size

\* A buffer being overwritten holds no frame.
Torn == 0

VARIABLES
  mPendingWriteIdx, mPendingReadIdx,
  ready,      \* PendingFrame.ready of each slot
  data,       \* the number of the frame in each slot, or Torn
  eventFd,    \* is the eventfd counter above zero?
  frame,      \* frames delivered so far: the number of the current one
  framesDroppedQueueFull,   \* the telemetry counter
  ppc,        \* the producer's step
  cpc,        \* the consumer's step
  taken       \* the frame the consumer found in the slot it works on

vars == <<mPendingWriteIdx, mPendingReadIdx, ready, data, eventFd, frame,
          framesDroppedQueueFull, ppc, cpc, taken>>

ProducerSteps == {"idle", "copy", "copying", "setReady", "publish", "signal"}
ConsumerSteps == {"dequeue", "checkReady", "convert", "complete", "advance", "poll", "drain"}

Init ==
  /\ mPendingWriteIdx = 0 /\ mPendingReadIdx = 0
  /\ ready = [i \in Slots |-> FALSE]
  /\ data = [i \in Slots |-> Torn]
  /\ eventFd = FALSE
  /\ frame = 0 /\ framesDroppedQueueFull = 0
  /\ ppc = "idle" /\ cpc = "dequeue" /\ taken = Torn

IsEmpty == mPendingReadIdx = mPendingWriteIdx

-----------------------------------------------------------------------------
(* Plausible bugs of the steps below; each breaks one of the properties.   *)

\* No full check at all.
IsFull_Never == FALSE

IsFull == Succ(mPendingWriteIdx) = mPendingReadIdx

\* The index is advanced, but no signal is sent.
Signal_Forgotten ==
  /\ ppc = "signal"
  /\ ppc' = "idle"
  /\ UNCHANGED <<mPendingWriteIdx, mPendingReadIdx, ready, data, eventFd, frame,
                 framesDroppedQueueFull, cpc, taken>>

\* The reader catches up with the newest frame instead of the next one.
AdvanceRead_ToNewest ==
  /\ cpc = "advance"
  /\ mPendingReadIdx' = mPendingWriteIdx
  /\ taken' = Torn
  /\ cpc' = "dequeue"
  /\ UNCHANGED <<mPendingWriteIdx, ready, data, eventFd, frame, framesDroppedQueueFull, ppc>>

-----------------------------------------------------------------------------
(* enqueuePendingFrame() and signalConversionThread(), on the USB thread   *)

Refuse ==
  /\ ppc' = "idle"
  /\ framesDroppedQueueFull' = framesDroppedQueueFull + 1

\* A frame arrives; the indices are read and a full queue refuses it.
Deliver ==
  /\ ppc = "idle"
  /\ frame < MaxFrames
  /\ frame' = frame + 1
  /\ IF IsFull THEN Refuse ELSE ppc' = "copy" /\ UNCHANGED framesDroppedQueueFull
  /\ UNCHANGED <<mPendingWriteIdx, mPendingReadIdx, ready, data, eventFd, cpc, taken>>

\* ensureCapacity() fails: the frame is dropped (and counted as queue-full).
OutOfMemory ==
  /\ ppc = "copy"
  /\ AllocMayFail
  /\ Refuse
  /\ UNCHANGED <<mPendingWriteIdx, mPendingReadIdx, ready, data, eventFd, frame, cpc, taken>>

BeginCopy ==
  /\ ppc = "copy"
  /\ data' = [data EXCEPT ![mPendingWriteIdx] = Torn]
  /\ ppc' = "copying"
  /\ UNCHANGED <<mPendingWriteIdx, mPendingReadIdx, ready, eventFd, frame,
                 framesDroppedQueueFull, cpc, taken>>

EndCopy ==
  /\ ppc = "copying"
  /\ data' = [data EXCEPT ![mPendingWriteIdx] = frame]
  /\ ppc' = "setReady"
  /\ UNCHANGED <<mPendingWriteIdx, mPendingReadIdx, ready, eventFd, frame,
                 framesDroppedQueueFull, cpc, taken>>

SetReady ==
  /\ ppc = "setReady"
  /\ ready' = [ready EXCEPT ![mPendingWriteIdx] = TRUE]
  /\ ppc' = "publish"
  /\ UNCHANGED <<mPendingWriteIdx, mPendingReadIdx, data, eventFd, frame,
                 framesDroppedQueueFull, cpc, taken>>

Publish ==
  /\ ppc = "publish"
  /\ mPendingWriteIdx' = Succ(mPendingWriteIdx)
  /\ ppc' = "signal"
  /\ UNCHANGED <<mPendingReadIdx, ready, data, eventFd, frame, framesDroppedQueueFull, cpc, taken>>

Signal ==
  /\ ppc = "signal"
  /\ eventFd' = TRUE
  /\ ppc' = "idle"
  /\ UNCHANGED <<mPendingWriteIdx, mPendingReadIdx, ready, data, frame,
                 framesDroppedQueueFull, cpc, taken>>

-----------------------------------------------------------------------------
(* do_conversion_loop(): dequeuePendingFrame(), completePendingFrame() and *)
(* waitForSignal(), on the conversion thread                               *)

Dequeue ==
  /\ cpc = "dequeue"
  /\ cpc' = IF IsEmpty THEN "poll" ELSE "checkReady"
  /\ UNCHANGED <<mPendingWriteIdx, mPendingReadIdx, ready, data, eventFd, frame,
                 framesDroppedQueueFull, ppc, taken>>

CheckReady ==
  /\ cpc = "checkReady"
  /\ IF ready[mPendingReadIdx]
     THEN cpc' = "convert" /\ taken' = data[mPendingReadIdx]
     ELSE cpc' = "poll" /\ UNCHANGED taken
  /\ UNCHANGED <<mPendingWriteIdx, mPendingReadIdx, ready, data, eventFd, frame,
                 framesDroppedQueueFull, ppc>>

\* Conversion reads the slot's buffer in place; it ends here.
Convert ==
  /\ cpc = "convert"
  /\ cpc' = "complete"
  /\ UNCHANGED <<mPendingWriteIdx, mPendingReadIdx, ready, data, eventFd, frame,
                 framesDroppedQueueFull, ppc, taken>>

ClearReady ==
  /\ cpc = "complete"
  /\ ready' = [ready EXCEPT ![mPendingReadIdx] = FALSE]
  /\ cpc' = "advance"
  /\ UNCHANGED <<mPendingWriteIdx, mPendingReadIdx, data, eventFd, frame,
                 framesDroppedQueueFull, ppc, taken>>

AdvanceRead ==
  /\ cpc = "advance"
  /\ mPendingReadIdx' = Succ(mPendingReadIdx)
  /\ taken' = Torn
  /\ cpc' = "dequeue"
  /\ UNCHANGED <<mPendingWriteIdx, ready, data, eventFd, frame, framesDroppedQueueFull, ppc>>

PollReadable ==
  /\ cpc = "poll"
  /\ eventFd
  /\ cpc' = "drain"
  /\ UNCHANGED <<mPendingWriteIdx, mPendingReadIdx, ready, data, eventFd, frame,
                 framesDroppedQueueFull, ppc, taken>>

PollTimeout ==
  /\ cpc = "poll"
  /\ cpc' = "dequeue"
  /\ UNCHANGED <<mPendingWriteIdx, mPendingReadIdx, ready, data, eventFd, frame,
                 framesDroppedQueueFull, ppc, taken>>

DrainEventFd ==
  /\ cpc = "drain"
  /\ eventFd' = FALSE
  /\ cpc' = "dequeue"
  /\ UNCHANGED <<mPendingWriteIdx, mPendingReadIdx, ready, data, frame,
                 framesDroppedQueueFull, ppc, taken>>

-----------------------------------------------------------------------------
Enqueue == OutOfMemory \/ BeginCopy \/ EndCopy \/ SetReady \/ Publish \/ Signal
Consume == Dequeue \/ CheckReady \/ Convert \/ ClearReady \/ AdvanceRead \/ PollReadable \/ DrainEventFd

Next == Deliver \/ Enqueue \/ Consume \/ PollTimeout

Spec == Init /\ [][Next]_vars

\* A call that has begun goes on, and the conversion thread runs; frames need
\* not come, and the 100 ms poll timeout is not relied on.
FairSpec == Spec /\ WF_vars(Enqueue) /\ WF_vars(Consume)

-----------------------------------------------------------------------------
TypeOK ==
  /\ mPendingWriteIdx \in Slots /\ mPendingReadIdx \in Slots
  /\ ready \in [Slots -> BOOLEAN]
  /\ data \in [Slots -> 0 .. MaxFrames]
  /\ eventFd \in BOOLEAN
  /\ frame \in 0 .. MaxFrames
  /\ framesDroppedQueueFull \in Nat
  /\ ppc \in ProducerSteps /\ cpc \in ConsumerSteps
  /\ taken \in 0 .. MaxFrames

Filling == {"copy", "copying", "setReady", "publish"}
Working == {"checkReady", "convert", "complete", "advance"}

(* The zero-copy hand-over is exclusive: while the conversion thread works  *)
(* in place on a slot the callback is writing to another one, and publishing *)
(* it will not wrap onto the reader, although the full check was made with  *)
(* a read index that has gone stale since.                                  *)
ExclusiveSlots ==
  /\ cpc \in Working => mPendingReadIdx # mPendingWriteIdx
  /\ ppc \in Filling => Succ(mPendingWriteIdx) # mPendingReadIdx

(* The converted data is one whole frame: what was in the slot when it was  *)
(* dequeued is there, untorn, until the slot is given back.                 *)
ConvertsWholeFrame ==
  cpc \in {"convert", "complete", "advance"} => taken # Torn /\ data[mPendingReadIdx] = taken

(* No wake-up is lost: if the conversion thread is about to block while     *)
(* frames are waiting, the eventfd is readable or the callback has yet to   *)
(* signal.                                                                  *)
NoLostSignal == cpc = "poll" /\ ~IsEmpty => eventFd \/ ppc = "signal"

(* A published slot is ready: the second check of dequeuePendingFrame()     *)
(* never sends the thread to sleep with a frame waiting.                    *)
PublishedIsReady == cpc = "checkReady" => ready[mPendingReadIdx]

\* The number of frames waiting, and the frames.
Waiting == (mPendingWriteIdx - mPendingReadIdx) % Size
QueueOf == [i \in 1 .. Waiting |-> data[(mPendingReadIdx + i - 1) % Size]]

\* A frame is decided once it is refused or published.
Decided == IF ppc \in Filling THEN frame - 1 ELSE frame

Fifo == INSTANCE BoundedFifo WITH Capacity <- Size - 1, queue <- QueueOf,
                                  decided <- Decided, dropped <- framesDroppedQueueFull

(* The queue implements the bounded FIFO: order is kept, nothing is lost or *)
(* duplicated unless the queue is full, every loss is counted, and a        *)
(* waiting frame is eventually converted without the help of the timeout.   *)
ImplementsFifo == Fifo!FairSpec

==============================================================================
