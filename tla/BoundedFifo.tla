----------------------------- MODULE BoundedFifo -----------------------------
(***************************************************************************)
(* What the SPSC queue between the USB callback and the conversion thread  *)
(* promises: frames, numbered in the order the camera delivers them, are   *)
(* converted in that order and none twice; a frame is lost only if it      *)
(* finds the queue full (or its buffer cannot be grown), and every loss is *)
(* counted.                                                                *)
(***************************************************************************)
EXTENDS Integers, Sequences

CONSTANTS Capacity,      \* frames the queue can hold
          AllocMayFail   \* can realloc of a slot's buffer fail?

VARIABLES queue,    \* the frames waiting, oldest first
          decided,  \* how many frames have been accepted or dropped
          dropped   \* how many of them were dropped

fifoVars == <<queue, decided, dropped>>

Init == queue = <<>> /\ decided = 0 /\ dropped = 0

Accept ==
  /\ Len(queue) < Capacity
  /\ decided' = decided + 1
  /\ queue' = Append(queue, decided + 1)
  /\ UNCHANGED dropped

Drop ==
  /\ Len(queue) = Capacity \/ AllocMayFail
  /\ decided' = decided + 1
  /\ dropped' = dropped + 1
  /\ UNCHANGED queue

Remove ==
  /\ queue # <<>>
  /\ queue' = Tail(queue)
  /\ UNCHANGED <<decided, dropped>>

Next == Accept \/ Drop \/ Remove

Spec == Init /\ [][Next]_fifoVars

\* A waiting frame does not wait for ever.
FairSpec == Spec /\ WF_fifoVars(Remove)
==============================================================================
