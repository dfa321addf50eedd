----------------------------- MODULE LatestFrame -----------------------------
(***************************************************************************)
(* What the triple buffer promises: a mailbox for one frame.  Frames are   *)
(* published one after the other, none skipped in the numbering; an        *)
(* acquire is a single instant at which the reader gets the newest whole   *)
(* frame, and the reader keeps exactly that frame until its release,       *)
(* however many are published meanwhile.                                   *)
(***************************************************************************)
EXTENDS Naturals

VARIABLES newest,   \* the newest published frame, 0 before the first
          held      \* the frame the reader holds, 0 if none

latestVars == <<newest, held>>

Init == newest = 0 /\ held = 0

Publish ==
  /\ newest' = newest + 1
  /\ UNCHANGED held

Acquire ==
  /\ held = 0
  /\ newest # 0
  /\ held' = newest
  /\ UNCHANGED newest

Release ==
  /\ held # 0
  /\ held' = 0
  /\ UNCHANGED newest

Next == Publish \/ Acquire \/ Release

Spec == Init /\ [][Next]_latestVars
==============================================================================
