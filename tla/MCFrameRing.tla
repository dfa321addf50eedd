------------------------------ MODULE MCFrameRing ------------------------------
(* TLC instances of FrameRing.                                              *)
EXTENDS FrameRing
==============================================================================
