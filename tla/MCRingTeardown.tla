---------------------------- MODULE MCRingTeardown ----------------------------
(* TLC instances of RingTeardown: Calls says what the application does.     *)
EXTENDS RingTeardown
==============================================================================
