---------------------------- MODULE MCUvcStream ----------------------------
(* TLC instances of UvcStream.                                             *)
EXTENDS UvcStream
==============================================================================
