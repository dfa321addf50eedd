---------------------------- MODULE MCSurfaceSwap ----------------------------
(* TLC instances of SurfaceSwap.                                           *)
EXTENDS SurfaceSwap
==============================================================================
