-------------------------- MODULE MCCaptureThread --------------------------
(* TLC instances of CaptureThread.                                         *)
EXTENDS CaptureThread
=============================================================================
