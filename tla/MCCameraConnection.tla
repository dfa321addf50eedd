------------------------- MODULE MCCameraConnection -------------------------
(* TLC instances of CameraConnection.                                      *)
EXTENDS CameraConnection
==============================================================================
