---------------------------- MODULE MCPendingQueue ----------------------------
(* TLC instances of PendingQueue.                                           *)
EXTENDS PendingQueue
==============================================================================
