--------------------------- MODULE MCHandleManager ---------------------------
(* TLC instances of HandleManager.                                         *)
EXTENDS HandleManager, TLC

\* The callers are interchangeable, and so are the objects.
Symm == Permutations(Users) \cup Permutations(Ctx)
==============================================================================
