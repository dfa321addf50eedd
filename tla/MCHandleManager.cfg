\* Two callers, one lifecycle thread, two slots and three objects, so that a
\* slot is reused while a stale handle to it is still around.
SPECIFICATION Spec
CONSTANTS
  u1 = u1
  u2 = u2
  o1 = o1
  c1 = c1
  c2 = c2
  c3 = c3
  NoCtx = NoCtx
  Users = {u1, u2}
  Owners = {o1}
  Ctx = {c1, c2, c3}
  NumSlots = 2
SYMMETRY Symm
INVARIANTS
  NoUseAfterFree
  HandleNamesItsObject
  TableMatchesHeap
PROPERTIES
  StaleStaysStale
