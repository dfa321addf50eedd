\* One owner of the surface, a controller that starts and stops the preview
\* while the owner swaps, two windows.
SPECIFICATION FairSpec
CONSTANTS
  w1 = w1
  w2 = w2
  Null = Null
  Windows = {w1, w2}
  MaxSwaps = 3
  MaxCalls = 4
  MaxFrames = 2
CHECK_DEADLOCK FALSE
INVARIANTS
  WindowRefsExact
  DrawsOnLiveWindow
PROPERTIES
  DetachReturns
  ParkedResumes
