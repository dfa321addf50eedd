\* Two cameras in one process, one of which is connected again after release,
\* cleanup and reset; descriptor 0 belongs to the system at first.
SPECIFICATION FairSpec
CONSTANTS
  c1 = c1
  c2 = c2
  System = System
  Free = Free
  Cameras = {c1, c2}
  Reused = {c2}
  NumFds = 3
  MaxCalls = 6
CHECK_DEADLOCK FALSE
INVARIANTS
  HandlerAlwaysRuns
