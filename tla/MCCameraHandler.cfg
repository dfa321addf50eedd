\* A recording, and an application that opens, previews, records and releases in
\* the orders of MCScript.
SPECIFICATION HandlerFairSpec
CONSTANTS
  MaxRecordings = 1
  MaxDrain = 1
  Script <- MCScript
CHECK_DEADLOCK FALSE
INVARIANTS
  MuxerIsReady
  MovieIsComplete
  CaptureSurfaceIsLive
  StopWillBeHeard
  SurfaceMayGo
PROPERTIES
  ReleaseEnds
