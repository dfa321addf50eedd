\* Two application threads, one preview; a callback and two windows.
SPECIFICATION CaptureFairSpec
CONSTANTS
  f1 = f1
  f2 = f2
  f3 = f3
  cb = cb
  w1 = w1
  w2 = w2
  app = app
  other = other
  None = None
  Frames = {f1, f2, f3}
  Callbacks = {cb}
  Windows = {w1, w2}
  Threads = {app, other}
  App = app
  MaxStarts = 1
  MaxSets = 2
CHECK_DEADLOCK FALSE
INVARIANTS
  OnFrameHasCallback
  FramesOnce
  WindowRefsExact
PROPERTIES
  StopPreviewReturns
