\* The preview allocates and destroys its own ring, and may be given one instead.
SPECIFICATION Spec
CONSTANTS
  r1 = r1
  r2 = r2
  Null = Null
  Rings = {r1, r2}
  Calls = {"allocateRingBuffer", "setUseRingBuffer", "setPreviewDisplay", "destroyRingBuffer", "startPreview", "stopPreview", "reallocateRingBuffer", "nativeFrameBufferDestroy", "nativeFrameBufferAllocate", "setFrameBufferRing"}
  MaxCalls = 6
  MaxFrames = 2
  DrainMayTimeOut = TRUE
CHECK_DEADLOCK FALSE
INVARIANTS
  NothingDanglesOrLeaks
  StoppedIsQuiet
PROPERTIES
  DeletesLiveRings
