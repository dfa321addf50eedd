\* stopPreview() while the conversion thread works.
SPECIFICATION Spec
CONSTANTS
  r1 = r1
  r2 = r2
  Null = Null
  Rings = {r1, r2}
  Calls = {"nativeFrameBufferAllocate", "setPreviewDisplay", "setFrameBufferRing", "startPreview", "stopPreview"}
  MaxCalls = 5
  MaxFrames = 2
  DrainMayTimeOut = FALSE
CHECK_DEADLOCK FALSE
INVARIANT
  ConversionRingIsLive
