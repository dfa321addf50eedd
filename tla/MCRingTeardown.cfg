\* An application that injects its own rings and obeys the contract.
SPECIFICATION Spec
CONSTANTS
  r1 = r1
  r2 = r2
  Null = Null
  Rings = {r1, r2}
  Calls = {"nativeFrameBufferAllocate", "setPreviewDisplay", "setFrameBufferRing", "startPreview", "stopPreview"}
  MaxCalls = 7
  MaxFrames = 2
  DrainMayTimeOut = FALSE
CHECK_DEADLOCK FALSE
INVARIANTS
  CallbackRingIsLive
PROPERTIES
  CallsReturn
