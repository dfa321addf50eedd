\* The renderer and one capture, each preempted anywhere; every slot is reused with and without fences.
SPECIFICATION Spec
CONSTANTS
  gl = gl
  cap = cap
  Count = 3
  Renderer = gl
  Capturers = {cap}
  MaxFrames = 4
CHECK_DEADLOCK FALSE
INVARIANTS
  ReaderSeesWholeFrame
  GpuSeesWholeFrame
  RefsMatchHolders
PROPERTIES
  ImplementsMailbox
