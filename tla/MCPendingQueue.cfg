\* The real queue size, enough frames to go round the ring twice, and slots
\* whose buffer may fail to grow.
SPECIFICATION FairSpec
CONSTANTS
  Size = 4
  MaxFrames = 9
  AllocMayFail = TRUE
INVARIANTS
  ConvertsWholeFrame
  NoLostSignal
PROPERTIES
  ImplementsFifo
