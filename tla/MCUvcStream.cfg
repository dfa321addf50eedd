\* Two transfers, three frames of up to two payloads; the device may be unplugged
\* and a transfer may fail at any time.
SPECIFICATION FairSpec
CONSTANTS
  t1 = t1
  t2 = t2
  Transfers = {t1, t2}
  MaxFrames = 3
  MaxParts = 2
  MaxRetries = 1
CHECK_DEADLOCK FALSE
INVARIANTS
  StoppedIsQuiet
  FrameIsWhole
  WillBeWoken
PROPERTIES
  StopReturns
