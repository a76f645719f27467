CONSTANTS
  Recorder = FALSE
  Ratio = 2
  RingLen = 1
  DecodedLen = 4
  StationLen = 0
  MaxChunks = 4
  MaxCalls = 3
SPECIFICATION Spec
PROPERTY StartStarts
CHECK_DEADLOCK FALSE
