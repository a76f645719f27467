CONSTANTS
  Recorder = FALSE
  Ratio = 2
  RingLen = 1
  DecodedLen = 4
  StationLen = 1
  MaxChunks = 7
  MaxCalls = 3
SPECIFICATION Spec
INVARIANT DoubleBuffered
PROPERTY SpeakerStream
CHECK_DEADLOCK FALSE
