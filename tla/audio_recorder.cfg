CONSTANTS
  Recorder = TRUE
  Ratio = 2
  RingLen = 1
  DecodedLen = 2
  StationLen = 1
  MaxChunks = 7
  MaxCalls = 3
SPECIFICATION Spec
INVARIANTS TypeOK DoubleBuffered CaptureAccounted
PROPERTY MicStream
CHECK_DEADLOCK FALSE
