CONSTANTS
  OutLen = 2
  InboxLen = 1
  MaxFrames = 1
  MaxInbound = 1
  MaxFailures = 0
SPECIFICATION Spec
PROPERTY InboundHandled
CHECK_DEADLOCK FALSE
