CONSTANTS
  OutLen = 2
  InboxLen = 1
  MaxFrames = 2
  MaxInbound = 0
  MaxFailures = 0
SPECIFICATION Spec
PROPERTY InOrder
CHECK_DEADLOCK FALSE
