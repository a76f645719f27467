CONSTANTS
  OutLen = 2
  InboxLen = 1
  MaxFrames = 3
  MaxInbound = 2
  MaxFailures = 2
SPECIFICATION FairSpec
INVARIANTS TypeOK LossesExplained
PROPERTIES FramesTaken
CHECK_DEADLOCK FALSE
