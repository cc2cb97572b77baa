CONSTANTS
  Frames = 2
  BacklogLimit = 1
  Faults = {}
SPECIFICATION FairSpec
PROPERTY LoopIsJoined
CHECK_DEADLOCK FALSE
