CONSTANTS
  Frames = 2
  BacklogLimit = 1
  Faults = {}
SPECIFICATION FairSpec
PROPERTY InferenceIsJoined
CHECK_DEADLOCK FALSE
