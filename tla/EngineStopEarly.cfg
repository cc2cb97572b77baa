CONSTANTS
  Frames = 2
  BacklogLimit = 1
  Faults = {"push"}
SPECIFICATION FairSpec
PROPERTY StopEndsInference
CHECK_DEADLOCK FALSE
