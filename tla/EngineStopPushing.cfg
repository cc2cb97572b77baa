CONSTANTS
  Frames = 2
  BacklogLimit = 1
  Faults = {}
SPECIFICATION Spec
INVARIANT StopEndsPushing
CHECK_DEADLOCK FALSE
