CONSTANTS
  Frames = 3
  BacklogLimit = 1
  Faults = {"poll", "push", "caps", "bus"}
SPECIFICATION FairSpec
INVARIANTS TypeOK QuiescentTeardown LoopThreadHasLoop SleepsOnlyWithoutFrames
PROPERTIES CaptureEnds StopHangsOnlyAtJoins
CHECK_DEADLOCK FALSE
