CONSTANTS
  Buffers = {b1, b2, b3}
  BacklogLimit = 1
  QueueCap = 1
  MaxBoxes = 1
  Faults = {"scale"}
  None = None
SPECIFICATION FairSpec
PROPERTIES CaptureGoesOn CapturedIsEncoded InferenceGoesOn
