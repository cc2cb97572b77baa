CONSTANTS
  Buffers = {b1, b2, b3, b4}
  BacklogLimit = 2
  QueueCap = 1
  MaxBoxes = 1
  Faults = {}
  None = None
SPECIFICATION Spec
INVARIANT NoLeak
