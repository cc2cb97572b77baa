CONSTANTS
  Buffers = {b1, b2, b3, b4}
  BacklogLimit = 2
  QueueCap = 1
  MaxBoxes = 1
  Faults = {"poll", "push", "caps", "scale"}
  None = None
SPECIFICATION Spec
SYMMETRY Symmetry
INVARIANTS TypeOK NoDanglingPointer OneOwner NoTornFrame LeakBound BoxBound
PROPERTY PoolSpec
CHECK_DEADLOCK FALSE
