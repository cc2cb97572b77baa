CONSTANTS
  Cells <- MCCells
  ZeroPoint <- MCZeroPoint
  Scale <- MCScale
  Readings <- MCReadings
  ClassNum = 2
  Boxes <- MCBoxes
  Threshold = 6
  NmsThreshold = 45
  ModelW = 12
  ModelH = 12
  Enlarge = 6
  MaxResults = 2
  NoCell = NoCell
SPECIFICATION FairSpec
INVARIANTS TypeOK ScoresFollowIndices BestFirst ResultIsOneCandidate NoTwins NothingIsLost
PROPERTIES ThresholdWithinOneStep Terminates
CHECK_DEADLOCK FALSE
