CONSTANTS
  NumBuffers = 3
  DriverCounts = {2, 3, 4}
  Models <- MCModels
  LabelNum = 1
  ModelSide = 32
SPECIFICATION FairSpec
INVARIANTS TypeOK StreamsIntoOwnBuffers BuffersHaveOnePlace DescriptorsAreAccounted DequeueNeverBlocks HeadsByStride 
PROPERTIES LabelsStayLoaded NullPipelineIsNoticed
CHECK_DEADLOCK FALSE
