CONSTANTS
  Frames <- MCFrames
  Boxes <- MCBoxes
  Thickness = 2
  MaxBoxes = 2
  NoFrame = NoFrame
SPECIFICATION Spec
CONSTRAINT FewBoxes
INVARIANTS TypeOK WritesStayInMemory DrawsTheOutlines EveryBoxIsTried
PROPERTIES MappingIsBalanced FallbackDrawsTheOutline
