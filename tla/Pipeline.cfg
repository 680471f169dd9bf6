SPECIFICATION FairSpec
CONSTANTS
  Shapes <- MCShapes
  N = 3
  MaxChunks = 2
  PipeSize = 1
INVARIANTS
  NothingIsLost
  EndMeansAll
  NothingIsLeft
PROPERTIES
  PipelineEnds
CHECK_DEADLOCK FALSE
