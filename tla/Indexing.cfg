SPECIFICATION Spec
CONSTANTS
  None = None
  Docs = {1, 2}
  w1 = w1
  w2 = w2
  Workers = {w1, w2}
  MaxRetries = 1
  Size = 3
  Overlap = 1
  ParentSize = 4
  ChildSize = 2
  ChildOverlap = 1
  Target = 4
  Questions <- Asked
  Limits = {1, 5}
  Plans <- Scenarios
CHECK_DEADLOCK FALSE
INVARIANTS
  NothingLost
  SizesHold
  StructureIsKept
  VectorsFit
  NeighborsAreExact
  NoneIsForgotten
PROPERTIES
  OnlyIndexingFails
