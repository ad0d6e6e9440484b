SPECIFICATION FairSpec
CONSTANTS
  Convs = {c1, c2}
  None = None
  MaxQuestions = 2
  MaxCalls = 3
  MaxFaults = 1
CHECK_DEADLOCK FALSE
INVARIANTS
  QuestionsGoWhereAsked
  OneLiveSocket
  CalmPageIsRight
PROPERTIES
  StreamingEnds
