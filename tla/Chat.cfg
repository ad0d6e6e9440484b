SPECIFICATION FairSpec
CONSTANTS
  Sockets = {s1, s2}
  Handlers = {h1}
  HistoryLimit = 2
  MaxTurns = 3
  MaxConnects = 2
  MaxFailures = 1
  MaxErrors = 1
  MaxEdits = 1
CHECK_DEADLOCK FALSE
INVARIANTS
  AnswersHaveQuestions
  DeletedIsEmpty
  MemoryIsWhole
PROPERTIES
  WorkEnds
