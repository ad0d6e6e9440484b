SPECIFICATION Spec
CONSTANTS
  Sockets = {s1}
  Handlers = {}
  HistoryLimit = 2
  MaxTurns = 2
  MaxConnects = 1
  MaxFailures = 0
  MaxErrors = 1
  MaxEdits = 0
CHECK_DEADLOCK FALSE
INVARIANTS
  QuestionsAreTried
  MemoryIsOrdered
