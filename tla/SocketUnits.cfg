SPECIFICATION Spec
CONSTANTS
  Sockets = {s1}
  Handlers = {}
  HistoryLimit = 2
  MaxTurns = 2
  MaxConnects = 1
  MaxFailures = 1
  MaxErrors = 0
  MaxEdits = 1
CHECK_DEADLOCK FALSE
INVARIANTS
  TurnsAreUnits
