SPECIFICATION Spec
CONSTANTS
  Sockets = {s1}
  Handlers = {}
  HistoryLimit = 2
  MaxTurns = 1
  MaxConnects = 1
  MaxFailures = 0
  MaxErrors = 0
  MaxEdits = 1
CHECK_DEADLOCK FALSE
PROPERTIES
  TitleFromFirstQuestion
