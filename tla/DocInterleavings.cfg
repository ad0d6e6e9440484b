SPECIFICATION Spec
CONSTANTS
  a = a
  b = b
  p = p
  None = None
  Docs = {d1, d2}
  Contents = {a, b}
  Binary = {}
  Blank = {}
  TextOf <- PlainTextOf
  Requests = {r1, r2}
  Workers = {w1, w2}
  Ops = {"upload", "reindex", "update", "extract", "delete"}
  MaxRetries = 1
  MaxCalls = 3
  MaxAborts = 1
  MaxFailures = 0
  MaxFaults = 0
  MaxLosses = 0
  MaxRedeliveries = 1
SYMMETRY Symmetry
CHECK_DEADLOCK FALSE
INVARIANTS
  NoOrphanChunks
  OneGeneration
PROPERTIES
  ImplementsCatalog
