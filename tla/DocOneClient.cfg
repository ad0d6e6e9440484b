SPECIFICATION Spec
CONSTANTS
  a = a
  b = b
  p = p
  None = None
  Docs = {d1, d2, d3}
  Contents = {a, p}
  Binary = {p}
  Blank = {}
  TextOf <- PlainTextOf
  Requests = {r1}
  Workers = {w1, w2}
  Ops = {"upload", "reindex", "extract", "delete"}
  MaxRetries = 1
  MaxCalls = 4
  MaxAborts = 0
  MaxFailures = 1
  MaxFaults = 0
  MaxLosses = 1
  MaxRedeliveries = 0
SYMMETRY Symmetry
CHECK_DEADLOCK FALSE
INVARIANTS
  NoTwins
  ObjectsKept
  IndexedIsSearchable
