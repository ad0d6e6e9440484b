SPECIFICATION Spec
CONSTANTS
  a = a
  b = b
  p = p
  None = None
  Docs = {d1, d2}
  Contents = {a, b, p}
  Binary = {}
  Blank = {}
  TextOf <- PlainTextOf
  Requests = {r1}
  Workers = {w1, w2}
  Ops = {"upload", "update"}
  MaxRetries = 1
  MaxCalls = 4
  MaxAborts = 0
  MaxFailures = 0
  MaxFaults = 0
  MaxLosses = 0
  MaxRedeliveries = 0
SYMMETRY Symmetry
CHECK_DEADLOCK FALSE
INVARIANTS
  ObjectsKept
