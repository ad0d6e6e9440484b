SPECIFICATION Spec
CONSTANTS
  a = a
  b = b
  p = p
  None = None
  Docs = {d1}
  Contents = {a}
  Binary = {}
  Blank = {}
  TextOf <- PlainTextOf
  Requests = {r1}
  Workers = {w1, w2}
  Ops = {"upload"}
  MaxRetries = 1
  MaxCalls = 1
  MaxAborts = 0
  MaxFailures = 0
  MaxFaults = 0
  MaxLosses = 0
  MaxRedeliveries = 1
SYMMETRY Symmetry
CHECK_DEADLOCK FALSE
INVARIANTS
  TaskIsIdempotent
