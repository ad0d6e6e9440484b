SPECIFICATION FairSpec
CONSTANTS
  a = a
  b = b
  p = p
  None = None
  Docs = {d1}
  Contents = {a, b}
  Binary = {}
  Blank = {b}
  TextOf <- PlainTextOf
  Requests = {r1, r2}
  Workers = {w1, w2}
  Ops = {"upload", "reindex", "update", "extract", "delete"}
  MaxRetries = 1
  MaxCalls = 2
  MaxAborts = 0
  MaxFailures = 1
  MaxFaults = 1
  MaxLosses = 1
  MaxRedeliveries = 1
CHECK_DEADLOCK FALSE
INVARIANTS
  IInv
  UploadedIsOwned
PROPERTIES
  EventuallySettled
