SPECIFICATION Spec
CONSTANTS
  a1 = a1
  a2 = a2
  b1 = b1
  b2 = b2
  A = A
  B = B
  t1 = t1
  t2 = t2
  t3 = t3
  Chunks = {a1, a2, b1, b2}
  Docs = {A, B}
  TextOfChunk <- MCTextOfChunk
  Tokens <- MCTokens
  DocOf <- MCDocOf
  RankConstant = 3
  MaxContextTokens = 5
  Multiplier = 2
  TopKs = {2}
  MaxMarkers = 2
  MaxWrites = 1
CHECK_DEADLOCK FALSE
INVARIANTS
  ResultsWereLive
  SharedOutranks
  ContextIsBest
  CitationsResolve
