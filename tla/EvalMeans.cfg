SPECIFICATION Studies
CONSTANTS
  Chunks = {c1, c2, c3}
  Scores <- MCScores
  TopK = 1
  Extra = 1
  MaxQuestions = 2
  MaxMarkers = 2
  w1 = w1
  w2 = w2
  w3 = w3
  Words = {w1, w2, w3}
  Requesters = {q1, q2}
  Orgs = {o1, o2}
  Datasets <- MCDatasets
  Answers <- MCAnswers
  NoTruth = NoTruth
  MaxStudies = 3
SYMMETRY Symmetry
CHECK_DEADLOCK FALSE
INVARIANT RecallIsMean
