SPECIFICATION Spec
CONSTANTS
  k1 = k1
  k2 = k2
  Size = 3
  Keys <- MCKeys
  Scores <- MCScores
  Tokens <- MCTokens
  Requests <- MCRequests
INVARIANTS PackWithinBudget NoRepeatedContent NothingElseFits BestAreCandidates
CHECK_DEADLOCK FALSE
