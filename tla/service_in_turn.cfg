SPECIFICATION FairSpec
CONSTANTS
  m1 = m1
  m2 = m2
  m3 = m3
  m4 = m4
  t1 = t1
  t2 = t2
  s1 = s1
  s2 = s2
  Unborn = Unborn
  None = None
  Tasks <- MCTasks
  RecallOrder <- MCDefaultOrder
  CallerTargets <- Terminal
  Ids <- MCFourIds
  Sessions <- MCOneSession
  SharedStore = FALSE
  Overlap = FALSE
  QueryLimit = 100
  Budgets <- MCInTurn
INVARIANTS RetiredStaysOut ArchivedOnce UserMemoryKept
PROPERTIES StatesMoveLegally CallsEnd
CHECK_DEADLOCK FALSE
