SPECIFICATION Spec
CONSTANTS
  m1 = m1
  m2 = m2
  m3 = m3
  m4 = m4
  t1 = t1
  t2 = t2
  s1 = s1
  s2 = s2
  Unborn = Unborn
  None = None
  Tasks <- MCTasks
  RecallOrder <- MCDefaultOrder
  CallerTargets <- Terminal
  Ids <- MCThreeIds
  Sessions <- MCOneSession
  SharedStore = TRUE
  Overlap = FALSE
  QueryLimit = 100
  Budgets <- MCUserMemory
INVARIANTS UserMemoryKept
CHECK_DEADLOCK FALSE
