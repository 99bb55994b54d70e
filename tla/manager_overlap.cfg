SPECIFICATION Spec
CONSTANTS
  m1 = m1
  m2 = m2
  t1 = t1
  t2 = t2
  NoRow = NoRow
  Never = Never
  Ids <- MCIds
  Tasks <- MCTasks
  GivenDeadlines <- MCGivenDeadlines
  CallerTargets <- MCNoExpiry
  DefaultTTL = 1
  Overlap = TRUE
  MaxClock = 2
  MaxCalls = 5
INVARIANTS TypeOK ExpiredOnlyWhenDue
PROPERTIES DeadlineWriteOnce
CHECK_DEADLOCK FALSE
