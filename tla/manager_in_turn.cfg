SPECIFICATION FairSpec
CONSTANTS
  m1 = m1
  m2 = m2
  t1 = t1
  t2 = t2
  NoRow = NoRow
  Never = Never
  Ids <- MCIds
  Tasks <- MCTasks
  GivenDeadlines <- MCGivenDeadlines
  CallerTargets <- States
  DefaultTTL = 1
  Overlap = FALSE
  MaxClock = 2
  MaxCalls = 4
INVARIANTS AccessesCounted
PROPERTIES ImplementsContract SweepIsComplete CallsEnd
CHECK_DEADLOCK FALSE
