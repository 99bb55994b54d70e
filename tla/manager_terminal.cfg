SPECIFICATION Spec
CONSTANTS
  m1 = m1
  m2 = m2
  t1 = t1
  t2 = t2
  NoRow = NoRow
  Never = Never
  Ids <- MCIds
  Tasks <- MCTasks
  GivenDeadlines <- MCGivenDeadlines
  CallerTargets <- States
  DefaultTTL = Never
  Overlap = TRUE
  MaxClock = 0
  MaxCalls = 4
PROPERTIES TerminalIsTerminal
CHECK_DEADLOCK FALSE
