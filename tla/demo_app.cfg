SPECIFICATION FairSpec
CONSTANTS
  None = None
  NoRecord = NoRecord
  Faults <- MCFaults
INVARIANTS TypeOK OldVersionGone SourceChain IsolationHolds
PROPERTIES TurnsKept StagesNeedEnter DemoEnds
CHECK_DEADLOCK FALSE
