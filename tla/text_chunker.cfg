SPECIFICATION FairSpec
CONSTANTS
  Settings <- MCSettings
  MaxLength = 7
INVARIANTS TypeOK NothingLost PassagesStayWhole
PROPERTIES Ends
CHECK_DEADLOCK FALSE
