SPECIFICATION Spec
CONSTANTS
  o1 = o1
  o2 = o2
  n1 = n1
  n2 = n2
  NoRequest = NoRequest
  NoRecord = NoRecord
  None = None
  MaxChunks = 3
  MaxDim = 2
  FailOpen = TRUE
  Objects <- MCObjects
  Names <- MCNames
  Requests <- MCRequests
INVARIANTS TypeOK LastStoredIsWhole OnlySuccessesStored DeletedMeansGone
CHECK_DEADLOCK FALSE
