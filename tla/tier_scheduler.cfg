SPECIFICATION FairSpec
CONSTANTS
  o1 = o1
  periodic = periodic
  caller = caller
  Gone = Gone
  Unlisted = Unlisted
  Objects <- MCObjects
  Periodic <- MCPeriodic
  Callers <- MCCallers
  Signals <- MCSignals
  Resources <- MCResources
  Coldest = 4
  PromoteAt = 72
  DemoteAt = 28
  PrefetchAt = 88
  EvictAt = 8
  AllowEvict = TRUE
  MaxChanges = 2
  MaxRequests = 1
INVARIANT TypeOK
PROPERTIES RetryChangesNothing FreshRunsMoveOneTier ReachesItsTier MigrationsEnd
