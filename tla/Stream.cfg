SPECIFICATION MCSpec
CHECK_DEADLOCK FALSE
CONSTANTS
  Logs <- AllLogs
  GroupSize = 2
  GroupTimeout = TRUE
  StopPosition = 0
  BoundedStop = 6
  MaxReconnects = 1
  MaxFaults = 2
INVARIANTS
  BoundedRunStopsExactly
  SingleTransactionsAreWhole
  GroupIsBounded
  DdlAtMostOnce
  PassedDdlConverged
  JournalMatchesCheckpoint
  NoLoss
PROPERTIES
  
  IsReplica
  SteadyRunCommitsAll
  
