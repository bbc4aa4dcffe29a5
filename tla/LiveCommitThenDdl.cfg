SPECIFICATION LiveSpec
CONSTANTS
  Logs <- CommitThenDdlLogs
  GroupSize = 1
  GroupTimeout = FALSE
  StopPosition = 0
  MaxReconnects = 1
  MaxFaults = 0
INVARIANTS
  AtomicSourceTransactions
