SPECIFICATION FairSpec
CONSTANTS
  a = a
  b = b
  c = c
  NoRow = NoRow
  NumKeys = 3
  Values <- MCValues
  UniqueIndex = TRUE
  ChunkSize = 2
  BatchSize = 2
  MaxWrites = 1
  MaxFaults = 1
INVARIANTS
  ProgressIsBehindTarget
  CompleteTableConverged
  TargetStaysUnique
PROPERTIES
  SyncCompletes
CHECK_DEADLOCK FALSE
