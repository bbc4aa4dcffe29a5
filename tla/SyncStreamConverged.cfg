SPECIFICATION StreamSpec
CONSTANTS
  NoRow = NoRow
  NumKeys = 2
  Values = {a, b}
  UniqueIndex = FALSE
  ChunkSize = 2
  BatchSize = 2
  MaxWrites = 2
  MaxFaults = 1
INVARIANTS
  Converged
CHECK_DEADLOCK FALSE
