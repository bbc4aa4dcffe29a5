CONSTANTS
  Tables <- MCTables
  ForeignKeys <- MCForeignKeys
  KeysOf <- MCKeysOf
  NoRow = NoRow
  Parallelism = 2
  MaxFaults = 1
  MaxWrites = 1
  StreamWrites = 2

SPECIFICATION MCSpec

INVARIANTS
  StagesInOrder
  QuietRunIsNeverRefused
  
