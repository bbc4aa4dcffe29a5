CONSTANTS
  t1 = t1
  t2 = t2
  r1 = r1
  r2 = r2
  Tables <- MCTables
  Recoveries <- MCRecoveries
  MaxEvents = 3
  MaxFaults = 1

SPECIFICATION FairSpec

INVARIANTS
  NoChangeLost
  OneRecoveryOwnsBarrier

PROPERTY
  ValidRecoveryCommits
  CheckpointNeverMovesBack

CHECK_DEADLOCK FALSE
