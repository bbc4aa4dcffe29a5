SPECIFICATION LiveSpec
CONSTANTS
  Logs <- RawLogs
  GroupSize = 1
  GroupTimeout = FALSE
  StopPosition = 0
  MaxReconnects = 1
  MaxFaults = 1
INVARIANTS
  NoBlindReplay
