CONSTANTS
  Scale = 1
  Tables <- MCTables
  Sources <- MCSources
  Targets <- MCTargets
  Data <- MCData
  Values <- MCValues
  Parallelism = 2
  MaxFaults = 1
  MaxRuns = 2
  MaxEvents = 2
  BatchSize = 2
  ComicNames = {n, m}
  ArtistNames = {x, y}

SPECIFICATION MCSpec
SYMMETRY Symmetry

INVARIANT
  SchemaRunEndsConverged

PROPERTIES
  SchemaRunPreserves
  OrphanRepairIsSound
  GuestRepairIsSound
  ConflictsAreResolvedOnEvidence
  CutoverIsSafe
