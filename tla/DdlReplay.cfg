CONSTANTS
  FkTables <- MCFkTables
  FkKeys <- MCFkKeys
  FkCodes <- MCFkCodes
  FkParents <- MCFkParents
  Scale = 1
  MaxStrays = 1
  MaxCrashes = 1

SPECIFICATION MCSpec

INVARIANTS
  AppliedStatementMatchesSource
  AcceptedStatementIsExplained
  AppliedOnCurrentEvidence
  FkRepairIsExact
  ConversionsAreSound
  TablesReplaySource
  PlannedDdlAdmitted
  CoordinatesFollowTheSource
  CatalogsAreSound
