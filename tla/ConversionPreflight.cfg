\* Every conversion of a column of the target, the ones no preflight looks at included.
SPECIFICATION Spec
CHECK_DEADLOCK FALSE
CONSTANTS
  FkTables <- MCFkTables
  FkKeys <- MCFkKeys
  FkCodes <- MCFkCodes
  FkParents <- MCFkParents
  Scale = 1
INVARIANT EveryConversionLosesNothing
