\* An index that one statement both adds and drops, with a guard on one of the two.
SPECIFICATION Spec
CONSTANTS
  MaxStrays = 0
  MaxCrashes = 1
  Spelling = "p"
INVARIANT AbsentGuardedDropIsOmitted
