SPECIFICATION MCSpec
CHECK_DEADLOCK FALSE
CONSTANTS
  UserIds = {u1, u2, u3}
  Names = {a, b}
  PaymentIds = {1, 2}
  Identities = {"x"}
  MaxEvents = 3
  MaxCopies = 1
  MaxRepairDepth = 2
  GuardsEnabled = TRUE
  SchemaEvents = 4
  MaxRestarts = 1
SYMMETRY Symmetry
INVARIANTS
  
  RowsKeepTheirColumns
PROPERTIES RepairsOnlyFromSource
