SPECIFICATION Spec
CONSTANTS
  Columns = 2
  Values = {0, 1}
  Capacity = 2
  MaxBatch = 2
  AnyColumnOrder = FALSE
  MaxStatements = 3
  MaxOpens = 2
INVARIANT SelectReturnsCompleted
INVARIANT StatementsStoredWhole
INVARIANT IndexNotBehind
CHECK_DEADLOCK FALSE
