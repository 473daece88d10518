SPECIFICATION Spec
CONSTANTS
  Columns = 1
  Values = {0, 1}
  Capacity = 2
  MaxBatch = 3
  AnyColumnOrder = FALSE
  MaxStatements = 3
  MaxOpens = 1
INVARIANT InsertedRowsSelected
CHECK_DEADLOCK FALSE
