SPECIFICATION Spec
CONSTANTS
  Columns = 2
  Values = {0, 1}
  Capacity = 1
  MaxBatch = 2
  AnyColumnOrder = TRUE
  MaxStatements = 3
  MaxOpens = 1
INVARIANT TypeOK
PROPERTY StoreSpec
CHECK_DEADLOCK FALSE
