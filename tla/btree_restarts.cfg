SPECIFICATION Spec
CONSTANTS
  T = 2
  Keys = {0,1,2}
  InsertOrder = "any"
  MaxOps = 9
  MaxOpens = 2
INVARIANT TypeOK
INVARIANT InsertHasRoom
INVARIANT FoundUntilSecondSplit
PROPERTY CounterSpec
CHECK_DEADLOCK FALSE
