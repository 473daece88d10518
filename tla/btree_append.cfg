SPECIFICATION FairSpec
CONSTANTS
  T = 2
  Keys = {0,1,2,3,4,5,6,7,8,9,10,11}
  InsertOrder = "append"
  MaxOps = 11
  MaxOpens = 1
INVARIANT RootCached
INVARIANT EveryKeyStoredOnce
INVARIANT Balanced
INVARIANT NoTrap
PROPERTY InsertReturns
CHECK_DEADLOCK FALSE
