SPECIFICATION Spec
CONSTANTS
  PoolLists <- Lists
  MaxRetries = 2
  MayDie = {"v1"}
  MaxFaults = 2
  MaxShares = 1
INVARIANT NoSelfDeadlock
CHECK_DEADLOCK FALSE
