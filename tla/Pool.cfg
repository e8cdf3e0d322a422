SPECIFICATION FairSpec
CONSTANTS
  PoolLists <- Lists
  MaxRetries = 2
  MayDie = {"v1"}
  MaxFaults = 2
  MaxShares = 1
INVARIANTS DestroyedClean FdOutlivesUsers
PROPERTIES ShutdownCompletes Recovers
CHECK_DEADLOCK FALSE
