CONSTANTS
  Base = 4
  Digits = 3
  CompactDigits = 1
  WordSize = 16
  MinBlob = 2
  NonceEnd = 3
  NumThreads = 2
  NonceSpace = 16
  Messages <- MCMessages
  MaxMessages = 3
  MaxJobs = 2
  MaxNonce = 6
  Cpus = 2
  Available = {5, 9, 14}
  CacheSize = 1
  DatasetSize = 8
  ScratchpadSize = 1
  Reserve = 1
  FileLists <- MCFileLists
  MaxArgs = 3
SPECIFICATION MinerSpec
INVARIANTS TypeOK ShareIsValid ShareMeetsPoolTarget BudgetHolds
PROPERTIES SignalEnds
CHECK_DEADLOCK FALSE
