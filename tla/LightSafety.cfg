CONSTANTS
  w1 = w1
  w2 = w2
  s1 = s1
  s2 = s2
  NoSeed = NoSeed
  Holders = {w1, w2}
  Seeds = {s1, s2}
  Size = 2
  MaxJobs = 2
  MayStop = TRUE
  MayThrow = TRUE
SPECIFICATION MCSpec
INVARIANTS SameSeedHash JobCacheAgree
PROPERTIES JobReachesWorkers StopReturns
CHECK_DEADLOCK FALSE
