CONSTANTS
  w1 = w1
  w2 = w2
  s1 = s1
  s2 = s2
  NoSeed = NoSeed
  Workers = {w1, w2}
  Seeds = {s1, s2}
  MaxJobs = 2
  MayStop = TRUE
SPECIFICATION FairSpec
INVARIANTS CountdownExact HashesCompleteDataset
PROPERTIES InstalledImmutable CaughtUpRebuildEnds
CHECK_DEADLOCK FALSE
