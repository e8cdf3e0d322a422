CONSTANTS
  w1 = w1
  w2 = w2
  s1 = s1
  s2 = s2
  NoSeed = NoSeed
  Workers = {w1}
  Seeds = {s1, s2}
  MaxJobs = 2
  MayStop = FALSE
SPECIFICATION FairSpec
PROPERTIES RebuildEnds
CHECK_DEADLOCK FALSE
