CONSTANTS
  r1 = r1
  q1 = q1
  q2 = q2
  Starter = Starter
  AllocatedItems = 2
  FillChunkItems = 1
  AvailCores = 2
  Readers = {}
  Waiters = {q1}
  MaxRotations = 2
  MayCancel = TRUE
  MayThrow = TRUE
SPECIFICATION FairSpec
PROPERTIES FillCompletes StartFillReturns CancelUnblocks
CHECK_DEADLOCK FALSE
