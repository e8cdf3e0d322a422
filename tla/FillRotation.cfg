CONSTANTS
  r1 = r1
  q1 = q1
  q2 = q2
  Starter = Starter
  AllocatedItems = 5
  FillChunkItems = 2
  AvailCores = 2
  Readers = {r1}
  Waiters = {q1}
  MaxRotations = 2
  MayCancel = TRUE
  MayThrow = TRUE
SPECIFICATION Spec
INVARIANTS TypeOK PublishedPrefixValid GuardedReadStable NoStrayFillThread CompleteMeansComputed
PROPERTIES WaitReturnsFull ImplementsPrefixStore
CHECK_DEADLOCK FALSE
