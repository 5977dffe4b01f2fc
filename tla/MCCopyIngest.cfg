SPECIFICATION FairSpec
CONSTANTS
  MaxRows = 9
  ChunkRows = 9
  BatchRows = 2
  Capacity = 2
  Canceller = {c1, c2}
INVARIANT TypeOK
PROPERTIES
  PromiseKept
  AbortEndsWorker
  ClientAnswered
CHECK_DEADLOCK FALSE
