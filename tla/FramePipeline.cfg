SPECIFICATION FairSpec
CONSTANTS
  a = a
  b = b
  c = c
  d = d
  p1 = p1
  Caller = Caller
  Paths <- MCPaths
  Batches <- MCBatches
  TakenBefore <- MCTakenBefore
  WorkerCounts = {1, 2, 3}
  PoolThreads = {p1}
INVARIANTS
  TypeOK
  AheadIsBounded
  NoPanicIsLost
PROPERTIES
  OneAtATime
  NoWastedRead
  RunEnds
CHECK_DEADLOCK FALSE
