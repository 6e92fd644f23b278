\* Three threads for two workers.
SPECIFICATION FairSpec
CONSTANTS
  t1 = t1  t2 = t2  t3 = t3
  Threads <- Three
  Size = 2
  AnyWorker = AnyWorker  NoOne = NoOne
INVARIANTS
  PoolInvariant
  NobodyOversleeps
PROPERTIES
  CallsEnd
