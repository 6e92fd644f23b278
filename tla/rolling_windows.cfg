\* Strict mode on every graph of at most two certified batches per module, and
\* continue mode with every cap on graphs that reach pruned states again.
SPECIFICATION FairSpec
CONSTANTS
  IR <- Modules5
  StateHash <- Hashes5
  Batches <- TwoBatches
  BatchSize <- UnitSize
  Worlds <- RollingWorlds
  Options <- RollingOptions
  None = None
INVARIANTS TypeOK ReportsAreTrue PathsAreReal BoundsRespected QueueIsUnexpanded
PROPERTY BoundedRunsEnd
