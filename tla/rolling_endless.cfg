\* Two states that lead to each other, each with a batch that may fail for ever.
SPECIFICATION FairSpec
CONSTANTS
  IR <- Modules3
  StateHash <- Hashes3
  Batches <- TwoBatches
  BatchSize <- UnitSize
  Worlds <- Cycle3
  Options <- EndlessOptions
  None = None
PROPERTY Termination
