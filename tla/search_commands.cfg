\* Three rounds of every mode on graphs of five modules, some with one hash.
SPECIFICATION CommandSpec
CONSTANTS
  IR <- Modules5
  StateHash <- Hashes5
  Batches <- TwoBatches
  BatchSize <- TwoThenOne
  Worlds <- Colliding5
  Modes <- AllModes
  MaxRounds = 3
  MaxStates = 4
  Limits <- AllLimits
  Plans <- TwoStages
  TopK = 2
  Compared <- ComparedWorlds
  PassLists <- ConfiguredPasses
  WalkRounds = 2
  Trials = 2
  FoundPipelines <- OnePipeline
  DefaultModule = 3
INVARIANTS PathsAreWalked ReportsAreTrue ExplorationIsFaithful StagesAreReplayed BaselinesAreFair
CHECK_DEADLOCK FALSE
