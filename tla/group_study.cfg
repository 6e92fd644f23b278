\* Three actions, a group of two and one of three, ten kinds of passes.
SPECIFICATION LedgerSpec
CONSTANTS
  Functions <- ThreeFunctions
  Bodies <- ThreeBodies
  Frames <- TwoFrames
  Actions <- ThreeActions
  Studies <- GroupStudies
  Groups <- PairAndTriple
  Jobs = 2
INVARIANTS AuthorizationIsEarned PairsOfTwoCommute EvidenceIsTrue StableIsReal PayloadIsAccepted
