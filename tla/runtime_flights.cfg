\* Three threads and one slot; a transition, which profiling may have left a file
\* for, and a comparison.
SPECIFICATION FairSpec
CONSTANTS
  t1 = t1  t2 = t2  t3 = t3
  applied = applied  compared = compared
  Threads <- Three
  Transitions = {applied}
  Equivalences = {compared}
  Profiles = {applied}
  Slots = 1
  FlakySeeds = FALSE
  Profile = Profile  NoOne = NoOne  Failed = Failed
INVARIANTS
  FlightsAreShared
  HandlesAreClosed
PROPERTIES
  EveryCallReturns
