SPECIFICATION Spec
CONSTANTS
  Outputs <- MCOutputs
  MaxCrashes = 2
  MaxFaults = 1
  MaxDamage = 2
INVARIANTS
  EvidenceIsSafe
PROPERTIES
  KeepsPromise
  StagesAreDurable
  RunsEnd
CHECK_DEADLOCK FALSE
