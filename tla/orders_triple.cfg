\* Three passes, their orders run on a pool or folded into the DAG, in every mode.
SPECIFICATION RowSpec
CONSTANTS
  IR <- M3
  Hash <- M3
  Class <- M3
  BatchLen = 3
  Worlds <- TripleWorlds
  Budgets <- TripleBudgets
  Requests <- TripleRequests
INVARIANTS
  NodesAreFaithful
  IncompleteMeansOverBudget
  RowsAreEarned
PROPERTIES
  ImplementsCertificate
  RowKeepsCertificate
