\* Four passes, six conflict graphs, six kinds of call, two failures anywhere. The
\* analysis stops when it is reported or an exception has left it.
SPECIFICATION Spec
CONSTANTS
  Passes <- FourPasses
  Worlds <- EvidenceWorlds
  Options <- EvidenceOptions
  MaxFailures = 2
INVARIANTS ReportIsRight
PROPERTIES EvidenceIsKept ValidationEnds
CHECK_DEADLOCK FALSE
