------------------------- MODULE MCProgramEvidence -------------------------
(* A pair and a second round, two killed processes, a fault, two damages.  *)
EXTENDS ProgramEvidence

MCOutputs == <<1..2, 3..3>>

=============================================================================
