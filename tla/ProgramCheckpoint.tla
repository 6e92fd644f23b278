------------------------- MODULE ProgramCheckpoint -------------------------
(***************************************************************************)
(* What the study promises of its programs, whatever is killed and started *)
(* again: the result of a program is decided once, by the plan of its      *)
(* checkpoint; it is a limited one just if the run control had charged     *)
(* the program before; and the plan becomes complete without a change to   *)
(* the result. ProgramEvidence (one program in detail) and StudyRun (all   *)
(* of them under the supervisor) implement it.                             *)
(***************************************************************************)
CONSTANT Programs

VARIABLES
  charged,  \* programs of which the run control holds a skip
  state,    \* of their active checkpoints: "none", "planned" or "complete"
  limited   \* programs whose result is a coverage limitation

vars == <<charged, state, limited>>

Init ==
  /\ charged = {}
  /\ state = [p \in Programs |-> "none"]
  /\ limited = {}

\* The supervisor charges programs with their budgets.
Charge == charged \subseteq charged' /\ UNCHANGED <<state, limited>>

\* The planned checkpoint of a program is published.
Plan(p) ==
  /\ state[p] = "none"
  /\ state' = [state EXCEPT ![p] = "planned"]
  /\ limited' = limited \cup ({p} \cap charged)
  /\ UNCHANGED charged

\* The complete checkpoint replaces it.
Finish(p) ==
  /\ state[p] = "planned"
  /\ state' = [state EXCEPT ![p] = "complete"]
  /\ UNCHANGED <<charged, limited>>

Next == Charge \/ \E p \in Programs : Plan(p) \/ Finish(p)

Spec == Init /\ [][Next]_vars

=============================================================================
