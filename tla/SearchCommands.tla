--------------------------- MODULE SearchCommands ---------------------------
(***************************************************************************)
(* The commands of phasebatch that search one program: optimize_batches    *)
(* and optimize_staged (the modes of LegacySearch, with StagedRun), the    *)
(* explorers, which no manifest names, and the comparison with baselines,  *)
(* which begins in a run directory that some search has left.              *)
(***************************************************************************)
EXTENDS Explorers, StagedRun, Baselines

commandVars == <<explorerVars, stagedVars, baselineVars>>

CommandInit == ExplorerInit /\ StagedInit /\ BaselinesInit

CommandNext ==
  \/ Next /\ UNCHANGED <<skipped, stagedVars, baselineVars>>
  \/ ExplorerNext /\ UNCHANGED <<stagedVars, baselineVars>>
  \/ StagedNext /\ UNCHANGED <<skipped, baselineVars>>
  \/ plan = <<>> /\ BaselinesNext /\ UNCHANGED <<skipped, stagedVars>>

CommandSpec == CommandInit /\ [][CommandNext]_commandVars

=============================================================================
