-------------------------- MODULE MCSearchCommands --------------------------
(* Instances of the commands that search, for TLC.                         *)
EXTENDS SearchCommands, MCSearchWorlds

AllModes ==
  {"exact", "exact_continued", "budgeted", "auto",
   "explore_states", "explore_all", "explore_certified"}

AllLimits == {[batches |-> 2, frontier |-> 1], [batches |-> 1, frontier |-> 2]}

StageOf(m, require, rerank) == [mode |-> m, require |-> require, rerank |-> rerank]

\* A single search, and manifests of two stages.
TwoStages ==
  {<<>>,
   <<StageOf("exact", FALSE, TRUE), StageOf("budgeted", TRUE, FALSE)>>,
   <<StageOf("budgeted", TRUE, TRUE), StageOf("exact", FALSE, FALSE)>>}

\* The graph with colliding hashes is compared.
ComparedWorlds == {<<<<2, 3>>, <<3, 5>>, <<2, 4>>, <<1, 0>>, <<0, 0>>, "h4">>}

OnePipeline      == {<<2, 2>>}
ConfiguredPasses == {<<1, 2>>, <<2>>}

=============================================================================
