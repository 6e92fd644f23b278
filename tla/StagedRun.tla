------------------------------ MODULE StagedRun ------------------------------
(***************************************************************************)
(* What optimize_batches does after its search, and optimize_staged, which *)
(* runs several of them: the replay of the pipeline that was written, the  *)
(* choice of the module a stage hands to the next one (the selected state, *)
(* a reached state where the stage requires a transition, or the fastest   *)
(* executable), and the replay of all stages from the first root.          *)
(*                                                                         *)
(* Replays compare modules, not canonical hashes: two modules of one hash  *)
(* are one state of the search, but a replay may tell them apart.          *)
(***************************************************************************)
EXTENDS LegacySearch, SequencesExt

CONSTANTS
  Plans,   \* staged manifests, and <<>> for a single optimize_batches
  TopK     \* runtime.top_k

\* A stage of the manifest; rerank is also false when the runtime is disabled.
Stage == [mode : Modes \cap {"exact", "budgeted", "auto"}, require : BOOLEAN, rerank : BOOLEAN]

\* load_staged_config refuses an empty list: here it stands for optimize_batches alone.
Manifest(p) == p \in Seq(Stage)

ASSUME StagedAssumption ==
  /\ \A p \in Plans : Manifest(p)
  /\ TopK \in Nat \ {0}

VARIABLES
  plan,
  stages,    \* rows of staged_summary.csv and staged_pipeline.csv, with the handoff
  verified,  \* replay_status of the search that ended last
  replay     \* replay_status of staged_replay.csv

stagedVars == <<plan, stages, verified, replay>>
ThisStage  == plan[Len(stages) + 1]

StagedInit ==
  /\ Init
  /\ plan \in Plans /\ (plan # <<>> => asked = plan[1].mode)
  /\ stages = <<>> /\ verified = "" /\ replay = ""

\* compare_ir_equivalence: a module equals itself, another one may turn out equal
\* or different, or llvm-diff fails.
Equivalence(m, n) == IF m = n THEN {"equal"} ELSE {"equal", "different", "failed"}

\* _comparison_row.
Comparison(m, n) ==
  {CASE e = "equal" -> "success" [] e = "different" -> "mismatch" [] OTHER -> "failed" :
     e \in Equivalence(m, n)}

-----------------------------------------------------------------------------
(* The end of optimize_batches.                                            *)

\* replay_optimized_pipeline follows chosen_path.csv from the root; every segment
\* is an opt run, which may fail, but an empty pipeline needs none.
VerifyPipeline ==
  /\ pc = "done"
  /\ LET pipeline == ChosenPath(selected)
     IN verified' \in Comparison(Walk(rows[1].module, pipeline), rows[selected].module)
                        \cup (IF pipeline # <<>> THEN {"failed"} ELSE {})
  /\ pc' = "verified"
  /\ UNCHANGED <<runVars, searchVars, expanded, leaf, reasons, stop, round, frontier, queue,
                 selected, plan, stages, replay>>

-----------------------------------------------------------------------------
(* The choice of the module that is handed on.                             *)

\* Rows of leaf_states.csv that can be reranked. A module no pass changes is a
\* leaf, whatever was said of it (_prioritized_leaf_reason).
Eligible ==
  {i \in Rows : i \in HasReason \cup {selected} \/ ~ Compiler.active[rows[i].module]}

\* One representative of each hash: the selected state, else the best objective.
Preferred(i, j) ==
  IF (i = selected) # (j = selected) THEN i = selected
  ELSE Objective(i) < Objective(j) \/ (Objective(i) = Objective(j) /\ i <= j)

Representatives ==
  {i \in Eligible : \A j \in Eligible :
     Compiler.hash[rows[i].module] = Compiler.hash[rows[j].module] => Preferred(i, j)}

BestObjective(candidates) ==
  {i \in candidates : \A j \in candidates :
     Objective(i) < Objective(j) \/ (Objective(i) = Objective(j) /\ i <= j)}

\* _select_diverse_candidates: the selected state, the best objective, then the
\* fewest calls, memory operations or branches, which may be any candidate.
Shortlists ==
  LET all  == Representatives
      size == IF Cardinality(all) < TopK THEN Cardinality(all) ELSE TopK
  IN {s \in SUBSET all :
        /\ Cardinality(s) = size
        /\ selected \in s
        /\ size > 1 => BestObjective(all) \subseteq s}

\* The pipeline of a candidate follows its parents in states.csv.
Candidate(i, source) ==
  [module |-> rows[i].module, pipeline |-> rows[i].first, source |-> source]

\* The state _finish_run selected, or where it is the root of a stage that requires
\* a transition the best state that a transition leads to; there may be none.
Selection ==
  LET pipeline    == ChosenPath(selected)
      transitioned == {i \in Representatives : rows[i].first # <<>>}
  IN IF ThisStage.require /\ pipeline = <<>>
     THEN {Candidate(i, "required_transition") : i \in BestObjective(transitioned)}
     ELSE {[module |-> rows[selected].module, pipeline |-> pipeline, source |-> "ir_objective"]}

\* llc and clang may fail on any candidate, and an executable that once exits with
\* another code, in a warmup or a trial, is out.
Compiled(candidates)  == SUBSET candidates
Measured(executables) == SUBSET executables

\* The least median of run times: any candidate of a shortlist that is left.
Winners ==
  {i \in Rows : \E s \in Shortlists : \E executables \in Compiled(s) :
     \E finished \in Measured(executables) : i \in finished}

\* Faulty variant: the winner is handed on with the pipeline chosen before.
RerankedStale(choice) ==
  LET winners == {Candidate(i, "runtime_median") : i \in Winners}
      allowed == {c \in winners : ThisStage.require => c.pipeline # <<>>}
  IN {[c EXCEPT !.pipeline = choice.pipeline] : c \in allowed}
       \cup {[choice EXCEPT !.source = "ir_objective_fallback"]}

\* rerank_terminal_states: there may be no winner, and one that does not meet the
\* requirement is passed over.
Reranked(choice) ==
  LET winners == {Candidate(i, "runtime_median") : i \in Winners}
      allowed == {c \in winners : ThisStage.require => c.pipeline # <<>>}
  IN allowed \cup {[choice EXCEPT !.source = "ir_objective_fallback"]}

HandOver ==
  /\ pc = "verified" /\ Len(stages) < Len(plan)
  /\ IF Selection = {}
     THEN pc' = "raised" /\ UNCHANGED stages
     ELSE /\ \E choice \in Selection :
               \E c \in IF ThisStage.rerank THEN Reranked(choice) ELSE {choice} :
                 stages' = Append(stages, [input    |-> rows[1].module,
                                           module   |-> c.module,
                                           pipeline |-> c.pipeline,
                                           source   |-> c.source])
          /\ pc' = "handed"
  /\ UNCHANGED <<runVars, searchVars, expanded, leaf, reasons, stop, round, frontier, queue,
                 selected, plan, verified, replay>>

\* The next search starts from the copy of the handed module, in a new directory.
NextStage ==
  /\ pc = "handed" /\ Len(stages) < Len(plan)
  /\ asked' = ThisStage.mode /\ mode' = asked'
  /\ limits' \in IF asked' \in Unlimited THEN {NoLimits} ELSE Limits
  /\ rows' = RootRow(Last(stages).module)
  /\ expanded' = {} /\ leaf' = {} /\ lost' = {} /\ reasons' = {} /\ stop' = FALSE
  /\ round' = 0 /\ frontier' = <<1>> /\ children' = <<>>
  /\ queue' = <<>> /\ pending' = {}
  /\ pc' = "round" /\ selected' = 0 /\ verified' = ""
  /\ UNCHANGED <<world, plan, stages, replay>>

\* _replay_stages: the pipelines of all stages from the root of the first. It calls
\* a comparison that failed a mismatch, too.
ReplayStages ==
  /\ pc = "handed" /\ Len(stages) = Len(plan)
  /\ LET pipeline == FlattenSeq([k \in DOMAIN stages |-> stages[k].pipeline])
     IN replay' \in {IF e = "equal" THEN "success" ELSE "mismatch" :
                        e \in Equivalence(Walk(stages[1].input, pipeline), Last(stages).module)}
                      \cup (IF pipeline # <<>> THEN {"failed"} ELSE {})
  /\ pc' = "staged"
  /\ UNCHANGED <<runVars, searchVars, expanded, leaf, reasons, stop, round, frontier, queue,
                 selected, plan, stages, verified>>

StagedNext == VerifyPipeline \/ HandOver \/ NextStage \/ ReplayStages

-----------------------------------------------------------------------------

\* Two modules that the search takes for one state.
HashesCollide ==
  \E m, n \in IR : m # n /\ Compiler.hash[m] = Compiler.hash[n]

\* A replay, of one search or of all stages, never finds that the module written
\* is not the one its pipeline makes, unless two modules have one canonical hash:
\* whatever was selected, required, reranked or found again by a better path.
ReplaysAgree ==
  "mismatch" \in {verified, replay} => HashesCollide

\* A module chosen by runtime or because a transition is required comes with its
\* own pipeline even where hashes collide; the module of each stage is what the
\* next one starts from; and a stage that requires a transition hands on another
\* module than it was given, by a pipeline that is not empty, unless the fastest
\* executable is the one that a cycle of transitions led back to.
HandoversAreEarned ==
  \A k \in DOMAIN stages :
    LET s == stages[k]
    IN /\ s.source \in {"required_transition", "runtime_median"} =>
            Walk(s.input, s.pipeline) = s.module
       /\ k > 1 => s.input = stages[k - 1].module
       /\ plan[k].require =>
            s.pipeline # <<>> /\ (s.source # "runtime_median" => s.module # s.input)

StagesAreReplayed == ReplaysAgree /\ HandoversAreEarned

=============================================================================
