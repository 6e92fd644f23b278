------------------------------ MODULE Baselines ------------------------------
(***************************************************************************)
(* compare_baselines: the result of a search against plain ways to choose  *)
(* passes.  It reads a run directory that a search has left, where the     *)
(* files of an earlier comparison may lie.                                 *)
(*                                                                         *)
(* Batches stand for passes here.  An opt run that fails leaves the output *)
(* of an earlier one as it is.                                             *)
(***************************************************************************)
EXTENDS LegacySearch

CONSTANTS
  Compared,       \* worlds whose run directories are compared
  PassLists,      \* valid passes, in the order of the pass configuration
  FoundPipelines, \* pipelines that the search may have found
  WalkRounds,     \* max_rounds of the comparison
  Trials,         \* random_trials
  DefaultModule   \* what default<O2> makes of the root

ASSUME BaselineAssumption ==
  /\ Compared \subseteq DOMAIN Worlds /\ DefaultModule \in IR
  /\ PassLists \cup FoundPipelines \subseteq Seq(Batches)
  /\ WalkRounds \in Nat /\ Trials \in Nat

\* Methods of a comparison, in the order of their names.
Methods ==
  <<"batch_optimizer", "config_order_once", "default_O2", "greedy_single_pass",
    "optimized_pipeline", "random_single_pass_best", "root">>

VARIABLES
  found,     \* final.ll (if any) and optimized_pipeline.txt of the run directory
  passes,    \* valid_passes
  lenient,   \* greedy_allow_nonimproving
  files,     \* outputs of an earlier comparison in baselines/, by method
  table,     \* rows of this comparison
  written,   \* rows of baseline_results.csv
  walk,      \* the greedy walk or the trial in progress
  trials     \* trial rows

runDirVars   == <<found, passes, lenient, files>>
baselineVars == <<runDirVars, table, written, walk, trials>>

Root == rows[1].module

\* final.ll and its pipeline (PathsAreWalked): modules of one hash are one state.
Results ==
  {[out |-> {}, sequence |-> <<>>]} \cup
  {[out |-> {m}, sequence |-> s] : s \in FoundPipelines,
     m \in {n \in IR : \E t \in FoundPipelines : Compiler.hash[n] = Compiler.hash[Walk(Root, t)]}}

RealResults ==
  {r \in Results : \A m \in r.out : Compiler.hash[m] = Compiler.hash[Walk(Root, r.sequence)]}

NoWalk == [module |-> Root, sequence |-> <<>>, stop |-> ""]

BaselinesInit ==
  /\ found = [out |-> {}, sequence |-> <<>>] /\ passes = <<>> /\ lenient = FALSE
  /\ table = <<>> /\ written = <<>> /\ files = <<>> /\ trials = <<>>
  /\ walk = NoWalk

SameSearch == UNCHANGED <<runVars, searchVars, expanded, leaf, reasons, stop, round, frontier,
                          queue, selected>>

\* A method's row.
Outcome(status, out, sequence, why) ==
  [status |-> status, out |-> out, sequence |-> sequence, stop |-> why]

Final(row) == CHOOSE m \in row.out : TRUE

\* What a failed opt run leaves: the file of an earlier comparison.
Left(method) == IF method \in DOMAIN files THEN {files[method]} ELSE {}

-----------------------------------------------------------------------------

RootOnly == Outcome("success", {Root}, <<>>, "")

\* What an earlier comparison of other passes has left whose opt runs did not fail,
\* if there was one.
Earlier(list, pipeline) ==
  [root |-> RootOnly, greedy_single_pass |-> RootOnly, random_single_pass_best |-> RootOnly,
   optimized_pipeline |-> Outcome("success", {Walk(Root, pipeline)}, pipeline, ""),
   config_order_once  |-> Outcome("success", {Walk(Root, list)}, list, "")]

\* The mode of the search does not matter, what it has found does.
StartComparison ==
  /\ pc = "round" /\ round = 0 /\ asked = "exact" /\ world \in Compared
  /\ found' \in RealResults /\ passes' \in PassLists /\ lenient' \in BOOLEAN
  /\ \/ UNCHANGED <<written, files>>
     \/ \E list \in PassLists \ {passes'} :
          /\ written' = Earlier(list, found'.sequence)
          /\ files' = [m \in {"optimized_pipeline", "config_order_once"} |->
                         Final(written'[m])]
  /\ pc' = "fixed"
  /\ SameSearch /\ UNCHANGED <<table, trials, walk>>

\* _run_pass_sequence_row: an empty sequence needs no opt run.
SequenceRows(method, sequence) ==
  {Outcome("success", {Walk(Root, sequence)}, sequence, "")}
    \cup (IF sequence = <<>> THEN {} ELSE {Outcome("failed", Left(method), sequence, "")})

\* The row of an LLVM pipeline shows no output unless it ran.
DefaultRows ==
  {Outcome("success", {DefaultModule}, <<>>, ""), Outcome("unsupported", {}, <<>>, "")}

SearchRow ==
  Outcome(IF found.out = {} THEN "failed" ELSE "success", found.out, found.sequence, "")

FixedRows ==
  /\ pc = "fixed"
  /\ \E d \in DefaultRows, o \in SequenceRows("optimized_pipeline", found.sequence),
        c \in SequenceRows("config_order_once", passes) :
       table' = [root |-> RootOnly, default_O2 |-> d, batch_optimizer |-> SearchRow,
                 optimized_pipeline |-> o, config_order_once |-> c]
  /\ pc' = "greedy"
  /\ SameSearch /\ UNCHANGED <<runDirVars, written, walk, trials>>

-----------------------------------------------------------------------------
(* Walks by single passes.                                                 *)

\* Positions of the passes that change the canonical hash; an opt run may fail.
Effective(m) ==
  {k \in DOMAIN passes : Compiler.hash[Compiler.apply[m][passes[k]]] # Compiler.hash[m]}

Count(m) == Compiler.objective[m]
After(k) == Compiler.apply[walk.module][passes[k]]

Step(k) ==
  walk' = [walk EXCEPT !.module = After(k), !.sequence = Append(@, passes[k])]

EndWalk(why) == walk' = [walk EXCEPT !.stop = why]

Walking == walk.stop = "" /\ Len(walk.sequence) < WalkRounds

\* The fewest instructions, then the first in the configuration.
Greediest(active) ==
  CHOOSE k \in active : \A j \in active :
    Count(After(k)) < Count(After(j)) \/ (Count(After(k)) = Count(After(j)) /\ k <= j)

GreedyRound ==
  /\ pc = "greedy" /\ Walking
  /\ \E active \in SUBSET Effective(walk.module) :
       IF active = {} THEN EndWalk("no_active_passes") ELSE
       LET k == Greediest(active)
       IN IF ~ lenient /\ Count(After(k)) >= Count(walk.module)
          THEN EndWalk("no_improving_pass")
          ELSE Step(k)
  /\ SameSearch /\ UNCHANGED <<pc, runDirVars, table, written, trials>>

\* rng.choice.
RandomRound ==
  /\ pc = "random" /\ Len(trials) < Trials /\ Walking
  /\ \E active \in SUBSET Effective(walk.module) :
       IF active = {} THEN EndWalk("no_active_passes") ELSE \E k \in active : Step(k)
  /\ SameSearch /\ UNCHANGED <<pc, runDirVars, table, written, trials>>

\* An exception in a round, such as a WorkerError of strict worker mode.
WalkFails ==
  /\ pc \in {"greedy", "random"} /\ Walking /\ (pc = "random" => Len(trials) < Trials)
  /\ EndWalk("failed")
  /\ SameSearch /\ UNCHANGED <<pc, runDirVars, table, written, trials>>

WalkRow ==
  LET why == IF walk.stop = "" THEN "max_rounds_reached" ELSE walk.stop
  IN IF why = "failed" THEN Outcome("failed", {}, walk.sequence, why)
     ELSE Outcome("success", {walk.module}, walk.sequence, why)

\* The method's row of baseline_results.csv is replaced; the others may be those of
\* an earlier comparison.
Upsert(method, row) ==
  LET With(rs) == [m \in DOMAIN rs \cup {method} |-> IF m = method THEN row ELSE rs[m]]
  IN table' = With(table) /\ written' = With(written)

GreedyDone ==
  /\ pc = "greedy" /\ ~ Walking
  /\ Upsert("greedy_single_pass", WalkRow)
  /\ walk' = NoWalk /\ pc' = "random"
  /\ SameSearch /\ UNCHANGED <<runDirVars, trials>>

\* random_trials.csv may show the count of an older file for a trial that failed,
\* which nothing reads.
TrialDone ==
  /\ pc = "random" /\ Len(trials) < Trials /\ ~ Walking
  /\ trials' = Append(trials, WalkRow)
  /\ walk' = NoWalk
  /\ SameSearch /\ UNCHANGED <<pc, runDirVars, table, written>>

\* (count, length, trial) of the trials that succeeded.
BestTrial(succeeded) ==
  CHOOSE t \in succeeded : \A u \in succeeded :
    LET p == Final(trials[t])
        q == Final(trials[u])
        short == Len(trials[t].sequence)
        long  == Len(trials[u].sequence)
    IN \/ Count(p) < Count(q)
       \/ Count(p) = Count(q) /\ (short < long \/ (short = long /\ t <= u))

RandomDone ==
  /\ pc = "random" /\ Len(trials) = Trials
  /\ LET succeeded == {t \in DOMAIN trials : trials[t].status = "success"}
         row == CASE succeeded # {} -> trials[BestTrial(succeeded)]
                  [] Trials = 0     -> Outcome("failed", {Root}, <<>>, "no_random_trials")
                  [] OTHER          -> Outcome("success", {Root}, <<>>, "no_successful_trials")
     IN Upsert("random_single_pass_best", row)
  /\ pc' = "write"
  /\ SameSearch /\ UNCHANGED <<runDirVars, walk, trials>>

\* default<...> is run without a guard for OSError or WorkerError, and any other
\* step may be interrupted: no table is written then.
Abort ==
  /\ pc \in {"fixed", "greedy", "random", "write"}
  /\ pc' = "aborted" /\ walk' = NoWalk /\ table' = <<>> /\ trials' = <<>>
  /\ SameSearch /\ UNCHANGED <<runDirVars, written>>

WriteComparison ==
  /\ pc = "write"
  /\ written' = table
  /\ pc' = "compared"
  /\ SameSearch /\ UNCHANGED <<runDirVars, table, walk, trials>>

BaselinesNext ==
  \/ StartComparison \/ FixedRows \/ GreedyRound \/ RandomRound \/ WalkFails
  \/ GreedyDone \/ TrialDone \/ RandomDone \/ Abort \/ WriteComparison

-----------------------------------------------------------------------------
(* method_comparison.md.                                                   *)

NameBefore(m, n) ==
  \E i, j \in DOMAIN Methods : Methods[i] = m /\ Methods[j] = n /\ i <= j

BestOf(methods) ==
  {m \in methods : \A n \in methods :
     LET p == Count(Final(table[m]))
         q == Count(Final(table[n]))
     IN p < q \/ (p = q /\ NameBefore(m, n))}

\* Faulty variant: every row that shows a count is a candidate.
BestOfAll == BestOf({m \in DOMAIN table : table[m].out # {}})

\* _best_method_row.
BestMethod == BestOf({m \in DOMAIN table : table[m].status = "success" /\ table[m].out # {}})

\* _beats_text looks at the counts alone.
Compares(method) ==
  /\ {"batch_optimizer", method} \subseteq DOMAIN table
  /\ table["batch_optimizer"].out # {} /\ table[method].out # {}

-----------------------------------------------------------------------------

\* A row that succeeded shows the module its passes make of the root, in this table
\* and in a baseline_results.csv that an aborted comparison left half replaced; the
\* search's module and the replay of its pipeline have one hash.
RowsAreWalked(rs) ==
  /\ \A m \in DOMAIN rs \ {"default_O2", "batch_optimizer"} :
       rs[m].status = "success" => rs[m].out = {Walk(Root, rs[m].sequence)}
  /\ {"batch_optimizer", "optimized_pipeline"} \subseteq DOMAIN rs =>
       LET o == rs["optimized_pipeline"]
           b == rs["batch_optimizer"]
       IN o.status = "success" /\ b.status = "success" =>
            Compiler.hash[Final(o)] = Compiler.hash[Final(b)]

\* A greedy walk goes down at every step unless it may do otherwise.
GreedyGoesDown ==
  ~ lenient /\ "greedy_single_pass" \in DOMAIN table =>
    LET s == table["greedy_single_pass"].sequence
    IN \A k \in DOMAIN s :
         Count(Walk(Root, SubSeq(s, 1, k))) < Count(Walk(Root, SubSeq(s, 1, k - 1)))

\* No trial that succeeded is better than the one that is reported.
NoTrialIsBetter ==
  "random_single_pass_best" \in DOMAIN table =>
    \A t \in DOMAIN trials : trials[t].status = "success" =>
      Count(Final(table["random_single_pass_best"])) <= Count(Final(trials[t]))

\* The comparison names one method that ran, none that ran is better, and the
\* search is only said to beat methods that ran, or random passes where no trial was
\* asked for: that row has failed, but shows the count of the root.
VerdictsAreEarned ==
  pc = "compared" =>
    /\ written = table
    /\ Cardinality(BestMethod) = 1
    /\ \A m \in BestMethod :
         /\ table[m].status = "success"
         /\ \A n \in DOMAIN table :
              table[n].status = "success" => Count(Final(table[m])) <= Count(Final(table[n]))
    /\ \A m \in {"greedy_single_pass", "random_single_pass_best", "default_O2"} :
         Compares(m) =>
           /\ table["batch_optimizer"].status = "success"
           /\ table[m].status = "success" \/ (m = "random_single_pass_best" /\ Trials = 0)

\* Once the rows are all there, and where a comparison was cut off, compare_baselines
\* is fair to every method, whatever failed now or was left by an earlier comparison.
BaselinesAreFair ==
  pc \in {"write", "compared", "aborted"} =>
    /\ RowsAreWalked(table) /\ RowsAreWalked(written)
    /\ GreedyGoesDown /\ NoTrialIsBetter /\ VerdictsAreEarned

=============================================================================
