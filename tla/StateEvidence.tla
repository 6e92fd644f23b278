--------------------------- MODULE StateEvidence ---------------------------
(***************************************************************************)
(* What a search learns of one state before it expands it: the passes are  *)
(* profiled, pairs of active passes are run in both orders, batches are    *)
(* built of passes that commute, validated all at once or on demand, and   *)
(* classified; the state is then reported complete or with the reasons why *)
(* not.  Any tool run may fail or time out, MaxFailures times at most.     *)
(*                                                                         *)
(* A state is analysed once in a run, so the pair cache of pair_cache.py   *)
(* never answers and is left out; the validation of one batch is a step    *)
(* here, its method is OrderValidation and ValidationDag.                  *)
(***************************************************************************)
EXTENDS ConflictGraph, FiniteSetsExt

CONSTANTS
  Passes,      \* the valid passes, by their position in the configuration
  Worlds,      \* what LLVM does to the module of the state
  Options,     \* how the search is called in each world
  MaxFailures  \* bound on the tool runs that fail

(***************************************************************************)
(* active: the passes that change the module.  sensitive: the pairs whose  *)
(* two orders give different modules.  agree: the batches all of whose     *)
(* orders give one module.                                                 *)
(***************************************************************************)
World == [active    : SUBSET Passes,
          sensitive : SUBSET PairsOf(Passes),
          agree     : SUBSET SUBSET Passes]

NoLimit == -1
Limits  == Nat \cup {NoLimit}

OptionRecord ==
  [lazy          : BOOLEAN,              \* pair_testing_mode is lazy
   maxPairs      : Limits,               \* max_pairs or pair_test_budget_per_state
   componentSize : Nat,                  \* max_component_size
   maxBatches    : Nat \ {0},            \* max_batch_candidates
   strategy      : {"all", "on-demand"}, \* budgeted_validation_strategy
   target        : Nat,                  \* max_batches_per_state
   weak          : SUBSET {"bounded_same", "sampled_same"}]  \* allowed verdicts

ASSUME EvidenceAssumption ==
  /\ Passes \subseteq Nat
  /\ IsFiniteSet(Passes)
  /\ MaxFailures \in Nat
  /\ \A i \in DOMAIN Worlds : Worlds[i] \in World
  /\ Options \in [DOMAIN Worlds -> OptionRecord]

\* A batch of two is validated by the very runs its pair was tested by.
ASSUME PairAssumption ==
  \A i \in DOMAIN Worlds : \A e \in PairsOf(Passes) :
     e \in Worlds[i].agree <=> e \notin Worlds[i].sensitive

VARIABLES
  world,     \* index of the world and its options
  phase,     \* where _build_validate_classify is
  profile,   \* pass_profile.csv
  pairs,     \* pair_relation.csv: the dynamic relation of each pair
  parts,     \* batch_components.csv: the conflict components
  truncated, \* batch_summary.csv: batches were cut off
  rows,      \* batch_validation.csv on disk: the status of each candidate
  schedule,  \* candidates that are being validated
  memory,    \* the rows of the validation call that is running
  attempted, \* attempted_ids of on-demand validation
  reasons,   \* _exact_incomplete_reasons
  failures   \* tool runs that failed so far

files == <<parts, truncated>>

vars == <<world, phase, profile, pairs, parts, truncated, rows, schedule, memory,
          attempted, reasons, failures>>

Opt    == Options[world]
Truth  == Worlds[world]
Active == {p \in Passes : profile[p] = "active"}

\* The pairs of passes that change the module.
Seen == PairsOf(Active)

ProfileOutcomes == {"none", "active", "inactive", "failed"}
Relations == {"none", "commute", "order_sensitive", "failed", "timeout",
              "not_tested"}
Broken   == {"failed", "incomplete", "bounded_same", "sampled_same", "not_validated"}
Statuses == {"none", "not_selected", "all_permutations_same", "mismatch"} \cup Broken
Phases   == {"profiling", "scheduling_pairs", "pairing", "building", "scheduling",
             "validating", "classifying", "reported", "raised"}

Init ==
  /\ world \in DOMAIN Worlds
  /\ phase = "profiling"
  /\ profile = [p \in Passes |-> "none"]
  /\ pairs = [e \in {} |-> "none"]
  /\ parts = {}
  /\ truncated = FALSE
  /\ rows = [B \in {} |-> "none"]
  /\ schedule = {}
  /\ memory = rows
  /\ attempted = {}
  /\ reasons = {}
  /\ failures = 0

-----------------------------------------------------------------------------
\* Every pass is run alone; one that fails is written down as not active.
ProfilePasses ==
  /\ phase = "profiling"
  /\ \E broken \in SUBSET Passes :
       /\ failures + Cardinality(broken) <= MaxFailures
       /\ failures' = failures + Cardinality(broken)
       /\ profile' = [p \in Passes |->
                        IF p \in broken THEN "failed"
                        ELSE IF p \in Truth.active THEN "active" ELSE "inactive"]
  /\ phase' = "scheduling_pairs"
  /\ UNCHANGED <<world, files, pairs, rows, schedule, memory, attempted, reasons>>

\* How many pairs are tested; a lazy budget of zero is no limit.
PairBudget ==
  IF Opt.maxPairs = NoLimit \/ (Opt.lazy /\ Opt.maxPairs = 0)
  THEN Cardinality(Seen) ELSE Min({Opt.maxPairs, Cardinality(Seen)})

\* The scores that rank the pairs are left open: any pairs may come first.
TestedSets == kSubset(PairBudget, Seen)

SchedulePairs ==
  /\ phase = "scheduling_pairs"
  /\ \E tested \in TestedSets :
       pairs' = [e \in Seen |-> IF e \in tested THEN "none" ELSE "not_tested"]
  /\ phase' = "pairing"
  /\ UNCHANGED <<world, files, profile, rows, schedule, memory, attempted, reasons, failures>>

\* Both orders are run and compared on a thread of the pool.
Relation(e) == IF e \in Truth.sensitive THEN "order_sensitive" ELSE "commute"

TestPair(e) ==
  /\ phase = "pairing"
  /\ pairs[e] = "none"
  /\ pairs' = [pairs EXCEPT ![e] = Relation(e)]
  /\ UNCHANGED <<world, files, phase, profile, rows, schedule, memory, attempted, reasons, failures>>

\* An order fails or times out, or the comparison or the materialisation's retry.
TestFails(e) ==
  /\ phase = "pairing"
  /\ pairs[e] = "none"
  /\ failures < MaxFailures
  /\ \E r \in {"failed", "timeout"} : pairs' = [pairs EXCEPT ![e] = r]
  /\ failures' = failures + 1
  /\ UNCHANGED <<world, files, phase, profile, rows, schedule, memory, attempted, reasons>>

EndPairs ==
  /\ phase = "pairing"
  /\ \A e \in DOMAIN pairs : pairs[e] # "none"
  /\ phase' = "building"
  /\ UNCHANGED <<world, files, profile, pairs, rows, schedule, memory, attempted, reasons, failures>>

\* analyze_state: the profiles of all passes, then the pairs of the active ones.
AnalyzeState ==
  \/ ProfilePasses \/ SchedulePairs \/ EndPairs
  \/ \E e \in DOMAIN pairs : TestPair(e) \/ TestFails(e)

-----------------------------------------------------------------------------
\* Faulty variant: only a pair seen to be order sensitive conflicts.
ConflictsSeen == {e \in Seen : pairs[e] = "order_sensitive"}

\* Every pair that did not commute conflicts, whatever the reason.
Conflicts == {e \in Seen : pairs[e] # "commute"}

Family == Candidates(Active, Conflicts, Opt.componentSize, Opt.maxBatches)

BuildBatches ==
  /\ phase = "building"
  /\ parts' = Components(Active, Conflicts)
  /\ truncated' = Truncated(Active, Conflicts, Opt.componentSize, Opt.maxBatches)
  /\ rows' = [B \in Family |-> "none"]
  /\ phase' = "scheduling"
  /\ UNCHANGED <<world, profile, pairs, schedule, memory, attempted, reasons, failures>>

Attempted(status) == status \notin {"none", "not_selected"}

\* A row of bounded or sampled orders executes only where it is allowed.
Executable(status) == status \in {"all_permutations_same"} \cup Opt.weak
Executables == {B \in DOMAIN rows : Executable(rows[B])}

\* Faulty variant: every id is validated, also those that have a row.
CallAgain(ids) ==
  /\ schedule' = ids
  /\ memory' = [B \in DOMAIN rows |->
                  IF B \in schedule' THEN "none"
                  ELSE IF Attempted(rows[B]) THEN rows[B] ELSE "not_selected"]
  /\ phase' = "validating"

\* A call of validate_batch_candidates for the candidates of ids.
Call(ids) ==
  /\ schedule' = {B \in ids : ~Attempted(rows[B])}
  /\ memory' = [B \in DOMAIN rows |->
                  IF B \in schedule' THEN "none"
                  ELSE IF Attempted(rows[B]) THEN rows[B] ELSE "not_selected"]
  /\ phase' = "validating"

ValidateAll ==
  /\ phase = "scheduling"
  /\ Opt.strategy = "all"
  /\ Call(DOMAIN rows)
  /\ UNCHANGED <<world, files, profile, pairs, rows, attempted, reasons, failures>>

Remaining == DOMAIN rows \ attempted

\* The largest of the candidates not attempted yet; names break ties.
IsNext(B) == B \in Remaining /\ \A D \in Remaining : Cardinality(D) <= Cardinality(B)

ValidateNext ==
  /\ phase = "scheduling"
  /\ Opt.strategy = "on-demand"
  /\ Opt.target > 0
  /\ \E B \in Remaining :
       /\ IsNext(B)
       /\ attempted' = attempted \cup {B}
       /\ Call(attempted')
  /\ UNCHANGED <<world, files, profile, pairs, rows, reasons, failures>>

ValidateNone ==
  /\ phase = "scheduling"
  /\ Opt.strategy = "on-demand"
  /\ Opt.target = 0 \/ DOMAIN rows = {}
  /\ Call({})
  /\ UNCHANGED <<world, files, profile, pairs, rows, attempted, reasons, failures>>

Verdict(B) == IF B \in Truth.agree THEN "all_permutations_same" ELSE "mismatch"

\* A candidate of the schedule is validated, on any thread and in any order.
Validate(B) ==
  /\ phase = "validating"
  /\ memory[B] = "none"
  /\ memory' = [memory EXCEPT ![B] = Verdict(B)]
  /\ UNCHANGED <<world, files, phase, profile, pairs, rows, schedule, attempted, reasons, failures>>

\* A tool fails, not all orders are tried, or the input is missing.
ValidationFallsShort(B) ==
  /\ phase = "validating"
  /\ memory[B] = "none"
  /\ failures < MaxFailures
  /\ \E s \in Broken : memory' = [memory EXCEPT ![B] = s]
  /\ failures' = failures + 1
  /\ UNCHANGED <<world, files, phase, profile, pairs, rows, schedule, attempted, reasons>>

\* An exception ends the call before its rows are written.
ValidationRaises ==
  /\ phase = "validating"
  /\ failures < MaxFailures
  /\ \E B \in schedule : memory[B] = "none"
  /\ phase' = "raised"
  /\ failures' = failures + 1
  /\ UNCHANGED <<world, files, profile, pairs, rows, schedule, memory, attempted, reasons>>

\* Faulty variant: on-demand validation goes on until the target is reached.
WriteRowsUntilTarget ==
  /\ phase = "validating"
  /\ \A B \in schedule : memory[B] # "none"
  /\ rows' = memory
  /\ schedule' = {}
  /\ phase' = IF /\ Opt.strategy = "on-demand" /\ Opt.target > 0
                 /\ Cardinality({B \in DOMAIN memory : Executable(memory[B])}) < Opt.target
              THEN "scheduling" ELSE "classifying"
  /\ UNCHANGED <<world, files, profile, pairs, memory, attempted, reasons, failures>>

\* The file is replaced as a whole, and on-demand validation looks at it again.
WriteRows ==
  /\ phase = "validating"
  /\ \A B \in schedule : memory[B] # "none"
  /\ rows' = memory
  /\ schedule' = {}
  /\ phase' = IF /\ Opt.strategy = "on-demand" /\ Opt.target > 0 /\ Remaining # {}
                 /\ Cardinality({B \in DOMAIN memory : Executable(memory[B])}) < Opt.target
              THEN "scheduling" ELSE "classifying"
  /\ UNCHANGED <<world, files, profile, pairs, memory, attempted, reasons, failures>>

-----------------------------------------------------------------------------
\* What coverage_report.csv says of an active pass.
Coverage(p) ==
  LET covering == {rows[B] : B \in {D \in DOMAIN rows : p \in D}}
      part     == {C \in parts : p \in C}
  IN  IF "all_permutations_same" \in covering THEN "certified_covered"
      ELSE IF covering \cap {"bounded_same", "sampled_same"} # {}
      THEN "heuristic_covered"
      ELSE IF \E C \in part : ~Resolved(C, Opt.componentSize) THEN "unresolved_conflict"
      ELSE IF covering # {} /\ covering \subseteq {"mismatch", "failed"}
      THEN "validation_rejected"
      ELSE IF covering # {} /\ covering \cap {"mismatch", "failed"} = {}
      THEN "unvalidated_covered"
      ELSE IF covering # {} \/ part # {} THEN "failed_or_unknown" ELSE "dropped"

Applies ==
  [lazy_budget |-> \E e \in Seen : Opt.lazy /\ pairs[e] = "not_tested",
   max_pairs   |-> \E e \in Seen : ~Opt.lazy /\ pairs[e] = "not_tested",
   truncated   |-> truncated,
   unresolved_components |-> \E C \in parts : ~Resolved(C, Opt.componentSize),
   dropped_active_passes |-> \E p \in Active : Coverage(p) = "dropped",
   missing_validation    |->
     \E B \in DOMAIN rows : rows[B] \in {"not_selected", "not_validated"},
   validation_dag_incomplete |-> \E B \in DOMAIN rows : rows[B] = "incomplete",
   non_certified |->
     \E B \in DOMAIN rows : rows[B] \notin {"all_permutations_same", "mismatch"}]

\* classify_batch_correctness, build_coverage_report and the incomplete reasons.
Report ==
  /\ phase = "classifying"
  /\ reasons' = {r \in DOMAIN Applies : Applies[r]}
  /\ phase' = "reported"
  /\ UNCHANGED <<world, files, profile, pairs, rows, schedule, memory, attempted, failures>>

ValidationStep ==
  \/ ValidateAll \/ ValidateNext \/ ValidateNone \/ ValidationRaises \/ WriteRows
  \/ \E B \in DOMAIN memory : Validate(B) \/ ValidationFallsShort(B)

Next ==
  \/ AnalyzeState \/ BuildBatches \/ ValidationStep \/ Report

\* The threads of the validation run, and every tool ends or times out.
Spec == Init /\ [][Next]_vars /\ WF_vars(ValidationStep)

-----------------------------------------------------------------------------
TypeOK ==
  /\ world \in DOMAIN Worlds
  /\ phase \in Phases
  /\ profile \in [Passes -> ProfileOutcomes]
  /\ pairs \in [DOMAIN pairs -> Relations]
  /\ DOMAIN pairs = IF phase \in {"profiling", "scheduling_pairs"}
                    THEN {} ELSE PairsOf(Active)
  /\ parts \subseteq SUBSET Active
  /\ truncated \in BOOLEAN
  /\ rows \in [DOMAIN rows -> Statuses]
  /\ DOMAIN rows \subseteq SUBSET Active
  /\ memory \in [DOMAIN memory -> Statuses]
  /\ DOMAIN memory \subseteq DOMAIN rows
  /\ schedule \subseteq DOMAIN memory
  /\ attempted \subseteq DOMAIN rows
  /\ failures \in 0 .. MaxFailures

(***************************************************************************)
(* The passes of every batch commute pairwise in LLVM, whichever runs      *)
(* failed: what could not be tested is never taken for commuting.          *)
(***************************************************************************)
BatchesCommute == \A B \in DOMAIN rows : Independent(Truth.sensitive, B)

(***************************************************************************)
(* A state reported without a reason has every largest set of passes that  *)
(* do not conflict as a decided batch, although the code never looks at    *)
(* more than one component at a time; if no tool run failed these are the  *)
(* largest sets of active passes that commute in LLVM.                     *)
(***************************************************************************)
Complete == phase = "reported" /\ reasons = {}

CompleteMeansAll ==
  Complete =>
    /\ DOMAIN rows = MaximalIndependentSets(Conflicts, Active)
    /\ \A B \in DOMAIN rows : rows[B] = Verdict(B)
    /\ failures = 0 =>
         DOMAIN rows = MaximalIndependentSets(Truth.sensitive, Truth.active)

(***************************************************************************)
(* On-demand validation passes over no larger candidate, and stops as soon *)
(* as the target is reached and not before while candidates remain.        *)
(***************************************************************************)
OnDemandIsGreedy ==
  phase \in {"classifying", "reported"} /\ Opt.strategy = "on-demand" =>
    /\ \A B \in attempted, D \in Remaining : Cardinality(D) <= Cardinality(B)
    /\ Cardinality(Executables) <= Opt.target
    /\ Remaining = {} \/ Cardinality(Executables) = Opt.target

(***************************************************************************)
(* No active pass is dropped: each is in a component and, unless batches   *)
(* were cut off, in a batch; of a complete state each is covered by a      *)
(* certified batch or all its batches were rejected.                       *)
(***************************************************************************)
NoPassIsDropped ==
  phase = "reported" =>
    \A p \in Active :
       /\ Coverage(p) # "dropped"
       /\ "truncated" \notin reasons => \E B \in DOMAIN rows : p \in B
       /\ Complete => Coverage(p) \in {"certified_covered", "validation_rejected"}

\* The report of a state says of its batches and passes what the four parts say.
ReportIsRight ==
  /\ BatchesCommute
  /\ CompleteMeansAll
  /\ OnDemandIsGreedy
  /\ NoPassIsDropped

(***************************************************************************)
(* Evidence is only added: a later call of on-demand validation keeps the  *)
(* rows of the earlier ones, and a pair is tested once.                    *)
(***************************************************************************)
EvidenceIsKept ==
  [][/\ \A B \in DOMAIN rows : Attempted(rows[B]) =>
          B \in DOMAIN rows' /\ rows'[B] = rows[B]
     /\ \A e \in DOMAIN pairs : pairs[e] # "none" =>
          e \in DOMAIN pairs' /\ pairs'[e] = pairs[e]]_vars

\* Validation comes to its end, however few candidates turn out executable.
ValidationEnds == phase = "scheduling" ~> phase \in {"classifying", "raised"}

=============================================================================
