--------------------------- MODULE OrderValidation ---------------------------
(***************************************************************************)
(* _validate_one_batch of phasebatch/batcher.py and the classification of  *)
(* its row by phasebatch/batch_correctness.py.  A batch is validated by    *)
(* running whole orders and comparing each with the canonical one, or by   *)
(* the permutation DAG of ValidationDag, which this module composes; auto  *)
(* mode picks the method by the size of the batch and falls back to        *)
(* insertion orders when the DAG runs out of its budget.                   *)
(*                                                                         *)
(* Orders run on a pool of threads, in any order; the comparisons are made *)
(* by one thread.                                                          *)
(***************************************************************************)
EXTENDS ValidationDag

\* The batch_validation_mode, the limits (max_permutation_factorial,
\* max_validation_sequences, samples), the permissions (allow_bounded_validation,
\* allow_sampled_batches) and the DAG budget of a call.
CONSTANT Requests

ASSUME RequestAssumption ==
  Requests \subseteq [mode    : {"auto", "exhaustive", "dag", "bounded", "sampled"},
                      limits  : [factorial : Nat, sequences : Nat, samples : Nat],
                      allowed : [bounded : BOOLEAN, sampled : BOOLEAN],
                      budget  : Budgets]

VARIABLES
  mode,        \* batch_validation_mode, changed by the fallback
  limits,
  allowed,
  tier,        \* validation_tier of the row
  orders,      \* validation orders not run yet
  results,     \* order_results: the orders that were run and what they made
  failed,      \* an order or a comparison failed
  different,   \* an order was found to differ
  stage,
  rowStatus,   \* validation_status of the row; "none" until it is written
  correctness, \* correctness_class; "none" until it is classified
  executable   \* can_execute

dagVars == vars
rowVars == <<dagVars, mode, limits, allowed, tier, orders, results, failed, different,
             stage, rowStatus, correctness, executable>>

-----------------------------------------------------------------------------
AllOrders   == Orders(BatchLen)
Canonical   == [i \in 1 .. BatchLen |-> i]
OtherOrders == AllOrders \ {Canonical}

\* The module an order makes of the state, run as one pipeline.  The output of
\* the order's first pass may be the one left by profiling, which is the same.
OutputOf(o) ==
  LET after[k \in 0 .. BatchLen] ==
        IF k = 0 THEN world.root ELSE world.apply[after[k - 1]][o[k]]
  IN  after[BatchLen]

CanonicalOutput == OutputOf(Canonical)

\* The canonical order with the pass at s moved to position i.
Moved(s, i) ==
  [k \in 1 .. BatchLen |->
     LET j == IF k < i THEN k ELSE k - 1
     IN  IF k = i THEN s ELSE IF j < s THEN j ELSE j + 1]

\* The first n moves, the inner loop over positions, without those that repeat.
FirstMoves(n) ==
  {Moved(1 + (k \div BatchLen), 1 + (k % BatchLen)) : k \in 0 .. n - 1} \ {Canonical}

\* _bounded_insertion_orders: as many moves as make no more than limit orders.
InsertionOrders(limit) ==
  UNION {FirstMoves(n) : n \in {m \in 0 .. BatchLen * BatchLen :
                                  Cardinality(FirstMoves(m)) <= limit}}

\* _sampled_orders: the seeded shuffles may be any orders.
SampledOrders(limit) == {S \in SUBSET OtherOrders : Cardinality(S) <= limit}

\* The orders that may be run besides the canonical one.
Extra == IF limits.sequences = 0 THEN 0 ELSE limits.sequences - 1

FewPermutations == Cardinality(AllOrders) <= limits.factorial

\* _should_use_dag
UsesDag == mode = "dag" \/ (mode = "auto" /\ ~ FewPermutations)

DagTier ==
  [all_permutations_same |-> "permutation_dag_exact", failed |-> "failed",
   mismatch |-> "permutation_dag_mismatch", incomplete |-> "permutation_dag_incomplete"]

\* The tier and the orders of _validation_plan.
Plans ==
  CASE mode \in {"auto", "exhaustive"} ->
         IF FewPermutations
           THEN {[tier |-> "exhaustive_all_permutations", orders |-> OtherOrders]}
           ELSE {[tier |-> "unvalidated", orders |-> {}]}
    [] mode = "bounded" ->
         {[tier |-> "bounded_insertion", orders |-> InsertionOrders(Extra)]}
    [] mode = "sampled" ->
         {[tier |-> "sampled_permutations", orders |-> S] :
            S \in SampledOrders(IF limits.samples < Extra THEN limits.samples ELSE Extra)}

ReportRow(verdict) ==
  /\ rowStatus' = verdict
  /\ stage' = "classify"

-----------------------------------------------------------------------------
InitRow ==
  /\ Init
  /\ \E r \in Requests :
        /\ mode = r.mode
        /\ limits = r.limits
        /\ allowed = r.allowed
        /\ budget = r.budget
  /\ tier = "unvalidated"
  /\ orders = {}
  /\ results = {}
  /\ failed = FALSE
  /\ different = FALSE
  /\ stage = "dispatch"
  /\ rowStatus = "none"
  /\ correctness = "none"
  /\ executable = FALSE

\* No input module, no opt or no passes: the row stays not_validated.
MissingInput ==
  /\ stage = "dispatch"
  /\ ReportRow("not_validated")
  /\ UNCHANGED <<dagVars, mode, limits, allowed, tier, orders, results, failed,
                 different, correctness, executable>>

ValidateWithDag ==
  /\ stage = "dispatch"
  /\ UsesDag
  /\ stage' = "dag"
  /\ UNCHANGED <<dagVars, mode, limits, allowed, tier, orders, results, failed,
                 different, rowStatus, correctness, executable>>

RunDag ==
  /\ stage = "dag"
  /\ Next
  /\ UNCHANGED <<mode, limits, allowed, tier, orders, results, failed, different,
                 stage, rowStatus, correctness, executable>>

\* Faulty variant: the fallback is taken whenever auto mode has no certificate.
TakeDagRowLoosely ==
  /\ stage = "dag"
  /\ status # "none"
  /\ IF mode = "auto" /\ status # "all_permutations_same"
       THEN mode' = "bounded" /\ stage' = "canonical" /\ UNCHANGED <<rowStatus, tier>>
       ELSE ReportRow(status) /\ tier' = DagTier[status] /\ UNCHANGED mode
  /\ UNCHANGED <<dagVars, limits, allowed, orders, results, failed, different, correctness,
                 executable>>

\* The DAG's row is final, except that auto mode goes on with insertion orders
\* when the DAG is incomplete.
TakeDagRow ==
  /\ stage = "dag"
  /\ status # "none"
  /\ IF mode = "auto" /\ status = "incomplete"
       THEN mode' = "bounded" /\ stage' = "canonical" /\ UNCHANGED <<rowStatus, tier>>
       ELSE ReportRow(status) /\ tier' = DagTier[status] /\ UNCHANGED mode
  /\ UNCHANGED <<dagVars, limits, allowed, orders, results, failed, different, correctness,
                 executable>>

ValidateWithOrders ==
  /\ stage = "dispatch"
  /\ ~ UsesDag
  /\ stage' = "canonical"
  /\ UNCHANGED <<dagVars, mode, limits, allowed, tier, orders, results, failed,
                 different, rowStatus, correctness, executable>>

CanonicalFails ==
  /\ stage = "canonical"
  /\ ReportRow("failed")
  /\ tier' = "failed"
  /\ UNCHANGED <<dagVars, mode, limits, allowed, orders, results, failed,
                 different, correctness, executable>>

\* The canonical order ran: make the plan, or give up on too many orders.
Plan ==
  /\ stage = "canonical"
  /\ \E plan \in Plans :
        /\ tier' = plan.tier
        /\ orders' = plan.orders
        /\ IF plan.tier = "unvalidated"
             THEN ReportRow("not_validated")
             ELSE stage' = "run" /\ UNCHANGED rowStatus
  /\ UNCHANGED <<dagVars, mode, limits, allowed, results, failed, different, correctness,
                 executable>>

\* One of the pool's orders ends, with a module or with a crash or timeout.
RunOrder(o) ==
  /\ stage = "run"
  /\ o \in orders
  /\ orders' = orders \ {o}
  /\ \E ok \in BOOLEAN : results' = results \cup {[order |-> o, success |-> ok]}
  /\ UNCHANGED <<dagVars, mode, limits, allowed, tier, failed, different, stage, rowStatus,
                 correctness, executable>>

CollectResults ==
  /\ stage = "run"
  /\ orders = {}
  /\ stage' = "compare"
  /\ UNCHANGED <<dagVars, mode, limits, allowed, tier, orders, results, failed,
                 different, rowStatus, correctness, executable>>

\* A result is compared with the canonical output.  The comparison may fail, at
\* the latest when one of the outputs cannot be materialized.
CompareResult(r) ==
  /\ stage = "compare"
  /\ r \in results
  /\ results' = results \ {r}
  /\ LET out  == OutputOf(r.order)
         same == world.class[out] = world.class[CanonicalOutput]
     IN  \/ /\ failed' = TRUE
            /\ UNCHANGED different
         \/ /\ r.success
            /\ different' = (different \/ ~ same)
            /\ UNCHANGED failed
  /\ UNCHANGED <<dagVars, mode, limits, allowed, tier, orders, stage, rowStatus, correctness,
                 executable>>

\* Faulty variant: any plan without a difference certifies the batch.
StatusWithoutTier ==
  IF failed THEN "failed"
  ELSE IF different THEN "mismatch" ELSE "all_permutations_same"

\* The rowStatus of a row whose results were all compared.
ComparedStatus ==
  IF failed THEN "failed"
  ELSE IF different THEN "mismatch"
  ELSE IF tier = "exhaustive_all_permutations" THEN "all_permutations_same"
  ELSE IF tier = "bounded_insertion" THEN "bounded_same"
  ELSE "sampled_same"

Conclude ==
  /\ stage = "compare"
  /\ results = {}
  /\ ReportRow(ComparedStatus)
  /\ UNCHANGED <<dagVars, mode, limits, allowed, tier, orders, results, failed,
                 different, correctness, executable>>

\* The tiers whose rows are hard certificates.
CertifyingTiers == {"exhaustive_all_permutations", "permutation_dag_exact"}

\* classify_validation_status
ClassOf(verdict) ==
  CASE verdict = "all_permutations_same" /\ tier \in CertifyingTiers -> "certified_batch"
    [] verdict = "bounded_same"          -> "bounded_batch"
    [] verdict = "sampled_same"          -> "sampled_batch"
    [] verdict = "mismatch"              -> "rejected_batch"
    [] verdict = "failed"                -> "failed_batch"
    [] verdict \in {"incomplete", "not_validated"} -> "unvalidated_batch"
    [] OTHER                             -> "unknown_batch"

\* The classes whose batches may be executed.
Permitted ==
  {"certified_batch"}
    \cup (IF allowed.bounded THEN {"bounded_batch"} ELSE {})
    \cup (IF allowed.sampled THEN {"sampled_batch"} ELSE {})

Classify ==
  /\ stage = "classify"
  /\ correctness' = ClassOf(rowStatus)
  /\ executable' = (correctness' \in Permitted)
  /\ stage' = "done"
  /\ UNCHANGED <<dagVars, mode, limits, allowed, tier, orders, results, failed,
                 different, rowStatus>>

RowDone == stage = "done" /\ UNCHANGED rowVars

NextRow ==
  \/ MissingInput
  \/ ValidateWithDag
  \/ RunDag
  \/ TakeDagRow
  \/ ValidateWithOrders
  \/ CanonicalFails
  \/ Plan
  \/ \E o \in orders : RunOrder(o)
  \/ CollectResults
  \/ \E r \in results : CompareResult(r)
  \/ Conclude
  \/ Classify
  \/ RowDone

RowSpec == InitRow /\ [][NextRow]_rowVars

-----------------------------------------------------------------------------
(***************************************************************************)
(* Properties.                                                             *)
(***************************************************************************)

\* The row keeps the promise of a validation row, whichever method wrote it and
\* however the pool interleaves its orders (_validate_one_batch).
RowCertificate == INSTANCE BatchCertificate WITH
  IR <- IR, Hash <- Hash, Class <- Class, BatchLen <- BatchLen, Worlds <- Worlds,
  world <- world, status <- rowStatus
RowKeepsCertificate == RowCertificate!Spec

\* Types of the variables.
RowTypeOK ==
  /\ TypeOK
  /\ mode \in {"auto", "exhaustive", "dag", "bounded", "sampled"}
  /\ limits \in [factorial : Nat, sequences : Nat, samples : Nat]
  /\ allowed \in [bounded : BOOLEAN, sampled : BOOLEAN]
  /\ tier \in {"unvalidated", "exhaustive_all_permutations", "bounded_insertion",
               "sampled_permutations", "failed", "permutation_dag_exact",
               "permutation_dag_mismatch", "permutation_dag_incomplete"}
  /\ orders \subseteq OtherOrders
  /\ results \subseteq [order : OtherOrders, success : BOOLEAN]
  /\ failed \in BOOLEAN
  /\ different \in BOOLEAN
  /\ stage \in {"dispatch", "dag", "canonical", "run", "compare", "classify", "done"}
  /\ rowStatus \in RowCertificate!Verdicts \cup {"none"}
  /\ correctness \in {"none", "certified_batch", "bounded_batch", "sampled_batch",
                "rejected_batch", "failed_batch", "unvalidated_batch"}
  /\ executable \in BOOLEAN

SameAsCanonical(o) == world.class[OutputOf(o)] = world.class[CanonicalOutput]

\* A batch may be executed without its user's leave only if all its orders
\* agree, and with it only if all the insertion orders within the limit do.  A
\* failed run or comparison always forbids it (classify_validation_status).
ExecutableMeansAgreement ==
  executable =>
    /\ ~ failed
    /\ \/ \A o \in AllOrders : SameAsCanonical(o)
       \/ /\ correctness = "bounded_batch" /\ allowed.bounded
          /\ \A o \in InsertionOrders(Extra) : SameAsCanonical(o)
       \/ correctness = "sampled_batch" /\ allowed.sampled

\* When nothing failed, the outcome of a batch with few enough passes does not
\* depend on the method: auto and exhaustive certify it exactly if its orders
\* agree.
SmallBatchesAreDecided ==
  stage = "done" /\ mode \in {"auto", "exhaustive"} /\ FewPermutations
    /\ rowStatus \notin {"failed", "not_validated"} =>
      (correctness = "certified_batch" <=> OrdersAgree(world))

\* No other method overrules the DAG: a batch it rejected, or failed on, is not
\* executed (_validate_one_batch).
DagWordIsFinal == executable => status \notin {"mismatch", "failed"}

\* The class of a row says neither more nor less than its orders showed
\* (_validate_one_batch, classify_batch_correctness).
RowsAreEarned ==
  RowTypeOK /\ ExecutableMeansAgreement /\ SmallBatchesAreDecided /\ DagWordIsFinal
=============================================================================
