# A formal model of PhaseBatch

PhaseBatch looks for good orders of LLVM passes. It tests which passes of a module
commute, groups those that do into *batches*, validates that every order of a batch
gives the same module, and then searches the graph whose states are modules (up to
a canonical hash) and whose edges are certified batches. To make that affordable it
runs passes in long-lived worker processes which keep modules in memory under
reference counts, shares the work of the threads that validate batches, and caches
at every level.

A long-running study repeats this for many programs under a supervisor that kills
and restarts it.

This directory models the parts of that system in which something can go wrong
that its tests hardly reach: the bookkeeping of the searches, what counts as
evidence, the folding of orders, the sharing between threads, the accounting of
handles in processes that die, and what a study leaves on disk whenever it is
killed. The study asks a question of its own, whether one may tell from single runs
which passes can go last in a group, and that rule and its evidence are modelled too.
File names below are relative to `phasebatch/` unless they say otherwise.

- [The system](#the-system): components, state, interaction, hazards
- [The modules](#the-modules): which module models what, and how
- [The runs](#the-runs): what TLC checks, in which bounds
- [The proofs](#the-proofs): what TLAPS proves, and how
- [Findings](#findings): where code and documentation part
- [What is not modelled](#what-is-not-modelled)
- [Plan](#plan)

To repeat a run: `tlc -config rolling_windows.cfg MCRollingSearch.tla`. To repeat a
proof: `tlapm RollingSearchProofs.tla`. `PROJECT.json` lists the runs with their
properties, the lines of source behind each definition, the hazards and, for each
property, a fault in the code that breaks it.

## The system

```
 cli.py, staged_optimizer.py, experiments/...          one thread per program
        |
 optimizer.py      the searches: rolling-exact (default), exact, budgeted
        |             state DAG, path bookkeeping, frontier, caps
        |---- per state -------------------------------------------------------
        | profiler.py, state_analysis.py      which passes change the module
        | pair_tester.py, pair_cache.py       which passes commute (thread pool)
        | graph.py, batcher.py                batches, validation (thread pools)
        |      batch_validation_dag.py        all orders of a batch as a DAG
        |      batch_correctness.py           may a batch be executed
        | validation_runtime.py               slots, single flight, caches, handles
        |
 runner.py --> opt_backend.py --> opt_worker.py ==pipe==> worker/phasebatch_worker.cpp
              path cache,         pool, locks,            modules by content hash,
              retries, results    restarts                reference counts
```

| component | state it keeps | operations | what makes it correct |
|---|---|---|---|
| Rolling-exact search (`optimizer.py`) | state rows, edges, best path of each state, roots, expanded and pruned sets, reasons for incompleteness | expand a state, apply a batch, commit a frontier, select the result | *complete* is only claimed when nothing was left out; reported paths exist; caps hold; it ends |
| Exact and budgeted search (`optimizer.py`) | the same DAG as rows; a beam; reasons of leaves | as above, in rounds | the path compared is the path written; what was lost is reported |
| Evidence of a state (`optimizer.py`, `batcher.py`, `graph.py`) | profile, pair relations, components, candidates and their rows | profile, test pairs, build batches, validate all or on demand, report | nothing untested counts as commuting; *complete* means every maximal batch was decided |
| Permutation-DAG validation (`batch_validation_dag.py`) | nodes per subset of passes, transitions, budgets | run a layer, fold an outcome, give a verdict | a certificate is right for all *n*! orders although few were run |
| Batches and their rows (`batcher.py`, `graph.py`, `batch_correctness.py`) | rows of candidates and their validation | build batches, choose a method, run orders, classify | only what was shown may be executed |
| Validation runtime (`validation_runtime.py`) | two caches, flights, slots, owned handles | get or compute, seed, close | one computation per key, nobody waits for ever, no handle is lost |
| Backend (`opt_backend.py`, `runner.py`, `tools.py`) | cache of paths per worker, owned results | run, run from a result, materialize, release, retry | results are right whatever was cached; references add up, but for missing outputs |
| Worker and pool (`opt_worker.py`) | queue of workers, closed flag, process, generation, request lock | check out, request, restart, close | no worker is lost or shared, nothing outlives close |
| Worker program (`worker/phasebatch_worker.cpp`) | modules by handle, reference counts | load, apply, compare, materialize, retain, release | counts are those its client believes in |
| Pair testing (`pair_tester.py`, `pair_cache.py`, `pair_cost.py`, `pair_scheduling.py`, `relation.py`) | pair results by key, on disk | test, reuse | a cached relation is that of the module at hand |
| IR equality (`ir_equivalence.py`, `normalizer.py`, `equality_summary.py`) | none | compare by hash, by `llvm-diff`, by fingerprint | equal means foldable |
| State analysis (`state_analysis.py`, `profiler.py`, `footprint.py`, `ir_parser.py`, `pass_config.py`, `pass_audit.py`, `coverage.py`) | files of one state | profile passes | an inactive pass does not change the module |
| Objective, explorers (`batch_objective.py`, `batch_explorer.py`, `explorer.py`) | rows, a queue or a layer, skipped batches | expand a state by passes or batches | what the limits do not cut off is in the graph, each state at its least depth |
| Staged optimizer, rerank (`staged_optimizer.py`, `staged_config.py`, `runtime_rerank.py`) | stages and their outputs | run a stage, choose by requirement or run time, hand over, replay | a stage starts from what the one before left, and its pipeline makes the module |
| Replay, baselines (`pipeline_replay.py`, `baselines.py`, `path_diagnostic.py`) | rows of methods, trials, outputs of older comparisons | replay a path; walk by greed or at random; compare | the path gives the module it was chosen for; no method wins with what it did not do |
| Cleanup (`artifact_cleanup.py`) | files on disk | delete what nobody needs | nothing needed is deleted |
| Study control (`experiments/advisor_pair_scale_2n_20260719/advisor_study/run_control.py`, `supervisor.py`, `cli.py`, `study.py`, `aggregate.py`) | a frozen tree, skips, the program under way, a writer lock, an audit chain, child processes, raw handoffs, the two directories of a summary | prepare, start a child, watch it, kill, charge, restart, hand over, summarize | evidence is that of the frozen inputs; what is handed over is what the checkpoints say; it ends |
| Evidence of a program (`orchestration.py`, `program_runtime.py`, `cleanup.py` there) | stage directories and backups, checkpoint, quarantine and journal | publish a stage, plan, move and delete outputs, complete | no evidence lost or half deleted, whatever is killed when |
| Group merge (`pair_matrix.py`, `direct_merge.py`, `orchestration.py`, `merge_helper/phasebatch_2n_merge.cpp` there) | runs on the root, pair matrix, rows of the groups, replays, a helper process | run an action, merge the outputs of others, run on the merge, compare, replay | an authorised action goes last with the result of any order; what is reported as stable is real |
| Tables of a program (`pair_matrix.py`, `program_runtime.py`, `cli.py`, `aggregate.py` there) | rows of a decided program, measured or recovered | make rows, recover, validate, aggregate | no row is refused by its readers; the tables agree with what happened |

Reports, figures, the command line, the differential audit of the worker and the
two experiments' data aggregation keep no state that another part depends on.

**Interaction.** The search is one thread and calls everything below it
synchronously. Below a state there are three pools of threads (pairs, candidates,
orders or DAG layers), which meet in `ValidationRuntime` (locks and futures) and in
`WorkerPool` (a condition). `WorkerPool` gives a worker to one call at a time, so
the requests on one process are sequential, but each request starts the process if
it is not running, so a process may be *another* one in the middle of a call. A
study's supervisor and its child meet in files only: the event that names the
program under way, the run control, and the lock of the writer.

**What is hard.** Completeness claims after hundreds of windows in which states are
pruned and reached again; folding, which replaces running an order by trusting a
congruence; a failing owner of a flight; waiting for a slot while others wait for
you; a process dying between any two requests; an eviction of what is about to be
used; a kill between any two writes of a publication, a plan or a deletion.
`PROJECT.json` lists the hazards, each at its line, with the properties that
would catch it.

## The modules

| module | models | main source |
|---|---|---|
| `SearchWorld` | what the searches can see of LLVM; paths and their order | parameters of the next two; `optimizer.py` |
| `RollingSearch` | the rolling-exact search | `optimizer.py`, `_run_rolling_exact` and its helpers |
| `LegacySearch` | the exact and the budgeted search, and the automatic choice | `optimizer.py`, `_run_exact`, `_run_budgeted`, `_finish_run` |
| `Explorers` | the searches that only explore | `explorer.py`, `batch_explorer.py` |
| `StagedRun` | replay of a search, stages, rerank by run time | `staged_optimizer.py`, `runtime_rerank.py`, `pipeline_replay.py` |
| `Baselines` | the comparison of a result with plain ways to choose passes | `baselines.py` |
| `SearchCommands` | composes the last four | the commands of `cli.py` |
| `ConflictGraph` | conflict components, maximal batches, truncation: pure operators | `batcher.py`, `graph.py` |
| `StateEvidence` | profiling, pair tests, batches, validation and report of a state | `optimizer.py`, `batcher.py`, `pair_tester.py`, `coverage.py` |
| `BatchWorld` | what validation can see of LLVM, and histories of orders | parameters of the next three |
| `BatchCertificate` | abstract: what a validation row promises | the contract of `batch_correctness.py` |
| `ValidationDag` | the permutation DAG of a batch | `batch_validation_dag.py` |
| `OrderValidation` | validation by orders, choice of method, classification | `batcher.py`, `batch_correctness.py` |
| `ValidationRuntime` | single flight, slots, owned handles, close | `validation_runtime.py` |
| `OptBackend` | path cache, references, restarts, retries of one worker | `opt_backend.py`, `opt_worker.py`, `phasebatch_worker.cpp` |
| `WorkerPool` | checkout, requests, close, between threads | `opt_worker.py` |
| `ProgramCheckpoint` | abstract: a program's result is decided once | the contract of the checkpoints |
| `DurableStage` | abstract: a stage is replaced by one atomic write | the contract of `orchestration.py` |
| `ProgramEvidence` | stages, plan, cleanup and complete checkpoint of one program | `orchestration.py`, `program_runtime.py`, `cleanup.py` |
| `StudyPrepare` | the frozen tree of a study, and who asks for it | `study.py`, `cli.py` |
| `StudyRun` | supervisor, children, charges, progress and handoff of a study | `supervisor.py`, `run_control.py`, `cli.py` |
| `StudySummary` | composes prepares, supervised runs and summaries | `cli.py`, `aggregate.py` |
| `BodyPatch` | modules as frame and bodies, patches, merges, effects: pure operators | `merge_helper/phasebatch_2n_merge.cpp` |
| `GroupEvaluation` | the direct-merge rule on a group, behind its helper process | `direct_merge.py`, `pair_matrix.py` |
| `GroupStudy` | all of one program: runs on the root, pair matrix, groups, replays | `orchestration.py`, `pair_matrix.py`, `cli.py` |
| `ProgramRows` | the rows of a program, complete or recovered, their validators and the tables made of them | `cli.py`, `pair_matrix.py`, `program_runtime.py`, `aggregate.py` |
| `ProgramLedger` | the cleanup of a decided program: what is kept and why, the ledger, and its readers | `cleanup.py`, `program_runtime.py`, `cli.py`, `aggregate.py` |
| `*Proofs` | theorems about the module they extend | |
| `MC*` | instances for TLC | |

Definitions introduced by "Faulty variant" are not part of a specification: each is
a plausible bug in the definition that follows it, used to see that a property can
tell the two apart.

### RollingSearch

One step is one iteration of one of the nested loops. The optimizer is a single
thread, so a step is atomic. LLVM is a *world*: a finite graph of modules with
their hash (which need not be injective), objective, activity, certifiable batches
and what each batch makes of each module. A world is chosen initially from
`Worlds` and never changes. What the program does not control is
nondeterministic: the evidence of a state may have a gap (pairs skipped, a
validation out of budget), and applying a batch may fail.

| variable | code |
|---|---|
| `states`, `num`, `input` | `hash_to_state_id`, the number in `S0000`…, `state_input_by_id` |
| `pathInfo`, `parentByChild` | `path_info_by_state`, `parent_by_child` |
| `built` | the evidence files a state directory already has |
| `roots`, `fullyExpanded`, `closedCandidates`, `everPruned` | `frontier_root_ids` and the sets of the same names |
| `exactReasons`, `stopped`, `continued` | the reasons by kind and the two flags the status is made of |
| `localFrontier`, `localSeen`, `nextFrontier`, `localDepth` | the locals of a window |
| `current`, `pending`, `parentComplete` | the loop over the batches of one parent |

`FrontierChoice` keeps the code's guarantee (all open states if they fit, else
exactly the width, one of them the best by objective) and leaves the diversity
scores open. `KeyBefore` leaves out the certified ratio of the selection key,
which is always one in this mode. The number of windows is counted only when it is
capped, which keeps the state space of an uncapped search finite; nothing else
reads it.

`Options` gives each world the way the search is called in it, so that one run can
take small graphs in strict mode and larger ones under every cap.

### LegacySearch, Explorers, StagedRun, Baselines, SearchCommands

The two older searches go round by round over the rows of a frontier, and share
everything but what they do with evidence, caps and duplicates; `mode` is one of
`exact`, `exact_continued` (without `exact_fail_on_incomplete`) and `budgeted`, and
`asked` may also be `auto`, which looks at the batches of the root and at the limits.
`rows` is `state_rows` with the entries of `parent_by_child` and
`path_info_by_state`, since each row has one of each; `copyOf` is the
`duplicate_of` of the budgeted search. The policies that rank batches and states
choose any of them. `lost` is a history variable: the batches that failed to apply,
for which the exact search gives no reason.

The explorers have the rows in common with the searches, but a row of its own for
every child, and go by a queue (`explore_states`) or by layers (`explore_batches`).
`lost` also holds what a limit cut off there, and `skipped` what may not be executed.

A row has two paths: the recorded one, which a better path replaces, and `first`, along
the parents written in `states.csv`. The search writes the pipeline along the first
kind, a rerank or a required transition takes the second. Where two modules have one hash
the two may lead to different modules of one state: then a replay can find that the
module written is not what its pipeline makes, and `ReplaysAgree` says that it finds so
in no other case.

`StagedRun` is what comes after a search. `VerifyPipeline` replays the pipeline;
`HandOver` chooses the module of a stage: `Selection`, then the shortlist, what of it
can be compiled (`Compiled`) and measured (`Measured`), and a winner that may be any of those
left, since run times are not modelled. `NextStage` starts the next search in a new directory, so
all variables of the search begin again; `ReplayStages` runs the pipelines of all stages.
A plan is a sequence of stages, and the empty one stands for a single search.

`Baselines` begins where a search has left its directory: `found` is any module with
the pipeline that `PathsAreWalked` allows, and the files and rows of an older comparison of
other passes may lie there. The greedy walk and the random trials share `walk`. An opt run
that fails, or an exception, or the end of the whole process (`Abort`) may come anywhere.

### ConflictGraph, StateEvidence

`ConflictGraph` is the construction of batches, as operators on a set of passes and a
set of conflicting pairs. Components are defined by closure instead of a traversal;
maximal independent sets are found in each component and combined by
`BatchFamily`, as in the code; that the combinations are just the maximal
independent sets of the whole graph is a theorem.

`StateEvidence` is `_build_validate_classify`: its variables are the files of the
state directory (`profile`, `pairs`, `parts`, `truncated`, `rows`) and the locals of
the validation call under way (`schedule`, `memory`). A world says which passes
change the module, which pairs are order sensitive and which batches agree; every
tool run may fail or time out. A validation call rewrites the whole file from what it
read and what it validated (`Call`, `WriteRows`), on-demand validation calls again
with one more candidate, and an exception leaves the file as it was.

### BatchWorld, BatchCertificate, ValidationDag, OrderValidation

A batch is `1 .. BatchLen`, its canonical order. A world gives each module its
hash, its class (what `compare_ir_equivalence` would say of two modules) and what
each pass makes of it. `FoldAssumption` states the premise of folding: equal
hashes are of one class, and passes respect classes. The code relies on it whenever
it continues from one representative and checks it nowhere; it is an assumption of
every soundness result here, and TLC checks that the instances satisfy it.

`BatchCertificate` is the abstract specification: a row gets one verdict, once;
`all_permutations_same` only if all orders agree, `mismatch` only if two do not, and
anything else promises nothing. `ValidationDag` is shown to implement it
(`ImplementsCertificate`), and so is `OrderValidation`, which composes the DAG with
the validation by orders (`RowKeepsCertificate`): its variables are the DAG's and
those of the row, and `RunDag` is a step of the DAG.

In `ValidationDag` a layer is selected (`transition_specs[:remaining_edges]`), its
transitions run on threads, and `executor.map` hands the outcomes to one loop in
spec order; so `MergeOutcome` takes the next spec and draws its outcome, which
includes a transition left by the profile or by another batch and computed from
*another* module of the same hash. Budgets, failing comparisons and failing runs
are as in the code.

In `OrderValidation` the orders are run on a pool in any order, one may fail or a
comparison may fail, auto mode falls back from an incomplete DAG to insertion
orders, and the row is classified. `InsertionOrders` is the enumeration of
`_bounded_insertion_orders`; sampled orders may be any.

### ValidationRuntime

The two caches of the runtime are one protocol over `Keys`, as they are in the
code; a transition needs a slot and may come with a worker handle, a comparison
needs neither. A value is known by its maker: a thread, or `Profile` for a seeded
transition. Taking the flight out under the lock (`Store`) and completing its
future (`Publish`) are two steps with other threads in between. `close` is called
when all threads have been joined (`AllIdle`); it goes through the transitions one
by one, may fail for some, and may be called again. `FlakySeeds` is TRUE if
copying a profile file can fail once and succeed later; see the proofs.

### OptBackend

One worker of the pool and the calls on it, which the pool makes sequential. A
module stands for itself, for the handle that names it (handles are content
addresses), for its canonical hash and for what a signature (`_path_signature`) says of
the content of a file. A signature also has the file's size and time, so a file that is
written again with the same module is loaded again and the spare reference given back:
`LoadInput` may be taken also where the cache has the module (`LoadCached`). One step
is one request to the process or one update of the client's own tables; `call` is
the local state of `run_opt`, `run_opt_from_result`, `materialize_result` or
`release_result`. Every request begins with `start()`: if the process has died, an
empty one of the next generation answers. A request may be lost in three ways the
code tells apart: a silent exit (retried once by `run_opt`), an LLVM error on stderr
(a failed result), and anything else.

The process may also die by itself, *between* two requests of one call. `torn`
records the generations that begin after such a death: in them a cached handle may be
unknown (see the findings), so `NothingIsFreedEarly` and `HandlesAreKnown` speak of
the others, while `OnlyMissingOutputsLeak` and `ResultsAreRight` hold in all. `MaxStarts`
bounds how often the process is started.

Writing an output can fail on either side. If the process cannot write it, it answers
`materialize_failed` and keeps nothing. If it has written and kept the module and the client
then finds no file, the call ends as `materialize_failed` as well, but without the handle
(`MissingOutput`; see the findings): the process counts a reference that no cached path
and no result holds. `stranded` is a history variable that counts these; only
`MissingOutput` depends on it, for its bound `MaxStranded` per module and process. A file
that is gone when it is read, for its signature or to be loaded, is a signature or a
request that may fail; what had been taken for it is rolled back.

A call whose result goes to a place of `Results` gives up what was there first. The cache has one entry for each path,
the least recently used first, which is the one that leaves when it is full.

### WorkerPool

Threads that check workers out (any, or the one that owns a handle) under a
deadline, start them, send requests under the worker's lock, and leave the
checkout, while `close` may be called at any time. A sleeping thread is woken by
`notify_all` or by its deadline, and looks once more before it gives up. Who wants any
worker takes the first of the queue, who wants one takes it out of the middle.

### ProgramCheckpoint, DurableStage, ProgramEvidence, StudyPrepare, StudyRun, StudySummary

`ProgramEvidence` follows one program through the process that a study runs: the
stages are published by two renames (`MoveOld`, `MoveNew`) with a backup between
them, the planned checkpoint is written, outputs that are no evidence of a failure
are moved to quarantine and deleted under a journal, and the complete checkpoint
names what was kept. One step is one durable write, and the process may be killed
before each of them; a later run begins with `RecoverRestores` and its siblings.
What the stages contain is one value per stage, which is all that the later steps
look at. `Spoil` is a stage whose files or revision no longer fit its marker.

`StudyRun` takes the same program in three steps (nothing, planned, complete) and
adds what is around it: a child that goes through the programs in their order, an
event file that names the one under way, a supervisor that kills the child when that
program is over its budget and charges the program, torn audit records, and
orphans: a supervisor that dies takes its child along on Windows only. A result is
found by what it was made from, which includes the version of the runtime; the handoff is
published under a name made of its contents and named by a pointer, which is never
replaced.

`StudyPrepare` and `StudySummary` are the commands around a run. A prepare builds a tree
aside and renames it into place, where there is none; every other command asks whether
the tools, policies and sources are still those of the tree. A summary swaps two
directories in, one after the other, without a lock. Two summaries may overlap, and then
one may move away what the other has put in place, or lose its backup in an undo that is
blocked: `BundleIsWhole` speaks of summaries that run alone (`due`). Inputs and code are
taken to change only while nothing runs.

`ProgramEvidence` and `StudySummary` are shown to implement `ProgramCheckpoint`: a program's result is decided once,
by the plan, limited just if the program was charged when that was decided, and it
never changes. `ProgramEvidence` implements `DurableStage` as well: whatever is
killed between the renames, the usable evidence of a stage is the old or the new one,
and it is only lost to damage.

### BodyPatch, GroupEvaluation, GroupStudy, ProgramRows, ProgramLedger

The study asks whether the outputs of single passes tell which pass may run last. A
module is a frame (all that a body patch may not touch: `skeletonHash`,
`symbolInventory`, `functionPolicyIdentity`) and a body for each function; hashes are
taken to be injective. `BodyPatch` has what the helper computes on such modules:
`Patchable`, `Patch`, `MergeOf`, and `SameEffect`, the comparison of
`compareEffect`.

| variable | code |
|---|---|
| `client` | `_closed` of `DirectMergeClient`, which closes itself at the first timeout or malformed answer and never opens again |
| `step`, `patched`, `merged`, `second` | the place in `evaluate_group_2n` and its locals |
| `members`, `firsts`, `rows`, `verdict` | its arguments, directional rows and `group_authorization_status` |
| `phase`, `profiles`, `pairs`, `results` | the four stages of `_run_study_orchestration_locked` and what each publishes |
| `orders`, `records`, `replays` | the replay under way, the finished ones of its case, the family statuses |
| `study`, `failures` | what the passes do and how much goes wrong: no variables of the program |

A study says what each action makes of each module, which merges the verifier
rejects, and what a misbehaving run may produce instead. Everything that runs may
misbehave, as often as the study's budget says: an action, the verifier, the helper,
the comparator, the whole process (`Restart`). The pair matrix runs on threads,
each with a worker of its own; the groups and the replays are one thread. The A, B, AB
and BA runs of one replay are one step, since nothing else runs at the time.

That the effect of an action on the merge of the others equals its effect on the root
says nothing yet of orders; that its output is then the merge of the *whole* group,
whatever action was left for the end, is theorem `SameEffectMakesTheMerge`. It does not
need `ProtectedPreserved`: a patch that equals one disjoint from the others leaves the
others alone. `AuthorizationIsEarned` says the same of the rows, through every failure.

`ProgramRows` decides the program after any published stage: complete, or limited when
its budget was over. Measured rows come from the stages; for the rest the recovery
makes up rows (`MissingPair`, `MissingGroup`). `payload` is what it is decided to. The
readers are written apart from the writers in the code, and so they are here:
`CheckpointAccepts`, `HandoffAccepts` and `AggregateAccepts` recompute what the writers
derived, and `GroupTablesAgree` relates the aggregate's ledger, funnel, limitations and
counts to what was decided. A replay that the recovery makes is one outcome: all
families stable, or one of them not. No group is empty (`GroupsAssumption`):
`evaluate_group_2n` and the aggregate refuse groups of fewer than two actions. The code's own imprecision is kept: a recovered
group with a complete first round is in the ledger as `patch_region_unknown`, not as a
timeout; a group whose verdict is unknown because a comparison failed has no row among
the limitations.

`ProgramLedger` adds one action, `CleanUp`, from the decided rows to the rows, the ledger
and the files (`ledger`) of the complete checkpoint. `Plan` gives every row its reason to
keep its outputs: it belongs to a false authorisation, a run of it failed, the orders
differ. The others are reclaimed, or stay where they are if they cannot be moved; a failed
second round may or may not have left an output. What happens to one output when the
process is killed, or when it is stuck in quarantine (its path then lies outside its
stage, and the checkpoint waits for a later run), is in `ProgramEvidence`. The checkpoint
(`EntryFits`, `TypedRowsKept`, `BindingFits`), the handoff (`HandoffFits`) and the index of
artifacts (`Indexed`) read the result; `EvidenceIsKept` says what may never be lost.
Identities, hashes, sizes and the sums made of them are left out.

## The runs

Ten finish without an error; states are distinct states.

| run | instance | shows |
|---|---|---|
| `rolling_windows` | every graph on 3 modules with up to 2 batches each, in one-layer windows without a cap, strict; 36 graphs on 5 modules, half of them with two modules of one hash, in two-layer windows with caps of 3 windows and 4 states, going on after a gap; frontier of 1 | completeness, global completeness and the selection; real paths; caps; freshness of the queue where pruning, re-reaching, caps and failures come together; strict searches end |
| `search_commands` | 26 graphs of 5 modules, some with two of one hash; 3 rounds, every mode, a state cap of 4, two pairs of narrow limits; plans of two stages with every requirement and rerank; one graph for the comparison with two lists of passes, 2 rounds, 2 trials | the path compared is the one written; *complete* has lost only failed batches; truncation is reported; explorers write the breadth-first graph; what a stage hands on was earned, and replays agree unless hashes collide; the comparison is fair |
| `state_evidence` | 4 passes, 6 conflict graphs (none, path, triangle, star, two pairs, nothing active), 6 kinds of call, 2 failures anywhere | the report of a state is right; rows are only added; validation ends |
| `orders_triple` | 3 passes (6 orders); 3 modules of which 2 fold by hash or by comparison, or 2 that never fold; every mode, limits on both sides of 6, DAG budgets of nothing, a part of, exactly and more than what is needed, each permission | the DAG's nodes stand for every history and are real and distinct, and it is given up only if it does not fit; what may be executed; small batches are decided; both refinements of the certificate |
| `runtime_flights` | 3 threads, 1 slot, a transition that may have been profiled and a comparison | single flight and one computation; handles are owned until closed; every call returns |
| `backend_calls` | 3 paths for 2 cache entries, 2 results, a process dying anywhere, one missing output of each module per process; symmetric paths and results | references add up, but for those of missing outputs; results are right, handles are known |
| `pool_shared` | 3 threads, 2 workers | no worker lost, shared or alive after close; no missed wakeup; checkouts and close end |
| `evidence_crashes` | a pair with a second round, 2 kills at any write, 1 failing operation, 2 damaged stages, a charge | no evidence lost or half deleted; both refinements; the program gets its complete checkpoint |
| `study_supervised` | 2 programs, 2 supervisors, 2 summaries, prepares, a change of the inputs and one of the runtime version, one death | evidence is that of the frozen inputs; progress, handoff and success agree with the checkpoints; a lone summary swaps both directories or none; refinement; supervision and summaries end |
| `group_study` | 3 actions, 3 functions, 3 bodies, 2 frames; groups {1, 2} and {1, 2, 3}; ten kinds of passes, among them an effect that depends on what one, or exactly one, of the others did; 2 threads for pairs; one misbehaviour anywhere, two in one study | an authorisation is earned; in a pair the rule is the test of both orders; without failures the evidence is what the passes do; a false authorisation reported as stable is one; after any stage, complete or recovered, the rows of the program pass every reader and the tables agree; after the cleanup (no output stuck, one, or all) the rows, the ledger and the disk agree and no evidence is lost |
| `rolling_endless`, `study_overcharged` | small instances | one statement of the documentation each, violated: see the findings |

**Why these bounds.** Three modules with two batches make every shape of a window's
neighbourhood: self loops, diamonds, cycles, dead ends, states reached again; five
modules are the least for a state that is pruned after two layers and found again
by another path, and for a path that improves after its states have children. Two stages are
one that hands on and one that begins elsewhere; two trials are the least of which one
can be the better. Four
passes are the least for two components of a pair each and for a star. Two passes make one diamond; with three, a folded node is expanded
further, which is where folding could go wrong, and budgets can cut any layer.
Three threads are the least for an owner, one that waits and one that comes in
between; one slot for them, and pipelines that take it too, make everybody wait.
Three paths for two entries make an eviction hit the input of the call; two results
are a parent and its child; two starts make one restart, and an entry of a
generation that is gone; one missing output makes a count differ from its holders, and what
is done with the same module later must keep the difference. Two kills let a recovery be killed itself; two programs are
one done and one under way, two summaries one that overlaps or follows another. Three actions are the least for which an
action can depend on one of the others but not on both, which makes the rule and the
pair test disagree; three functions keep their patches disjoint; three bodies are
untouched, right and wrong. `StableIsReal` holds for fewer than three misbehaviours only: it
takes a wrong original and the same wrong output in both replays of a family, and the
third makes them agree. The proofs remove the bounds, for most modules all of them: see
[the proofs](#the-proofs) for what is assumed of the constants.

A run may stop, and deadlock is not checked, where the program itself comes to an
end: a search that has reported, a stage without the transition
it requires, a comparison that was aborted, a state that is reported or was left by an
exception, a program with its complete checkpoint or with a stage that recovery
refuses, a study that has succeeded or that nobody starts again. `RollingSearch`,
`ValidationDag`, `OrderValidation` and `ValidationRuntime` keep a terminal stuttering
step instead.

**Fairness.** `RollingSearch` is one thread that waits for nothing but work under a
timeout: weak fairness of the next step. In `ValidationRuntime` a computation ends (it runs under a
timeout), and a free slot of the semaphore goes to a waiting thread in the end,
though in no given order: strong fairness of `TakeSlot`. In `WorkerPool` an awake
thread looks (weak), deadlines pass (weak), a request is answered or times out
(weak), and `close` gets a lock that is free again and again (strong); that a thread
ever leaves its checkout is *not* assumed. In
`StateEvidence` the steps of a validation go on (threads of the program, and tools
that end or time out). In `ProgramEvidence` a run goes on and somebody starts
another one; in `StudySummary` the child, the supervisor and the swap of a summary go on,
but nobody has to give a command. `GroupStudy` states no fairness: what it promises is safety.

## The proofs

Eight modules, one for each part of the system. Each theorem holds for all values of the
constants that the assumptions named below allow; TLC evaluates these in every run.

| module | extends | theorems |
|---|---|---|
| `RollingSearchProofs` | `RollingSearch` | `TypeCorrect`, `InvariantHolds`, `CompleteStatusIsSound`, `GlobalClaimIsSound`, `NoRepeatedExpansion`, `PathsCorrect`, `BoundsHold`, `SelectionIsBest`, `ReportsHold` |
| `SearchCommandsProofs` | `SearchCommands` | `SearchInvariantHolds`, `PathsAlwaysWalked`, `ReportsAlwaysTrue`, `StagesAlwaysReplayed`, `BaselinesAlwaysFair`, `ExplorationAlwaysFaithful` |
| `StateEvidenceProofs` | `StateEvidence`, `ConflictGraph` | `FamilyIsMaximal`, `FamilyIsIndependent`, `ComponentsCover`; `EvidenceInvariantHolds`, `EvidenceTypeCorrect`, `BatchesAlwaysCommute`, `CompleteStatesHaveAll`, `EvidenceStays`, `ReportAlwaysRight` |
| `BatchValidationProofs` | `OrderValidation`, `ValidationDag`, `BatchWorld` | `DagInvariantHolds`, `DagTypeCorrect`, `CertificateSound`, `MismatchSound`, `DagIsFaithful`, `DagImplementsCertificate`, `IncompleteIsOverBudget`; `RowInvariantHolds`, `RowsAlwaysEarned`, `RowImplementsCertificate` |
| `ValidationRuntimeProofs` | `ValidationRuntime` | `RuntimeTypeCorrect`, `FlightsAreSingle`, `TransitionsAreShared`, `HandlesAreReleased` |
| `WorkerProofs` | `WorkerPool`, `OptBackend` | `PoolStaysOrdered`, `PoolAlwaysInvariant`, `SleepersAreWoken`; `BackendInvariantHolds`, `ReferencesAlwaysCounted`, `ResultsAlwaysRight`, `HandlesAlwaysKnown` |
| `RunControlProofs` | `ProgramEvidence`, `StudySummary` | `EvidenceInvariantHolds`, `EvidenceAlwaysSafe`, `CheckpointKeepsPromise`, `StagesLookAtomic`; `ResultsAlwaysAgree`, `StudyAlwaysKeepsPromise` |
| `GroupEvaluationProofs` | `ProgramLedger` | `SameEffectMakesTheMerge`, `GroupInvariantHolds`, `GroupTypeCorrect`, `AuthorizationsAreEarned`, `AuthorizedPairsCommute`, `MisbehaviourShows`, `StableAlwaysReal`, `EvidenceAlwaysTrue`; `PayloadAlwaysAccepted` |

**RollingSearch**, for every set of worlds and every setting, from
`ParameterAssumption`, `WorldAssumption` and `NoneAssumption`. That a complete run
has followed everything is not inductive: it speaks of the end only. The invariant
`IInv` says where each discovered state is *while the run is clean* (no gap, no
failure, no cap so far): expanded with all successors recorded, pruned, or waiting
in the set the current loop will look at next (`Waiting` depends on `pc`). One
clause covers the state being expanded, of which only the batches no longer pending
have recorded successors. `Freshness` is needed because a state that waits must not
be one that was expanded, else an `EndLayer` or a commit could lose its mark.
Paths need no clean run: a better path only shortens, so the parent of a state stays
strictly shorter than it, whatever is improved above it.

**SearchCommands**, for all worlds, manifests, limits, caps, lists of passes and any number
of rounds and trials, from `WorldAssumption`, `LegacyAssumption`, `StagedAssumption` and
`BaselineAssumption`; the explorers also from `CandidateAssumption` (candidates are finitely
many numbers, as rows of a file are). Five parts that build on each other:

- *Rows and rounds* (`SearchInvariant`). `PathsAreWalked` says that the recorded path of a
  row leads to its module. A better path replaces it, and the replacement takes the path of
  another parent, so one needs of *every* row that its recorded path and its first path
  lead to modules of its hash, that a parent is an earlier row and one shallower, and that
  originals differ in hash (`RowsInvariant`); and of the locals that frontier, queue and
  children are rows of their layers (`LayersAreOrdered`), else a child would get a wrong depth.
  `CapIsKept` is the state cap, which the code checks before a row is added.
- *Reports* (`ReportsInvariant`). That a complete search lost only batches which failed to
  apply speaks of the end. `NothingIsDropped` says it of every moment of an exact search without
  a reason: all rows above the frontier are handled, those of the layer are in the queue or
  handled, their children wait, and of the parent at hand all batches no longer pending
  were tried.
- *Stages* (`StagesInvariant`). Each finished stage made its output from its input with the
  pipeline it records, and the next search starts from the output of the last one. Where no
  hashes collide, a run along any recorded path ends in the row's own module, hence replays agree.
- *Comparison* (`BaselinesInvariant`). Walk, trials, the table and the file written before
  show just what their passes make of the root, no trial is better than the random row, and
  the greedy walk only went down.
- *Explorers* (`ExplorationInvariant`). That the tables are complete speaks of the end too.
  Before it, what is wanted of an expanded row is lost, cut off, due or tried, and nothing was
  tried twice (`TriedOnce`), which needs that no queue or frontier holds a row twice
  (`QueueIsNew`). `explore_states` has one queue for all depths: it stays ordered by depth
  (`QueueIsOrdered`), hence a state is first met at its least depth. For `explore_batches`
  each finished layer has its share expanded (`EarlierAreDone`) and children are just the next
  layer (`RoundIsOn`). That a summary is within its limits is counted at the end: the
  batches that took a place of a row are numbered within the limit (`LimitIsKept`), which
  maps executions and cuts injectively into pairs of a number and a row.

The path of a row is a sequence of any length, and what it makes of the root is the
recursive function `Walk`. Facts on it (a walk is what its steps say, walks compose, a longer
path goes through a shorter one's end) are proved by the least counterexample in the
length (`LeastNumber`, from the library's `NatLessThanWellFounded` and `WFMin`).

**ConflictGraph**, for every finite set of passes and every set of conflicting pairs.
If every component is resolved, the combinations of one alternative per component are
just the maximal independent sets of the whole graph: no conflict leads from one
component to another (a component is closed), components partition the passes, and
so a set is independent, or maximal, just if its part in each component is. In any
case a batch is independent, and every pass is in one. (In `StateEvidenceProofs`.)

**StateEvidence**, for any passes, worlds, calls and failures. `EvidenceInv` says of
each phase what the files hold by then: a relation other than *commute* for
every pair that was not seen to commute, rows for just the candidates, decided rows
in `memory` for what is scheduled, and reasons that stand for every gap.
`BatchesAlwaysCommute` follows from `FamilyIsIndependent`, `CompleteStatesHaveAll` from
`FamilyIsMaximal` when no component is unresolved and nothing is truncated, and
`EvidenceStays` from the rows that a call reads from disk before it writes them back.
`ReportIsRight` also counts and ranks what on-demand validation did; its invariant `Greedy`
says between the calls that nothing left is larger than something tried, that there is room
below the target, and that the call under way validates one candidate at most, so that the
target cannot be passed.

**ValidationDag** (`BatchValidationProofs`), for every batch length, budget and congruent compiler, from
`BatchAssumption`, `FoldAssumption` and `BudgetAssumption`. The invariant says that
every history of at most `depth` passes has a node of its subset and class, that
every node's path is a history of its subset and class, that nodes of one subset
differ in class, and, in the middle of a layer, that each selected spec is still to
be merged or has its target. The step that needs `FoldAssumption` is extending a
history: the node that represents it holds another module of its class, and the
pass must take both to one class. `CertificateSound` then says of *n*! orders what
the DAG found with one node per class, and `DagImplementsCertificate` is the
refinement, step by step. `IncompleteIsOverBudget` needs the counters (`Counted`): the
edges spent are the transitions out of the nodes above the layer, one for each pass not in
the subset, and a representative per subset and class of histories is the least any DAG
can do with, so an exhausted budget was too small for the batch.

**OrderValidation** (same module), for any requests, from `RequestAssumption` besides. `RowsAreEarned`
speaks of finished rows, and of orders that ran long before. The row's invariant adds to the
DAG's where every planned order is (`Covered`): waiting, run and not yet compared, or compared
and the same, unless something failed or differed; and what a status may say once it is
written (`RowWritten`). The insertion orders are shown to be orders of the batch, and the
module an order ends in to be that of its history, so that agreement of all orders in the
row is agreement of all histories in the world. In the refinement the DAG decides nothing
by itself: a row whose DAG is incomplete goes on to other orders.

**ValidationRuntime**, for any number of threads, keys and slots, from
`RuntimeAssumption` and `MarkerAssumption`. `FlightInv` ties the owner of a flight,
the place it is in and those that wait for it; its key is free again after `Store`,
so the invariant must let a new flight of the same key exist next to waiters of the
old one. `HandleInv` places each handle with a cached transition or with the thread
about to cache it. `HandlesAreReleased` has the premise `~FlakySeeds`: if a profile
file could fail to be copied the first time and be copied the second, seeding would
overwrite a computed transition (`_transitions[key] = transition`) and nobody would
own its handle. The model allows it; no caller depends on it.

**WorkerPool**, for any threads and workers, from `PoolAssumption`. `PoolInvariant` becomes
inductive with the order of `close` (`CloseIsOrdered`: workers are shut after the
pool, each once) and with the queue holding each worker once. That no thread sleeps while the pool is closed or
a worker it could have is in the queue (`NobodyOversleeps`) is a part of it: only a return and
`close` change that, and both wake all.

**OptBackend**, for any modules, passes, paths, results, size of the cache and number of
restarts, from `BackendAssumption`. References are counted on both sides, and a call is
in the middle of an exchange for most of its steps: `Balanced` therefore counts the entries of the
cache, the owned results and what the call under way holds (`All`) against the worker's
`References`, of the present generation only. In a generation that is not torn the worker has
`All` and what is `stranded`, in a torn one it may have fewer. `HandleIsHeld` gives each request that names
a handle somebody who holds it, which is what makes the answer right;
`DeathsAreTorn` says that a process that is gone in the middle of such a call has a torn
successor. `CacheIsDistinct` (a path is cached once) is what lets a renewed entry replace
exactly one reference.

**ProgramEvidence**, for any number of kills, failures and damaged stages, from
`EvidenceAssumption`, which leaves one bound: the outputs are those of one pair, with or
without a second round. The invariant is a case for each point at which the process can be
killed, since after the kill only the disk is left: which of active and backup copies there may be
(`SlotsAreMade`, `RenamesAreOrdered`), that what was read is what is published
(`RowsAreRead`), that a plan binds the stages and they stay (`PlanIsBound`), that an output has
left its place only under a plan, and its quarantine only under the journal
(`OutputsAreBound`), and how far the cleanup is (`LoopsAreOrdered`, `OutcomesAreTrue`).
`CheckpointKeepsPromise` and `StagesLookAtomic` are the refinements of `ProgramCheckpoint` and
`DurableStage`: a rename, a kill and a recovery map to stutters, and the one write that decides
maps to the abstract step.

**StudySummary** (same module), for any numbers of programs, versions, supervisors, deaths,
prepares and summaries, from `PrepareAssumption`, `StudyAssumption` and
`SummaryAssumption`. The invariant is in two parts. `RunInvariant` says what a child has
read and still relies on (`ChildKnows`): the study is the frozen one, the checkpoint at hand is
in the state that was found at the boundary, the skip that was read is the one in the run
control, and the progress to hand over is that of all programs in this version. It holds because
a program is charged only while no child works (`SupervisorKnows`): an orphan that outlives
its supervisor is never one whose kill is being recorded. `SummaryInvariant` says of each
directory where the one summary at work has left it and what it was (`ShelfIsKnown`), by which
its undo puts back just that; two summaries at once are promised nothing. With the
skip known to be the current one, `Work` is the abstract `Plan` and `ChargeActive` the
abstract `Charge`, and every other step but `Finish` is a stutter
(`StudyAlwaysKeepsPromise`).

**GroupEvaluation**, for any finite set of actions, any functions, bodies and frames,
any passes and any number of misbehaviours, from `StudyAssumption` and
`GroupsAssumption`. `EvaluationIsSound` carries what the later checks rely on: a patch
that was inspected is one, the merge under way is the merge of the others, the groups
past the overlap check are disjoint, and a finished row names the merge it ran on.
`SameEffectMakesTheMerge` turns an equal effect into the merge of the whole group,
function by function: one that the action changed has the new body in both patches,
any other is left alone. `AuthorizedPairsCommute` is its instance for two, where the
merge of the others is the output of the other.

**GroupStudy** (same module, from the same two assumptions). What a whole study reports is
true for two reasons, each an invariant on top of `GroupInvariant`.
`StudyIsOrdered` says where the stages stand: which evaluation a phase may have under way,
that a row of the matrix waits, runs or was classified from the two runs it holds, that an
authorisation is of a group whose first runs all succeeded, and that a replay is of an open
case. `MisbehaviourIsCharged` counts: the published stages, the fifth replay, the sixth (the
two of the rule) and the evaluation under way can each be wrong, and there have been at least
as many misbehaviours as of these four are wrong. It is inductive because a run
that reports something other than its result, a lost worker and a refused answer are
each charged where they happen, and a stage that is published or recorded takes its
wrongness with it. `StableReplaysAreReal` follows: a stable family agrees
with the published stages in both replays, so if what it shows is not so, the published stages and
both replays are wrong, which takes three misbehaviours (`StableAlwaysReal`); at three they
may be wrong alike, which is why the property stops there.

`NothingMisbehaved` is the other reason: with no misbehaviour, the count leaves nothing
wrong, so all runs are true ones, and then every step of the evaluation decides the row
that `TrueRow` gives (the converse of `SameEffectMakesTheMerge`, `MergeHasTheEffect`: in the
merge of a group an action has done to the others what it did to the root), every replay
records what was published, and every family is stable. This is inductive
(theorem `TruthIsKept`); `EvidenceAlwaysTrue` reads the three clauses of
`EvidenceIsTrue` off it.

**ProgramRows and ProgramLedger** (same module, from the same two assumptions).
`PayloadAlwaysAccepted` says that no program is left undecided because one of its readers
disagrees with its writers, whatever misbehaved, wherever its budget ended and whatever the
cleanup could not move. The invariant `LedgerInvariant` has five parts: the two of the
study above; `RowsAreShaped`, what a group reports; and that the payload, and then the ledger,
are what `DecideProgram` and `CleanUp` make of the variables of the study, which no longer change.

1. `RowsAreShaped`: a group is given up for one reason, the same in every row
   (`IsGivenUp`), or every row of it is decided (`IsJudged`), and the verdict follows from the
   rows. `MeasuredGates` reads the gates off the rows and first runs, so this makes them fit.
   The comparator is asked about two successes only, by which an unknown pair has two
   modules.
2. However the rows of a group came about, by a stage or by the recovery, its tables are of one of
   two kinds, `IsStopped` or `IsDecidedGroup`. The funnel, the limitations, the ledger of
   failures and the verdict that the checkpoint expects follow from these two alone
   (`TablesOfGroup`), and so do not depend on who wrote the rows. `RowIsSound` is the same
   for a row of the matrix.
3. The cases that the checkpoint asks for, computed from the columns of the rows, are
   the cases that were replayed (`CasesAreExpected`); the open ones are replayed by the
   recovery, so each has its witness.
4. What a group cost is a sum over its actions that two parties take of different columns. The
   library's sum is a fold over sets; `SumIsSum` shows that for the numbers 0, 1 and 2 it is
   a sum of two cardinalities, since a smallest set that it gets wrong cannot exist. With
   that, `SecondRoundsCharged` is about sizes of sets.
5. After the cleanup the outputs of every row are either kept or reclaimed (`KeyIsSettled`), and
   these two forms satisfy each of the readers. Only rows that ran and succeeded are planned, and
   none that is protected is, which is `EvidenceIsKept`.

The types of the variables (`TypeOK`) of `StateEvidence`, `ValidationRuntime` and
`GroupEvaluation` are theorems and need no run.

**Only model-checked:** the liveness properties, since the provers have no support for
fairness and `ENABLED`. Every invariant and every safety property of a step that a passing run
checks is a theorem.

## Findings

1. **A continued search need not end** (`rolling_endless`, `optimizer.py:1189`). With
   `exact_fail_on_incomplete` off and no window cap, a state one of whose batches
   fails is never marked as expanded, so two such states that lead to each other
   keep the loop running. The design says a cycle closes without an infinite loop.
2. **A finished program can be charged** (`study_overcharged`, `supervisor.py:188`). The
   supervisor takes up start events only, so a program stays active after its event
   *complete*; if its budget runs out while the rows are handed over, or before the
   next program announces itself, the child is killed and a program whose checkpoint
   is complete gets a skip.

`PROJECT.json` quotes the sentence each run contradicts. Others were seen while
modelling and have no run of their own:

- *Searches.* A better path updates one state of the rolling search, and those below
  it keep the old length (`optimizer.py:1164`). A root can be the selected
  terminal although it has executable batches (`optimizer.py:1374`). `exact_scope`
  reports the frontier-limited scope also for a run that stopped for missing
  evidence with nothing pruned (`optimizer.py:1364`). The legacy exact search gives no
  reason for a batch that fails to apply and may still say `exact_complete`; when it
  stops, states that no round expanded are written as `expanded` in
  `leaf_states.csv`; the budgeted one writes `beam_pruned` for states that the state cap
  left over.
- *Search commands.* A stage that requires a transition may hand on the module it was
  given: the fastest candidate need only have a pipeline that is not empty, and cycles
  lead back (`staged_optimizer.py:126`). The staged replay calls a comparison that failed a
  mismatch (`staged_optimizer.py:262`). Where two modules have one canonical hash the
  replay of a right pipeline may be a mismatch. With `random_trials` 0 the
  comparison sets the search against a failed random row that shows the root's count
  (`baselines.py:738`, `_beats_text`). `explore_batches` lets candidates that may
  not be executed take the places of `max_batches_per_state`, and says nothing of those it
  leaves out. The automatic choice takes the exact search for a state whose pair tests
  were cut off, which then reports itself incomplete. A comparison that is aborted leaves
  a `baseline_results.csv` half of the older one.
- *Evidence.* A pass whose profiling fails, or a pair whose test fails or times out,
  is no incompleteness reason: the pass is taken for inactive, the pair for
  conflicting. When an on-demand validation raises, the runtime is not closed
  (`optimizer.py:2139`). The pair cache never answers within a run, since a hash is
  analysed once. The row of a certified batch says "identical canonical IR" although
  a structural comparison may have certified it (`batch_correctness.py:68`).
- *Backend.* If the process dies after a path was written with the module it is cached
  with, and before the spare reference is given back, the entry is renewed for the
  next process, which does not have the module (`opt_backend.py:485`). Later runs on
  that path fail. When the worker has answered `ok` and the output is not there
  (`opt_backend.py:164`, `opt_backend.py:290`), the call fails without giving back the module,
  which the process keeps until it ends; `OnlyMissingOutputsLeak` says that nothing else
  does. The test `test_apply_materialization_failure_does_not_leak_child_reference`
  (`tests/test_worker_binary.py:119`) is about an output the worker itself cannot write.
- *Study.* A second skip of one program raises and ends the supervisor
  (`run_control.py:385`). A torn audit record makes every later supervisor give up
  (`supervisor.py:52`). A stage whose active and backup copies are both invalid is
  refused for ever (`orchestration.py:556`). An output that could be moved to
  quarantine but not deleted can never be part of a complete checkpoint, since only
  original paths are accepted (`program_runtime.py:2849`). After a change of the runtime
  version a study whose handoff is already active fails at the comparison of every later
  run, since the handoff is not replaced (`cli.py:3323`). A limited program all of whose
  groups were published has no `runtime_budget_exceeded` row in the limitations, and
  `ground_truth_unavailable` also counts pairs whose two orders are known.

## What is not modelled

- LLVM, `llvm-diff` and the text normaliser: they are parameters (worlds), because
  the properties hold for whatever they do.
- The options that let bounded or sampled rows execute in a search (`StateEvidence` has
  them, the searches take certified batches only).
- The tables of relations that flip between states, `batch_objective.py` (it evaluates the
  candidates of one state, and no search calls it), run times and which of the measured
  candidates is the fastest, the pipelines of `llvm-defaults`, and the costs in tables.
- Damage to the files of the group merge between its steps (digests are checked
  at each), and `_validate_original_pair` stopping the study: a verifier that fails
  comes back as a rejection, so the rows it complains of do not occur.
- Of the study's tables: the relation observed from effects and its confusion counts, the
  columns of the artifact index (`Indexed` is which rows it has), the texts of the limitations,
  figures and reports.
- A pass whose profiling run fails is inactive in the model as in the code; no property
  blames it, because nothing in the code makes it an incompleteness reason.
- The pair cache on disk, the history scores and the order in which pairs are
  scheduled: any pairs may come first.
- The byte stream between client and worker, request ids and the reader thread:
  each process has a queue of its own, so a late answer goes to a queue nobody
  reads.
- A `WorkerError` that leaves a comparison: it ends the command.
- Argument parsing, CSV schemas, reports, figures, the measurement harnesses and
  the two experiments' statistics: pure transformations of files.

## Plan

In this order, each with its instance, properties and, where listed, proofs.

| step | module | state |
|---|---|---|
| 1 | `RollingSearch`, with proofs | done |
| 2 | `BatchWorld`, `BatchCertificate`, `ValidationDag`, `OrderValidation`, with proofs | done |
| 3 | `ValidationRuntime`, with proofs | done |
| 4 | `OptBackend`, `WorkerPool`, with proofs | done |
| 5 | `LegacySearch`, with the automatic choice, and proofs | done |
| 6 | `ConflictGraph`, `StateEvidence`, with proofs | done |
| 7 | `ProgramCheckpoint`, `DurableStage`, `ProgramEvidence` with proofs, `StudyPrepare`, `StudyRun`, `StudySummary` with proofs | done |
| 8 | the runner: session set-up, fallback to the external `opt`, strict mode, shutdown | planned |
| 9 | `Explorers`, `StagedRun`, `Baselines`, composed in `SearchCommands`, with proofs | done |
| 10 | `BodyPatch`, `GroupEvaluation`, `GroupStudy`, `ProgramRows`, `ProgramLedger`, with proofs | done |
