---------------------------- MODULE RollingSearch ----------------------------
(***************************************************************************)
(* The rolling-exact search of phasebatch: _run_rolling_exact of           *)
(* phasebatch/optimizer.py.  A window expands every exact-executable batch *)
(* of its root states to WindowDepth local layers, then keeps at most      *)
(* FrontierWidth open boundary states as the roots of the next window,     *)
(* until nothing is open or the evidence is incomplete.                    *)
(*                                                                         *)
(* One step of the model is one iteration of one of the nested loops.  The *)
(* optimiser is a single thread, so a step is atomic; what it cannot       *)
(* control is the outcome of an evidence build (a pair or a permutation    *)
(* may be left untested) and of an opt run (it may crash or time out), and *)
(* those are nondeterministic.                                             *)
(***************************************************************************)
EXTENDS SearchWorld, FiniteSets

CONSTANTS
  Options,  \* how the run is called in each world
  None      \* a dictionary entry or variable not set

OptionRecord ==
  [windowDepth      : Nat \ {0},   \* rolling_window_depth
   frontierWidth    : Nat \ {0},   \* rolling_frontier_width
   maxWindows       : Nat,         \* max_rolling_windows; 0 means no cap
   maxStates        : Nat,         \* max_states
   failOnIncomplete : BOOLEAN]     \* exact_fail_on_incomplete

ASSUME ParameterAssumption ==
  /\ Batches \subseteq Nat
  /\ BatchSize \in [Batches -> Nat]
  /\ Options \in [DOMAIN Worlds -> OptionRecord]

VARIABLES
  world,             \* the index of the world the run is in; it never changes
  \* the state DAG
  states,            \* hash_to_state_id: the hashes that have a state row
  num,               \* number of the state id given to a hash
  input,             \* state_input_by_id: the module first reached with the hash
  pathInfo,          \* path_info_by_state
  parentByChild,     \* parent_by_child
  built,             \* evidence files of a state, built once (_batchified_state_dirs)
  \* the run
  roots,             \* frontier_root_ids
  fullyExpanded,     \* fully_expanded_state_ids
  closedCandidates,  \* closed_candidate_ids
  everPruned,        \* ever_pruned_state_ids
  exactReasons,      \* exact_reasons, by kind
  continued,         \* continued_after_incomplete
  stopped,           \* stopped_incomplete
  windowsCompleted,  \* windows_completed
  \* the window
  pc,                \* the loop the run is in
  localFrontier,     \* what is left of sorted(local_frontier)
  localSeen,         \* local_seen
  nextFrontier,      \* next_frontier
  localDepth,        \* local_depth
  \* the state being expanded
  current,           \* parent_id
  pending,           \* executable batches not applied yet
  parentComplete,    \* parent_expansion_complete
  selected           \* selected_state_id

dagVars    == <<states, num, input, pathInfo, parentByChild>>
runVars    == <<roots, fullyExpanded, closedCandidates, everPruned,
                exactReasons, continued, stopped, windowsCompleted>>
windowVars == <<localFrontier, localSeen, nextFrontier, localDepth>>
parentVars == <<current, pending, parentComplete>>
vars == <<world, dagVars, built, runVars, pc, windowVars, parentVars, selected>>

-----------------------------------------------------------------------------
Edge     == [parent : StateHash, batch : Batches]

ASSUME NoneAssumption == None \notin Edge \cup Evidence

Reason   == {"evidence", "apply_failed", "state_cap", "window_cap"}

WindowDepth      == Options[world].windowDepth
FrontierWidth    == Options[world].frontierWidth
MaxWindows       == Options[world].maxWindows
MaxStates        == Options[world].maxStates
FailOnIncomplete == Options[world].failOnIncomplete

Compiler        == Worlds[world]
S0000           == Compiler.hash[Compiler.root]
Objective(h)    == Compiler.objective[input[h]]
Active(h)       == Compiler.active[input[h]]
Certifiable(h)  == Compiler.certifiable[input[h]]
Child(h, b)     == Compiler.apply[input[h]][b]
ChildHash(h, b) == Compiler.hash[Child(h, b)]

\* _state_selection_key and _rolling_terminal_key; every step of a rolling
\* path is certified, so the certified ratio never decides.
KeyBefore(s, t) ==
  \/ Objective(s) < Objective(t)
  \/ /\ Objective(s) = Objective(t)
     /\ \/ pathInfo[s].length < pathInfo[t].length
        \/ /\ pathInfo[s].length = pathInfo[t].length
           /\ \/ pathInfo[s].invocations < pathInfo[t].invocations
              \/ /\ pathInfo[s].invocations = pathInfo[t].invocations
                 /\ num[s] <= num[t]

\* Faulty variant: the root is not counted.
StateCountWithoutRoot == Cardinality(states) - 1

\* _unique_state_count: rows of state_rows; duplicates only make edges here.
StateCount == Cardinality(states)

(***************************************************************************)
(* What _build_validate_classify and _exact_incomplete_reasons can report. *)
(* Without a gap every certifiable batch is certified and the others are   *)
(* mismatches, which are complete negative evidence; with a gap (pairs     *)
(* skipped, candidates truncated, validation failed or out of budget) some *)
(* of them are missing.                                                    *)
(***************************************************************************)
PossibleEvidence(h) ==
  IF built[h] # None
  THEN {built[h]}
  ELSE {e \in Evidence : /\ e.certified \subseteq Certifiable(h)
                         /\ ~ e.gap => e.certified = Certifiable(h)
                         /\ e.gap => Active(h)}

-----------------------------------------------------------------------------
Init ==
  /\ world \in DOMAIN Worlds
  /\ states = {S0000}
  /\ num = [h \in StateHash |-> 0]
  /\ input = [h \in StateHash |-> Compiler.root]
  /\ pathInfo = [h \in StateHash |-> RootPath]
  /\ parentByChild = [h \in StateHash |-> None]
  /\ roots = {S0000}
  /\ built = [h \in StateHash |-> None]
  /\ fullyExpanded = {} /\ closedCandidates = {} /\ everPruned = {}
  /\ exactReasons = {} /\ continued = FALSE /\ stopped = FALSE
  /\ windowsCompleted = 0
  /\ pc = "window"
  /\ localFrontier = {} /\ localSeen = {} /\ nextFrontier = {} /\ localDepth = 0
  /\ current = None /\ pending = {} /\ parentComplete = TRUE
  /\ selected = None

\* The top of the while loop.  Its cap test never fires: the commit of the
\* window before it makes the same test and leaves the loop.
StartWindow ==
  /\ pc = "window"
  /\ localFrontier' = roots
  /\ localSeen' = {} /\ nextFrontier' = {} /\ localDepth' = 0
  /\ pc' = "layer"
  /\ UNCHANGED <<world, dagVars, built, runVars, parentVars, selected>>

\* p is the next state of sorted(local_frontier).
IsNextParent(p) ==
  /\ pc = "layer"
  /\ p \in localFrontier
  /\ \A q \in localFrontier : num[p] <= num[q]

\* A sibling already expanded in this layer was queued again as a child, or
\* (guarded against by the code, see QueueIsUnexpanded) an expanded state was.
SkipParent(p) ==
  /\ IsNextParent(p)
  /\ p \in localSeen \cup fullyExpanded
  /\ localFrontier' = localFrontier \ {p}
  /\ closedCandidates' = closedCandidates \cup ({p} \ localSeen)
  /\ UNCHANGED <<world, dagVars, built, roots, fullyExpanded, everPruned, exactReasons,
                 continued, stopped, windowsCompleted, pc, localSeen, nextFrontier,
                 localDepth, parentVars, selected>>

\* The common part of expanding p with evidence e.
BuildEvidence(p, e) ==
  /\ IsNextParent(p)
  /\ p \notin localSeen \cup fullyExpanded
  /\ e \in PossibleEvidence(p)
  /\ localSeen' = localSeen \cup {p}
  /\ localFrontier' = localFrontier \ {p}
  /\ built' = [built EXCEPT ![p] = e]
  /\ exactReasons' = exactReasons \cup (IF e.gap THEN {"evidence"} ELSE {})

StopOnEvidence(p, e) ==
  /\ BuildEvidence(p, e)
  /\ e.gap /\ FailOnIncomplete
  /\ stopped' = TRUE
  /\ pc' = "finish"
  /\ UNCHANGED <<world, dagVars, roots, fullyExpanded, closedCandidates, everPruned,
                 continued, windowsCompleted, nextFrontier, localDepth, parentVars, selected>>

\* No active pass, or no exact-executable batch.
CloseChildless(p, e) ==
  /\ BuildEvidence(p, e)
  /\ ~ (e.gap /\ FailOnIncomplete)
  /\ e.certified = {}
  /\ fullyExpanded' = fullyExpanded \cup {p}
  /\ closedCandidates' = closedCandidates \cup {p}
  /\ continued' = (continued \/ e.gap)
  /\ UNCHANGED <<world, dagVars, roots, everPruned, stopped, windowsCompleted, pc,
                 nextFrontier, localDepth, parentVars, selected>>

BeginExpansion(p, e) ==
  /\ BuildEvidence(p, e)
  /\ ~ (e.gap /\ FailOnIncomplete)
  /\ e.certified # {}
  /\ continued' = (continued \/ e.gap)
  /\ current' = p
  /\ pending' = e.certified
  /\ parentComplete' = TRUE
  /\ pc' = "apply"
  /\ UNCHANGED <<world, dagVars, roots, fullyExpanded, closedCandidates, everPruned, stopped,
                 windowsCompleted, nextFrontier, localDepth, selected>>

IsNextBatch(b) ==
  /\ pc = "apply"
  /\ b \in pending
  /\ \A c \in pending : b <= c

\* opt failed or left no artifact: the batch is not executed.
ApplyFails(b) ==
  /\ IsNextBatch(b)
  /\ exactReasons' = exactReasons \cup {"apply_failed"}
  /\ pending' = pending \ {b}
  /\ IF FailOnIncomplete
       THEN /\ stopped' = TRUE
            /\ pc' = "finish"
            /\ UNCHANGED <<continued, parentComplete>>
       ELSE /\ continued' = TRUE
            /\ parentComplete' = FALSE
            /\ UNCHANGED <<stopped, pc>>
  /\ UNCHANGED <<world, dagVars, built, roots, fullyExpanded, closedCandidates, everPruned,
                 windowsCompleted, windowVars, current, selected>>

HitStateCap(b) ==
  /\ IsNextBatch(b)
  /\ ChildHash(current, b) \notin states
  /\ StateCount >= MaxStates
  /\ exactReasons' = exactReasons \cup {"state_cap"}
  /\ stopped' = TRUE
  /\ pc' = "finish"
  /\ UNCHANGED <<world, dagVars, built, roots, fullyExpanded, closedCandidates, everPruned,
                 continued, windowsCompleted, windowVars, parentVars, selected>>

\* A new hash becomes a state; a known one only adds an edge.
RecordChild(h, m) ==
  IF h \in states
  THEN UNCHANGED <<states, num, input>>
  ELSE /\ states' = states \cup {h}
       /\ num' = [num EXCEPT ![h] = StateCount]
       /\ input' = [input EXCEPT ![h] = m]

\* Faulty variant: the edge does not say which batch it is.
EdgeWithoutBatch(b) == [parent |-> current]

\* _edge_for_path.
EdgeOf(b) == [parent |-> current, batch |-> b]

\* The first path to a state, or a better one, becomes its path; only S0000
\* keeps the empty path.
UpdatePath(h, b) ==
  LET path == ExtendPath(pathInfo[current], b) IN
  IF h # S0000 /\ (h \notin states \/ PathIsBetter(path, pathInfo[h]))
  THEN /\ pathInfo' = [pathInfo EXCEPT ![h] = path]
       /\ parentByChild' = [parentByChild EXCEPT ![h] = EdgeOf(b)]
  ELSE UNCHANGED <<pathInfo, parentByChild>>

ReachChild(b) ==
  /\ IsNextBatch(b)
  /\ LET h == ChildHash(current, b) IN
       /\ h \in states \/ StateCount < MaxStates
       /\ RecordChild(h, Child(current, b))
       /\ UpdatePath(h, b)
       /\ IF h \in fullyExpanded \cup localSeen
            THEN /\ closedCandidates' = closedCandidates \cup {h}
                 /\ UNCHANGED nextFrontier
            ELSE /\ nextFrontier' = nextFrontier \cup {h}
                 /\ UNCHANGED closedCandidates
  /\ pending' = pending \ {b}
  /\ UNCHANGED <<world, built, roots, fullyExpanded, everPruned, exactReasons, continued, stopped,
                 windowsCompleted, pc, localFrontier, localSeen, localDepth,
                 current, parentComplete, selected>>

\* Faulty variant: a state is never marked as expanded.
MarkNothing(p) == fullyExpanded

\* Only a state all of whose batches were applied is marked.
MarkExpanded(p) == IF parentComplete THEN fullyExpanded \cup {p} ELSE fullyExpanded

FinishParent ==
  /\ pc = "apply"
  /\ pending = {}
  /\ fullyExpanded' = MarkExpanded(current)
  /\ pc' = "layer"
  /\ UNCHANGED <<world, dagVars, built, roots, closedCandidates, everPruned, exactReasons,
                 continued, stopped, windowsCompleted, windowVars, parentVars, selected>>

\* Between two layers, and from the last one (or an empty one) to the boundary.
EndLayer ==
  /\ pc = "layer"
  /\ localFrontier = {}
  /\ IF localDepth < WindowDepth - 1 /\ nextFrontier # {}
       THEN /\ localFrontier' = nextFrontier
            /\ nextFrontier' = {}
            /\ localDepth' = localDepth + 1
            /\ UNCHANGED pc
       ELSE /\ pc' = "boundary"
            /\ UNCHANGED <<localFrontier, nextFrontier, localDepth>>
  /\ UNCHANGED <<world, dagVars, built, runVars, localSeen, parentVars, selected>>

\* Faulty variant: expanded states stay open.
OpenBoundaryUnfiltered == {h \in nextFrontier : Active(h)}

\* Faulty variant: a state whose evidence has not been built has no executable
\* batch on file and is taken for closed.
OpenBoundaryOfBuilt == {h \in nextFrontier : Active(h) /\ h \notin fullyExpanded /\ built[h] # None}

\* boundary_ids is what the last layer left in next_frontier.
OpenBoundary == {h \in nextFrontier : Active(h) /\ h \notin fullyExpanded}

\* windows_completed decides nothing but the cap: without one it is not counted.
WindowsNow == IF MaxWindows > 0 THEN windowsCompleted + 1 ELSE 0

\* No open terminal: the window is closed and the loop ends.
CloseSearch ==
  /\ pc = "boundary"
  /\ OpenBoundary = {}
  /\ closedCandidates' = closedCandidates \cup nextFrontier
  /\ windowsCompleted' = WindowsNow
  /\ pc' = "finish"
  /\ UNCHANGED <<world, dagVars, built, roots, fullyExpanded, everPruned, exactReasons,
                 continued, stopped, windowVars, parentVars, selected>>

\* The objective bucket of _select_diversity_preserving_beam, which is filled
\* first: the open state of least objective, ties by state id.
ObjectiveBucket(open) ==
  {s \in open : \A t \in open :
     \/ Objective(s) < Objective(t)
     \/ Objective(s) = Objective(t) /\ num[s] <= num[t]}

\* _select_rolling_frontier keeps every open state when they fit, else
\* FrontierWidth of them; the other buckets and their scores are left open.
FrontierChoice(open) ==
  IF Cardinality(open) <= FrontierWidth
  THEN {open}
  ELSE {keep \in SUBSET open : /\ Cardinality(keep) = FrontierWidth
                               /\ keep \cap ObjectiveBucket(open) # {}}

PrunedBy(keep) == OpenBoundary \ keep

CommitFrontier(keep) ==
  /\ pc = "boundary"
  /\ OpenBoundary # {}
  /\ keep \in FrontierChoice(OpenBoundary)
  /\ closedCandidates' = closedCandidates \cup (nextFrontier \ OpenBoundary)
  /\ everPruned' = everPruned \cup PrunedBy(keep)
  /\ roots' = keep
  /\ windowsCompleted' = WindowsNow
  /\ IF MaxWindows > 0 /\ WindowsNow >= MaxWindows
       THEN /\ exactReasons' = exactReasons \cup {"window_cap"}
            /\ stopped' = TRUE
            /\ pc' = "finish"
       ELSE /\ pc' = "window"
            /\ UNCHANGED <<exactReasons, stopped>>
  /\ UNCHANGED <<world, dagVars, built, fullyExpanded, continued, windowVars,
                 parentVars, selected>>

FinalCandidates == roots \cup closedCandidates \cup (IF stopped THEN states ELSE {})

SelectFinal ==
  /\ pc = "finish"
  /\ \E s \in FinalCandidates :
       /\ \A t \in FinalCandidates : KeyBefore(s, t)
       /\ selected' = s
  /\ pc' = "done"
  /\ UNCHANGED <<world, dagVars, built, runVars, windowVars, parentVars>>

ExactStatus ==
  IF stopped \/ exactReasons # {}
  THEN IF continued THEN "rolling_exact_incomplete_continued" ELSE "rolling_exact_incomplete"
  ELSE "rolling_exact_complete"

GlobalSearchComplete == everPruned = {} /\ ~ stopped /\ exactReasons = {}

-----------------------------------------------------------------------------
ExpandParent(p) ==
  \E e \in PossibleEvidence(p) :
    StopOnEvidence(p, e) \/ CloseChildless(p, e) \/ BeginExpansion(p, e)

ApplyBatch(b) == ApplyFails(b) \/ HitStateCap(b) \/ ReachChild(b)

\* The function has returned.
Terminated == pc = "done" /\ UNCHANGED vars

Next ==
  \/ StartWindow
  \/ \E p \in localFrontier : SkipParent(p) \/ ExpandParent(p)
  \/ \E b \in pending : ApplyBatch(b)
  \/ FinishParent
  \/ EndLayer
  \/ CloseSearch
  \/ \E keep \in FrontierChoice(OpenBoundary) : CommitFrontier(keep)
  \/ SelectFinal
  \/ Terminated

Spec == Init /\ [][Next]_vars

\* The optimiser is one thread that nothing blocks: while a step is possible it
\* is eventually taken.
FairSpec == Spec /\ WF_vars(Next)

-----------------------------------------------------------------------------
(***************************************************************************)
(* Properties.                                                             *)
(***************************************************************************)

TypeOK ==
  /\ world \in DOMAIN Worlds
  /\ states \in SUBSET StateHash /\ IsFiniteSet(states)
  /\ num \in [StateHash -> Nat]
  /\ input \in [StateHash -> IR]
  /\ pathInfo \in [StateHash -> PathInfo]
  /\ parentByChild \in [StateHash -> Edge \cup {None}]
  /\ built \in [StateHash -> Evidence \cup {None}]
  /\ roots \in SUBSET StateHash
  /\ fullyExpanded \in SUBSET StateHash
  /\ closedCandidates \in SUBSET StateHash
  /\ everPruned \in SUBSET StateHash
  /\ exactReasons \in SUBSET Reason
  /\ continued \in BOOLEAN
  /\ stopped \in BOOLEAN
  /\ windowsCompleted \in Nat
  /\ pc \in {"window", "layer", "apply", "boundary", "finish", "done"}
  /\ localFrontier \in SUBSET StateHash
  /\ localSeen \in SUBSET StateHash
  /\ nextFrontier \in SUBSET StateHash
  /\ localDepth \in Nat
  /\ current \in StateHash \cup {None} /\ (pc = "apply" => current \in StateHash)
  /\ pending \in SUBSET Batches
  /\ parentComplete \in BOOLEAN
  /\ selected \in StateHash \cup {None}

\* h has no successor outside the discovered states.
SuccessorsKnown(h) == \A b \in Certifiable(h) : ChildHash(h, b) \in states

\* When the run ends with rolling_exact_complete, every certifiable batch of
\* every discovered state that no checkpoint pruned has been followed: the
\* complete status is never claimed over an unexpanded state, an untested
\* batch, a failed application or a cap.
CompleteMeansExpanded ==
  pc = "done" /\ ExactStatus = "rolling_exact_complete" =>
    \A h \in states \ everPruned : SuccessorsKnown(h)

\* global_search_complete is only reported when the discovered states are closed
\* under every certifiable batch: nothing reachable was left out.
GlobalMeansClosed ==
  pc = "done" /\ GlobalSearchComplete => \A h \in states : SuccessorsKnown(h)

RealEdge(h, e) ==
  /\ e # None
  /\ e.parent \in states
  /\ e.batch \in Certifiable(e.parent)
  /\ ChildHash(e.parent, e.batch) = h
  /\ pathInfo[e.parent].length < pathInfo[h].length

\* The path of every state is made of real transitions: its parent edge is a
\* certified batch of a discovered state that produces this state's hash, and
\* the parent's recorded path is strictly shorter, so that _chosen_path_rows
\* walks back to S0000 however often better paths replaced older ones.
PathsAreReal ==
  /\ pathInfo[S0000] = RootPath
  /\ \A h \in states \ {S0000} : RealEdge(h, parentByChild[h])

\* Every discovered dead end that was not pruned takes part in the final
\* selection: a complete run never returns a state worse than one of them,
\* whichever window met it and however it was reached.
DeadEndsCompete ==
  pc = "done" /\ ExactStatus = "rolling_exact_complete" =>
    \A h \in states \ everPruned :
      Certifiable(h) = {} => Objective(selected) <= Objective(h)

\* What a run says of itself at its end is true: complete, globally complete and
\* best are claims about every discovered state (_run_rolling_exact).
ReportsAreTrue == CompleteMeansExpanded /\ GlobalMeansClosed /\ DeadEndsCompete

\* Distinct states have distinct ids and max_states and the frontier width are
\* never exceeded, whatever is discovered while a cap is being reached.
BoundsRespected ==
  /\ \A g, h \in states : num[g] = num[h] => g = h
  /\ StateCount <= 1 \/ StateCount <= MaxStates
  /\ Cardinality(roots) <= FrontierWidth

\* No state that is queued for expansion, or that takes a slot of the frontier,
\* has been fully expanded before: slots go to open states only and no window
\* repeats the work of another.
QueueIsUnexpanded ==
  pc = "layer" => (localFrontier \ localSeen) \cap fullyExpanded = {}

-----------------------------------------------------------------------------
(***************************************************************************)
(* The inductive invariant behind these properties.                        *)
(***************************************************************************)

\* Every set of states the run keeps holds discovered states, and evidence is
\* about a discovered state and never invents a certificate.
Bookkeeping ==
  /\ S0000 \in states
  /\ roots \cup fullyExpanded \cup closedCandidates \cup localFrontier
       \cup localSeen \cup nextFrontier \subseteq states
  /\ pc = "apply" => /\ current \in localSeen
                     /\ pending \subseteq Certifiable(current)
  /\ \A h \in StateHash : built[h] # None =>
       /\ h \in states
       /\ built[h].certified \subseteq Certifiable(h)
       /\ ~ built[h].gap => built[h].certified = Certifiable(h)
       /\ built[h].gap => "evidence" \in exactReasons

\* No evidence gap, failure or cap so far.
Clean == exactReasons = {} /\ ~ stopped

\* States whose expansion is still to come in the place the run is in.
Waiting ==
  CASE pc = "window"   -> roots
    [] pc = "layer"    -> localFrontier \cup nextFrontier
    [] pc = "apply"    -> localFrontier \cup nextFrontier \cup {current}
    [] pc = "boundary" -> nextFrontier
    [] OTHER           -> {}

\* Only the state being expanded has been seen without being expanded.
SeenIsExpanded ==
  localSeen \subseteq fullyExpanded \cup (IF pc = "apply" THEN {current} ELSE {})

\* The successors of the state being expanded are recorded one by one.
ApplyingIsSound ==
  pc = "apply" =>
    /\ parentComplete
    /\ Certifiable(current) # {}
    /\ \A b \in Certifiable(current) \ pending : ChildHash(current, b) \in states

\* An expanded state has all its successors; if it has none it is a candidate.
ExpandedIsClosed ==
  \A h \in fullyExpanded :
    /\ SuccessorsKnown(h)
    /\ Certifiable(h) = {} => h \in closedCandidates

\* No discovered state that a pass changes falls between the loops.
NothingLost ==
  \A h \in states : Active(h) => h \in fullyExpanded \cup everPruned \cup Waiting

DeadEndsKept ==
  \A h \in states : Certifiable(h) = {} => h \in closedCandidates \cup everPruned \cup Waiting

\* While the run is clean no state and no successor is unaccounted for.
Accounting ==
  Clean => SeenIsExpanded /\ ApplyingIsSound /\ ExpandedIsClosed /\ NothingLost /\ DeadEndsKept

\* What waits has not been expanded.
Freshness ==
  /\ pc = "window" => roots \cap fullyExpanded = {}
  /\ pc \in {"layer", "apply"} =>
       ((localFrontier \cup nextFrontier) \ localSeen) \cap fullyExpanded = {}
  /\ pc = "apply" => current \notin fullyExpanded

Numbering == \A h \in states : num[h] < StateCount

IInv == Bookkeeping /\ Accounting /\ Freshness /\ Numbering

\* Every run ends: no window is repeated for ever, whatever cycles the batches
\* make of the states.
Termination == <>(pc = "done")

\* A run that stops at a gap, or after a number of windows, ends.
BoundedRunsEnd == FailOnIncomplete \/ MaxWindows > 0 => Termination
=============================================================================
