---------------------------- MODULE LegacySearch ----------------------------
(***************************************************************************)
(* The two older searches of phasebatch/optimizer.py.  _run_exact expands  *)
(* MaxRounds layers of certified batches in full; _run_budgeted expands at *)
(* most limits.frontier states of a layer by limits.batches batches each.  *)
(* A layer is a round.  Both end in _finish_run, which selects a state.    *)
(*                                                                         *)
(* A state is a row, numbered as its state id: S0000 is row 1.  A module   *)
(* reached again is the old row in exact mode and a duplicate row of its   *)
(* own in budgeted mode.  The policies that rank batches and states choose *)
(* any of them here, and an opt run may fail.  Only certified batches can  *)
(* be executed: the options that allow weaker evidence are off.  The       *)
(* explorers (Explorers) and the stages (StagedRun) are built on it.       *)
(***************************************************************************)
EXTENDS SearchWorld, FiniteSets

CONSTANTS
  Modes,       \* modes that may be asked for, "exact_continued" without exact_fail_on_incomplete
  MaxRounds,   \* max_rounds
  MaxStates,   \* max_states
  Limits       \* max_batches_per_state with beam_width or max_frontier_states

ASSUME LegacyAssumption ==
  /\ Modes \subseteq {"exact", "exact_continued", "budgeted", "auto",
                       "explore_states", "explore_all", "explore_certified"}
  /\ MaxRounds \in Nat \ {0} /\ MaxStates \in Nat \ {0}
  /\ Limits \subseteq [batches : Nat \ {0}, frontier : Nat \ {0}]

VARIABLES
  world,
  asked, mode,  \* requested_mode, and the one that runs
  limits,
  rows,       \* state_rows, with parent_by_child and path_info_by_state
  expanded,   \* rows whose evidence has been built for expansion
  leaf,       \* leaf_reasons: pairs of a row and a reason
  lost,       \* pairs of a row and a batch that opt failed to apply or a limit cut off
  reasons,    \* exact_reasons, by kind
  stop,       \* stop_expansion, budget_exhausted
  round, frontier, children,
  queue,      \* parents of the frontier that are still to come
  pending,    \* batches of the first of them that are still to come
  pc, selected

searchVars == <<rows, lost, children, pending>>
runVars == <<world, asked, mode, limits>>
vars == <<runVars, searchVars, expanded, leaf, reasons, stop, round, frontier, queue, pc,
          selected>>

Compiler       == Worlds[world]
Budgeted       == mode = "budgeted"
Exact          == mode \in {"exact", "exact_continued"}
Certifiable(m) == Compiler.certifiable[m]
Rows           == DOMAIN rows
Parent         == Head(queue)
Objective(i)   == Compiler.objective[rows[i].module]

\* _unique_state_count.
StateCount == Cardinality({i \in Rows : rows[i].copyOf = 0})

\* hash_to_state_id: the row of a module, if it has been seen.
Known(m) ==
  {i \in Rows : rows[i].copyOf = 0 /\ Compiler.hash[rows[i].module] = Compiler.hash[m]}

\* parent and batch are those of parent_by_child, first is the sequence of batches
\* along the parents in states.csv, which are never replaced.
RootRow(m) ==
  <<[module |-> m, copyOf |-> 0, depth |-> 0, parent |-> 0, batch |-> 0, path |-> RootPath,
     first |-> <<>>]>>

\* The module that a sequence of batches leads to.
Walk(m, sequence) ==
  LET at[k \in 0 .. Len(sequence)] ==
        IF k = 0 THEN m ELSE Compiler.apply[at[k - 1]][sequence[k]]
  IN at[Len(sequence)]

\* Modes that have neither limit.
Unlimited == {"exact", "exact_continued", "explore_states"}
NoLimits  == [batches |-> 0, frontier |-> 0]

Init ==
  /\ world \in DOMAIN Worlds /\ asked \in Modes /\ mode = asked
  /\ IF asked \in Unlimited THEN limits = NoLimits ELSE limits \in Limits
  /\ rows = RootRow(Compiler.root)
  /\ expanded = {} /\ leaf = {} /\ lost = {} /\ reasons = {} /\ stop = FALSE
  /\ round = 0 /\ frontier = <<1>> /\ children = <<>>
  /\ queue = <<>> /\ pending = {}
  /\ pc = "round" /\ selected = 0

\* What _exact_incomplete_reasons can find of a module: without a gap every
\* certifiable batch is certified, with one some of them may be missing.
ExactEvidence(m) ==
  {e \in Evidence : /\ e.certified \subseteq Certifiable(m)
                    /\ ~ e.gap => e.certified = Certifiable(m)
                    /\ e.gap => Compiler.active[m]}

\* _choose_auto_mode looks at the batches of the root, but not at its pair tests, so
\* that there may be a gap.
ChooseAutoMode ==
  /\ pc = "round" /\ mode = "auto"
  /\ \/ mode' = "budgeted"
     \/ /\ mode' = "exact"
        /\ \E e \in ExactEvidence(rows[1].module) :
             LET candidates == Cardinality(e.certified)
             IN candidates <= limits.batches /\ 1 + candidates <= MaxStates
  /\ UNCHANGED <<world, asked, limits, searchVars, expanded, leaf, reasons, stop, round, frontier,
                 queue, pc, selected>>

StartRound ==
  /\ pc = "round" /\ mode # "auto"
  /\ IF round = MaxRounds \/ stop \/ (Budgeted /\ frontier = <<>>)
     THEN pc' = "finish" /\ UNCHANGED <<queue, children>>
     ELSE pc' = "parent" /\ queue' = frontier /\ children' = <<>>
  /\ UNCHANGED <<runVars, rows, lost, pending, expanded, leaf, reasons, stop, round,
                 frontier, selected>>

-----------------------------------------------------------------------------
(* A parent.                                                               *)

Build == pc = "parent" /\ queue # <<>> /\ expanded' = expanded \cup {Parent}

Leaf(reason) == leaf' = leaf \cup {<<Parent, reason>>}

\* A parent with nothing to execute is a leaf, else its batches are applied.
ExpandBy(batches) ==
  /\ pending' = batches
  /\ IF batches # {}
     THEN pc' = "apply" /\ UNCHANGED <<queue, leaf>>
     ELSE /\ Leaf(IF Compiler.active[rows[Parent].module]
                  THEN "no_executable_batches" ELSE "no_active_passes")
          /\ queue' = Tail(queue) /\ UNCHANGED pc

ExactParent ==
  /\ Build /\ Exact
  /\ \E e \in ExactEvidence(rows[Parent].module) :
       /\ reasons' = reasons \cup (IF e.gap THEN {"evidence"} ELSE {})
       /\ IF e.gap /\ mode = "exact"
          THEN stop' = TRUE /\ Leaf("exact_incomplete") /\ pc' = "layer" /\ UNCHANGED <<queue, pending>>
          ELSE ExpandBy(e.certified) /\ UNCHANGED stop
  /\ UNCHANGED <<runVars, rows, lost, children, round, frontier, selected>>

\* _select_budgeted_batches: as many as the limit allows.
Selections(executable) ==
  LET size == IF Cardinality(executable) < limits.batches THEN Cardinality(executable)
             ELSE limits.batches
  IN {batches \in SUBSET executable : Cardinality(batches) = size}

\* The state cap may leave the parent, and those after it, for no later round.
BudgetedParent ==
  /\ pc = "parent" /\ queue # <<>> /\ Budgeted
  /\ IF StateCount >= MaxStates
     THEN /\ stop' = TRUE /\ pc' = "layer"
          /\ UNCHANGED <<expanded, queue, leaf, pending>>
     ELSE /\ Build /\ UNCHANGED stop
          /\ \E executable \in SUBSET Certifiable(rows[Parent].module) :
               \E batches \in Selections(executable) : ExpandBy(batches)
  /\ UNCHANGED <<runVars, rows, lost, children, reasons, round, frontier, selected>>

-----------------------------------------------------------------------------
(* A batch.                                                                *)

\* The scores that rank the batches (or the passes) of a state are left open: they
\* may be applied in any order.
AnyOrder == {"budgeted", "explore_states"}

IsNext(b) == pc = "apply" /\ b \in pending /\ (mode \notin AnyOrder => \A c \in pending : b <= c)

Child(b) == Compiler.apply[rows[Parent].module][b]

\* Neither search gives a reason for what is lost here.
ApplyFails(b) ==
  /\ IsNext(b) /\ mode # "explore_states"
  /\ Budgeted => StateCount < MaxStates
  /\ lost' = lost \cup {<<Parent, b>>}
  /\ pending' = pending \ {b}
  /\ UNCHANGED <<runVars, rows, expanded, leaf, reasons, stop, round, frontier, children,
                 queue, pc, selected>>

\* Faulty variant: the cap is no reason.
ExactCapUnsaid(b) ==
  /\ IsNext(b) /\ Exact
  /\ Known(Child(b)) = {} /\ StateCount >= MaxStates
  /\ stop' = TRUE
  /\ Leaf("state_cap_reached")
  /\ pending' = {} /\ queue' = Tail(queue) /\ pc' = "parent"
  /\ UNCHANGED <<runVars, rows, lost, expanded, reasons, round, frontier, children, selected>>

\* The child beyond the cap ends this parent, but not its round.
ExactCap(b) ==
  /\ IsNext(b) /\ Exact
  /\ Known(Child(b)) = {} /\ StateCount >= MaxStates
  /\ reasons' = reasons \cup {"state_cap"} /\ stop' = TRUE
  /\ Leaf("state_cap_reached")
  /\ pending' = {} /\ queue' = Tail(queue) /\ pc' = "parent"
  /\ UNCHANGED <<runVars, rows, lost, expanded, round, frontier, children, selected>>

BudgetedCap(b) ==
  /\ IsNext(b) /\ Budgeted /\ StateCount >= MaxStates
  /\ stop' = TRUE
  /\ Leaf("state_cap_reached")
  /\ pending' = {} /\ pc' = "layer"
  /\ UNCHANGED <<runVars, rows, lost, expanded, reasons, round, frontier, children, queue,
                 selected>>

Row(b, copy, depth) ==
  [module |-> Child(b), copyOf |-> copy, depth |-> depth,
   parent |-> Parent, batch |-> b, path |-> ExtendPath(rows[Parent].path, b),
   first |-> Append(rows[Parent].first, b)]

NewState(b) ==
  /\ IsNext(b) /\ (Budgeted \/ Exact)
  /\ Known(Child(b)) = {} /\ StateCount < MaxStates
  /\ rows' = Append(rows, Row(b, 0, round + 1))
  /\ children' = Append(children, Len(rows) + 1)
  /\ pending' = pending \ {b}
  /\ UNCHANGED <<runVars, lost, expanded, leaf, reasons, stop, round, frontier, queue, pc,
                 selected>>

\* Exact mode keeps the better path to the state, and its module as it was.
ExactDuplicate(b) ==
  /\ IsNext(b) /\ Exact
  /\ \E i \in Known(Child(b)) :
       rows' = IF PathIsBetter(Row(b, 0, round + 1).path, rows[i].path)
               THEN [rows EXCEPT ![i].path = Row(b, 0, round + 1).path, ![i].parent = Parent, ![i].batch = b]
               ELSE rows
  /\ pending' = pending \ {b}
  /\ UNCHANGED <<runVars, lost, expanded, leaf, reasons, stop, round, frontier, children,
                 queue, pc, selected>>

\* A duplicate row is never expanded, but it may be selected.
BudgetedDuplicate(b) ==
  /\ IsNext(b) /\ Budgeted /\ StateCount < MaxStates
  /\ \E i \in Known(Child(b)) : rows' = Append(rows, Row(b, i, round + 1))
  /\ pending' = pending \ {b}
  /\ UNCHANGED <<runVars, lost, expanded, leaf, reasons, stop, round, frontier, children,
                 queue, pc, selected>>

ParentDone ==
  /\ pc = "apply" /\ pending = {}
  /\ queue' = Tail(queue) /\ pc' = "parent"
  /\ UNCHANGED <<runVars, rows, lost, children, pending, expanded, leaf, reasons, stop,
                 round, frontier, selected>>

-----------------------------------------------------------------------------
(* The end of a round, and of the run.                                     *)

LayerDone ==
  /\ pc = "parent" /\ queue = <<>> /\ mode # "explore_states"
  /\ pc' = "layer"
  /\ UNCHANGED <<runVars, searchVars, expanded, leaf, reasons, stop, round, frontier, queue,
                 selected>>

\* The batch explorer keeps the first children (max_frontier_states).
FirstChildren ==
  SubSeq(children, 1, IF Len(children) < limits.frontier THEN Len(children) ELSE limits.frontier)

\* The frontier scores (objective, activity, novelty, evidence) are left open, too:
\* any children may come first.
Rankings(size) ==
  {f \in [1..size -> {children[i] : i \in DOMAIN children}] :
     \A i, j \in 1..size : f[i] = f[j] => i = j}

\* _select_budgeted_frontier: as many children as the beam is wide.
Beam ==
  CASE Budgeted -> Rankings(Len(FirstChildren))
    [] Exact    -> {children}
    [] OTHER    -> {FirstChildren}

EndRound ==
  /\ pc = "layer"
  /\ frontier' \in Beam
  /\ round' = round + 1
  /\ queue' = <<>>
  /\ pc' = "round"
  /\ UNCHANGED <<runVars, searchVars, expanded, leaf, reasons, stop, selected>>

HasReason == {l[1] : l \in leaf}

\* Leaf reasons of the states that no round has expanded. Exact mode knows them
\* only when it was not stopped.
LastLeaves ==
  IF Budgeted
  THEN {<<i, IF rows[i].depth >= MaxRounds THEN "max_rounds_reached" ELSE "beam_pruned">> :
          i \in Rows \ (HasReason \cup expanded)}
  ELSE {<<frontier[k], "max_rounds_reached">> :
          k \in IF stop THEN {} ELSE {k \in DOMAIN frontier : frontier[k] \notin HasReason}}

\* _state_selection_key; all steps are certified, so their ratio never decides.
KeyBefore(i, j) ==
  \/ Objective(i) < Objective(j)
  \/ /\ Objective(i) = Objective(j)
     /\ LET p == rows[i].path
            q == rows[j].path
        IN \/ p.length < q.length
           \/ p.length = q.length /\ p.invocations < q.invocations
           \/ p.length = q.length /\ p.invocations = q.invocations /\ i <= j

Finish ==
  /\ pc = "finish" /\ (Budgeted \/ Exact)
  /\ leaf' = leaf \cup LastLeaves
  /\ selected' \in {i \in Rows : \A j \in Rows : KeyBefore(i, j)}
  /\ pc' = "done"
  /\ UNCHANGED <<runVars, searchVars, expanded, reasons, stop, round, frontier, queue>>

\* _chosen_path_rows: the batches along the recorded parents, of which the pipeline
\* that is written consists.
ChosenPath(i) ==
  LET along[j \in Rows] ==
        IF j = 1 THEN <<>> ELSE Append(along[rows[j].parent], rows[j].batch)
  IN along[i]

ExactStatus ==
  CASE Budgeted                     -> "not_applicable"
    [] ~ Budgeted /\ reasons = {}   -> "exact_complete"
    [] ~ Budgeted /\ reasons # {}   ->
         IF mode = "exact" THEN "exact_incomplete" ELSE "exact_incomplete_continued"

\* _selected_terminal_report. A state without a reason is reported as expanded.
Truncated ==
  \/ \E r \in {"max_rounds_reached", "state_cap_reached", "exact_incomplete", "beam_pruned"} :
       /\ <<selected, r>> \in leaf
       /\ Compiler.active[rows[selected].module]
  \/ ExactStatus \notin {"exact_complete", "not_applicable"}

ApplyBatch(b) ==
  \/ ApplyFails(b) \/ NewState(b)
  \/ ExactCap(b) \/ ExactDuplicate(b)
  \/ BudgetedCap(b) \/ BudgetedDuplicate(b)

Next ==
  \/ ChooseAutoMode \/ StartRound \/ ExactParent \/ BudgetedParent
  \/ \E b \in pending : ApplyBatch(b)
  \/ ParentDone \/ LayerDone \/ EndRound \/ Finish

Spec == Init /\ [][Next]_vars

-----------------------------------------------------------------------------

\* The rows have the form the code gives them, ids are never reused, and no
\* module is a state twice or beyond max_states.
TypeOK ==
  /\ \A i \in Rows :
       /\ rows[i].module \in IR /\ rows[i].copyOf < i /\ rows[i].depth \in 0..MaxRounds
       /\ rows[i].path.length <= rows[i].depth
       /\ rows[i].copyOf = 0 => Known(rows[i].module) = {i}
  /\ Budgeted \/ Exact => StateCount <= MaxStates
  /\ expanded \cup HasReason \subseteq Rows
  /\ round \in 0..MaxRounds /\ Len(frontier) <= Len(rows)
  /\ pending \subseteq Batches

\* The path that is compared and reported is the one that is written: the
\* recorded path of a row is that of its parent and one certified batch (or, in
\* explore_states, one pass that changes the parent), which leads to the module of
\* the row (in exact mode to one of its hash), however often better paths replaced
\* older ones. _chosen_path_rows follows the parents,
\* _state_selection_key the recorded paths. The path along states.csv leads to the
\* module of the row itself, also where hashes collide. And the rows are well
\* formed (TypeOK).
PathsAreWalked ==
  /\ TypeOK
  /\ \A i \in Rows : Walk(rows[1].module, rows[i].first) = rows[i].module
  /\ \A i \in Rows :
       IF i = 1 THEN rows[i].path = RootPath ELSE
       LET p == rows[rows[i].parent]
           out == Compiler.apply[p.module][rows[i].batch]
       IN /\ ChosenPath(i) = rows[i].path.sequence
          /\ IF mode = "explore_states" THEN Compiler.hash[out] # Compiler.hash[p.module]
             ELSE rows[i].batch \in Certifiable(p.module)
          /\ rows[i].path = ExtendPath(p.path, rows[i].batch)
          /\ Compiler.hash[out] = Compiler.hash[rows[i].module]
          /\ ~ Exact => out = rows[i].module

\* exact_complete means that every state fewer than max_rounds batches from the
\* root was expanded by every certifiable batch, but for those that opt failed
\* to apply: no cap, gap or duplicate loses another one.
CompleteMeansExpanded ==
  pc = "done" /\ ExactStatus = "exact_complete" =>
    \A i \in Rows : rows[i].path.length < MaxRounds =>
      \A b \in Certifiable(rows[i].module) :
        <<i, b>> \in lost \/ Known(Compiler.apply[rows[i].module][b]) # {}

\* The final state is reported as not truncated only if the search went on from
\* it, or had nothing to execute there, or (a copy) went on from its original.
TruncationIsReported ==
  pc = "done" /\ ~ Truncated =>
    \/ selected \in expanded
    \/ ~ Compiler.active[rows[selected].module]

\* What _finish_run writes of the search is so: its status and its truncation.
ReportsAreTrue == CompleteMeansExpanded /\ TruncationIsReported

=============================================================================
