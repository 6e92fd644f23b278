----------------------------- MODULE Explorers -----------------------------
(***************************************************************************)
(* explore_states and explore_batches: the searches that only explore.     *)
(* Every child has a row of its own, also the copy of a known state, and   *)
(* nothing is selected at the end.  explore_states takes its parents from  *)
(* a queue and their children from the passes that change them;            *)
(* explore_batches goes layer by layer, takes the first candidates of its  *)
(* policy whether or not they may be executed, and skips the others.       *)
(***************************************************************************)
EXTENDS LegacySearch

\* Candidates are numbered rows of a file.
ASSUME CandidateAssumption == Batches \subseteq Nat /\ IsFiniteSet(Batches)

VARIABLE skipped   \* skipped_batches.csv: pairs of a row and a batch

explorerVars == <<vars, skipped>>

ByBatches == mode \in {"explore_all", "explore_certified"}
ByStates  == mode = "explore_states"

ExplorerInit == Init /\ skipped = {}

-----------------------------------------------------------------------------
(* explore_batches.                                                        *)

\* _select_candidate_batches: "all" keeps the order of batch_candidates.csv,
\* "certified-first" moves the certified ones to the front.
Before(c, b, certified) ==
  IF mode = "explore_certified" /\ (c \in certified) # (b \in certified)
  THEN c \in certified
  ELSE c < b

Chosen(candidates, certified) ==
  {b \in candidates :
     Cardinality({c \in candidates : Before(c, b, certified)}) < limits.batches}

\* The candidates of a state, which are built once, and those of them that may be
\* executed. A module that no pass changes has none.
Families(m) ==
  {f \in [candidates : SUBSET Batches, certified : SUBSET Batches] :
     /\ f.certified \subseteq f.candidates \cap Certifiable(m)
     /\ ~ Compiler.active[m] => f.candidates = {}}

\* The skipped rows of a state are written as its batches come up, which nothing
\* depends on. What is beyond the limit is written nowhere.
ExploreParent ==
  /\ Build /\ ByBatches
  /\ LET m == rows[Parent].module
     IN \E f \in Families(m) :
          /\ LET chosen == Chosen(f.candidates, f.certified)
             IN /\ skipped' = skipped \cup {<<Parent, b>> : b \in chosen \ f.certified}
                /\ pending' = chosen \cap f.certified
                /\ lost' = lost \cup {<<Parent, b>> : b \in Certifiable(m) \ chosen}
  /\ pc' = "apply"
  /\ UNCHANGED <<runVars, rows, children, leaf, reasons, stop, round, frontier, queue, selected>>

\* Only a state that is new can be expanded.
ExploreBatch(b) ==
  /\ IsNext(b) /\ ByBatches
  /\ IF Known(Child(b)) = {}
     THEN rows' = Append(rows, Row(b, 0, round + 1)) /\ children' = Append(children, Len(rows'))
     ELSE /\ \E i \in Known(Child(b)) : rows' = Append(rows, Row(b, i, round + 1))
          /\ UNCHANGED children
  /\ pending' = pending \ {b}
  /\ UNCHANGED <<runVars, lost, expanded, leaf, reasons, stop, round, frontier, queue, pc,
                 selected, skipped>>

-----------------------------------------------------------------------------
(* explore_states.                                                         *)

\* The passes that change a module are its active ones.
Active(m) == {b \in Batches : Compiler.hash[Compiler.apply[m][b]] # Compiler.hash[m]}

\* Some fail when they are profiled, and the policy may take only top_k of the others.
PassFrontiers(m) == SUBSET Active(m)

ExploreState ==
  /\ pc = "parent" /\ queue # <<>> /\ ByStates
  /\ IF rows[Parent].depth >= MaxRounds
     THEN queue' = Tail(queue) /\ UNCHANGED <<pending, lost, expanded, pc>>
     ELSE /\ expanded' = expanded \cup {Parent}
          /\ pending' \in PassFrontiers(rows[Parent].module)
          /\ lost' = lost \cup {<<Parent, b>> : b \in Active(rows[Parent].module) \ pending'}
          /\ pc' = "apply" /\ UNCHANGED queue
  /\ UNCHANGED <<runVars, rows, children, leaf, reasons, stop, round, frontier, selected, skipped>>

\* Faulty variant: the newest state is explored first.
ExplorePassDepthFirst(b) ==
  /\ IsNext(b) /\ ByStates
  /\ LET depth == rows[Parent].depth + 1
     IN IF Known(Child(b)) = {}
        THEN /\ rows' = Append(rows, Row(b, 0, depth))
             /\ queue' = <<Parent, Len(rows')>> \o Tail(queue)
        ELSE /\ \E i \in Known(Child(b)) : rows' = Append(rows, Row(b, i, depth))
             /\ UNCHANGED queue
  /\ pending' = pending \ {b}
  /\ UNCHANGED <<runVars, lost, children, expanded, leaf, reasons, stop, round, frontier, pc,
                 selected, skipped>>

ExplorePass(b) ==
  /\ IsNext(b) /\ ByStates
  /\ LET depth == rows[Parent].depth + 1
     IN IF Known(Child(b)) = {}
        THEN rows' = Append(rows, Row(b, 0, depth)) /\ queue' = Append(queue, Len(rows'))
        ELSE /\ \E i \in Known(Child(b)) : rows' = Append(rows, Row(b, i, depth))
             /\ UNCHANGED queue
  /\ pending' = pending \ {b}
  /\ UNCHANGED <<runVars, lost, children, expanded, leaf, reasons, stop, round, frontier, pc,
                 selected, skipped>>

QueueEmpty ==
  /\ pc = "parent" /\ queue = <<>> /\ ByStates
  /\ pc' = "finish"
  /\ UNCHANGED <<runVars, searchVars, expanded, leaf, reasons, stop, round, frontier, queue,
                 selected, skipped>>

-----------------------------------------------------------------------------

\* aggregate_batch_summary.csv counts what was executed or skipped by the depth of
\* the parent.
BatchSummary(d) ==
  [states   |-> Cardinality({i \in Rows : rows[i].copyOf = 0 /\ rows[i].depth = d}),
   executed |-> Cardinality({i \in Rows \ {1} : rows[rows[i].parent].depth = d}),
   skipped  |-> Cardinality({s \in skipped : rows[s[1]].depth = d})]

WriteExploration ==
  /\ pc = "finish" /\ (ByBatches \/ ByStates)
  /\ pc' = "explored"
  /\ UNCHANGED <<runVars, searchVars, expanded, leaf, reasons, stop, round, frontier, queue,
                 selected, skipped>>

ExplorerNext ==
  \/ ExploreParent \/ ExploreState \/ QueueEmpty \/ WriteExploration
  \/ \E b \in pending : ExploreBatch(b) \/ ExplorePass(b)

Layer(d) == {i \in Rows : rows[i].copyOf = 0 /\ rows[i].depth = d}

\* Every state is recorded at its least depth: no copy of it is less deep.
StatesAreShallow ==
  \A i \in Rows : rows[i].copyOf # 0 => rows[rows[i].copyOf].depth <= rows[i].depth

\* The transition tables lack nothing silently but what the limits cut off or opt
\* lost: a state that was expanded has a row for each of its executable batches
\* (or passes), none is expanded twice, and a layer is expanded as far as
\* max_frontier_states allows (explore_states: in full). The summary by depth counts
\* no copy as a state and no more batches than the limit.
NothingIsMissed ==
  pc = "explored" =>
    /\ \A i \in expanded : \A b \in IF ByStates THEN Active(rows[i].module) ELSE Certifiable(rows[i].module) :
         <<i, b>> \in lost \cup skipped
           \/ Cardinality({j \in Rows : rows[j].parent = i /\ rows[j].batch = b}) = 1
    /\ \A d \in 0 .. MaxRounds - 1 :
         LET open == Cardinality(Layer(d))
             done == Cardinality(Layer(d) \cap expanded)
         IN done = IF d = 0 \/ ByStates \/ open < limits.frontier THEN open ELSE limits.frontier
    /\ ByBatches => \A d \in 0 .. MaxRounds - 1 :
         LET s == BatchSummary(d)
         IN /\ s.executed + s.skipped <= limits.batches * Cardinality(Layer(d) \cap expanded)
            /\ BatchSummary(d + 1).states <= s.executed

\* What the explorers write is the breadth-first graph of the program's states.
ExplorationIsFaithful ==
  ByBatches \/ ByStates => StatesAreShallow /\ NothingIsMissed

=============================================================================
