---------------------------- MODULE ValidationDag ----------------------------
(***************************************************************************)
(* validate_batch_with_permutation_dag of                                  *)
(* phasebatch/batch_validation_dag.py: all orders of a batch are explored  *)
(* layer by layer as a DAG whose nodes are pairs of a subset of passes     *)
(* already applied and a class of modules.  Paths that meet in a node are  *)
(* folded into its first representative, and the batch is certified when   *)
(* the full subset has a single node.                                      *)
(*                                                                         *)
(* The layer's opt runs may execute on several threads, but executor.map   *)
(* hands their outcomes to one loop in the order of the specs, so the      *)
(* model draws an outcome when the loop reads it.                          *)
(***************************************************************************)
EXTENDS BatchWorld

CONSTANT Budgets   \* the [nodes, edges] budgets a batch may be given

ASSUME BudgetAssumption == Budgets \subseteq [nodes : Nat, edges : Nat]

VARIABLES
  world,        \* the world the validation runs in
  budget,       \* max_nodes and max_edges
  nodes,        \* nodes
  nodeCounter,  \* node_counter, which is always metrics.nodes
  transitions,  \* transitions of the runtime, by canonical hash and pass
  depth,        \* depth
  todo,         \* the selected specs whose outcome has not been merged
  edges,        \* metrics.edges
  overEdges,    \* edge_budget_exceeded
  pc,
  status        \* validation_status of the row; "none" until it is written

vars == <<world, budget, nodes, nodeCounter, transitions, depth, todo, edges,
          overEdges, pc, status>>

-----------------------------------------------------------------------------

Node == [id : Nat, subset : SUBSET Passes, ir : IR, path : Seq(Passes)]

TransitionSpec == [source : Node, pass : Passes]

Transition == [hash : Hash, pass : Passes, out : IR]

RootNode == [id |-> 0, subset |-> {}, ir |-> world.root, path |-> <<>>]

\* The transitions out of the nodes of the current depth.
TransitionSpecs ==
  {s \in [source : {n \in nodes : Len(n.path) = depth}, pass : Passes] :
     s.pass \notin s.source.subset}

\* Nodes in the order of their ids, the passes of a node in canonical order.
SpecBefore(s, t) ==
  \/ s.source.id < t.source.id
  \/ s.source.id = t.source.id /\ s.pass < t.pass

\* Faulty variant: the last edge of the budget is never used.
SelectedSpecsShort ==
  {s \in TransitionSpecs :
     Cardinality({t \in TransitionSpecs : SpecBefore(t, s)}) < budget.edges - edges - 1}

\* transition_specs[:remaining_edges]
SelectedSpecs ==
  {s \in TransitionSpecs :
     Cardinality({t \in TransitionSpecs : SpecBefore(t, s)}) < budget.edges - edges}

IsNextSpec(s) == s \in todo /\ \A t \in todo \ {s} : SpecBefore(s, t)

TargetSubset(s) == s.source.subset \cup {s.pass}

\* Faulty variant: nodes of other subsets of the same size count as targets.
TargetsOfDepth(s) ==
  {n \in nodes : Cardinality(n.subset) = Cardinality(TargetSubset(s))}

Targets(s) == {n \in nodes : n.subset = TargetSubset(s)}

SameHash(m, n)  == world.hash[m] = world.hash[n]
SameClass(m, n) == world.class[m] = world.class[n]

\* Faulty variant: the transition cache is keyed by the pass alone.
OutputsByPass(s) ==
  LET cached == {t \in transitions : t.pass = s.pass}
  IN  IF cached # {}
        THEN {t.out : t \in cached}
        ELSE {world.apply[s.source.ir][s.pass]}

(***************************************************************************)
(* get_or_compute_transition: the runtime's entry for the hash of the      *)
(* source if there is one.  A missing entry is computed from the source,   *)
(* unless the profile of the state or another batch of it has left one,    *)
(* computed from a module with the same hash.                              *)
(***************************************************************************)
Outputs(s) ==
  LET cached == {t \in transitions :
                   t.hash = world.hash[s.source.ir] /\ t.pass = s.pass}
  IN  IF cached # {}
        THEN {t.out : t \in cached}
        ELSE {world.apply[m][s.pass] : m \in {n \in IR : SameHash(n, s.source.ir)}}

Remember(s, out) ==
  transitions' = transitions \cup
    {[hash |-> world.hash[s.source.ir], pass |-> s.pass, out |-> out]}

\* finish(_result_row(...))
Report(verdict) ==
  /\ status' = verdict
  /\ pc' = "done"

-----------------------------------------------------------------------------
Init ==
  /\ world \in Worlds
  /\ budget \in Budgets
  /\ nodes = {RootNode}
  /\ nodeCounter = 1
  /\ transitions = {}
  /\ depth = 0
  /\ todo = {}
  /\ edges = 0
  /\ overEdges = FALSE
  /\ pc = "start"
  /\ status = "none"

\* A budget the root alone exceeds gives up before the first layer.
Start ==
  /\ pc = "start"
  /\ IF nodeCounter > budget.nodes
       THEN Report("incomplete")
       ELSE pc' = "layer" /\ UNCHANGED status
  /\ UNCHANGED <<world, budget, nodes, nodeCounter, transitions, depth, todo,
                 edges, overEdges>>

\* Faulty variant: a layer the edge budget cuts is not remembered as cut.
SelectLayerSilently ==
  /\ pc = "layer"
  /\ depth < BatchLen
  /\ todo' = SelectedSpecs
  /\ overEdges' = FALSE
  /\ edges' = edges + Cardinality(SelectedSpecs)
  /\ pc' = "merge"
  /\ UNCHANGED <<world, budget, nodes, nodeCounter, transitions, depth, status>>

\* Faulty variant: a layer is selected after the last one.
SelectLayerForever ==
  /\ pc = "layer"
  /\ todo' = SelectedSpecs
  /\ overEdges' = (SelectedSpecs # TransitionSpecs)
  /\ edges' = edges + Cardinality(SelectedSpecs)
  /\ pc' = "merge"
  /\ UNCHANGED <<world, budget, nodes, nodeCounter, transitions, depth, status>>

SelectLayer ==
  /\ pc = "layer"
  /\ depth < BatchLen
  /\ todo' = SelectedSpecs
  /\ overEdges' = (SelectedSpecs # TransitionSpecs)
  /\ edges' = edges + Cardinality(SelectedSpecs)
  /\ pc' = "merge"
  /\ UNCHANGED <<world, budget, nodes, nodeCounter, transitions, depth, status>>

\* opt crashed, timed out or wrote nothing: the whole batch fails.
TransitionFails(s) ==
  /\ pc = "merge"
  /\ IsNextSpec(s)
  /\ Report("failed")
  /\ UNCHANGED <<world, budget, nodes, nodeCounter, transitions, depth, todo,
                 edges, overEdges>>

\* An existing node of the subset has the hash of the output, or is compared
\* equal to it.
MergeIntoExisting(s, out) ==
  /\ \E n \in Targets(s) : SameHash(n.ir, out) \/ SameClass(n.ir, out)
  /\ UNCHANGED <<nodes, nodeCounter, pc, status>>

\* No hash matches, and the comparison with a node fails before one folds.
CompareFails(s, out) ==
  /\ Targets(s) # {}
  /\ \A n \in Targets(s) : ~ SameHash(n.ir, out)
  /\ \E n \in Targets(s) : \A m \in Targets(s) :
        m.id < n.id => ~ SameClass(m.ir, out)
  /\ Report("failed")
  /\ UNCHANGED <<nodes, nodeCounter>>

\* A node is kept even when it is the one that exceeds the node budget.
CreateNode(s, out) ==
  /\ \A n \in Targets(s) : ~ SameHash(n.ir, out) /\ ~ SameClass(n.ir, out)
  /\ nodes' = nodes \cup {[id     |-> nodeCounter,
                           subset |-> TargetSubset(s),
                           ir     |-> out,
                           path   |-> Append(s.source.path, s.pass)]}
  /\ nodeCounter' = nodeCounter + 1
  /\ IF nodeCounter' > budget.nodes
       THEN Report("incomplete")
       ELSE UNCHANGED <<pc, status>>

MergeOutcome(s, out) ==
  /\ pc = "merge"
  /\ IsNextSpec(s)
  /\ out \in Outputs(s)
  /\ MergeIntoExisting(s, out) \/ CompareFails(s, out) \/ CreateNode(s, out)
  /\ Remember(s, out)
  /\ todo' = todo \ {s}
  /\ UNCHANGED <<world, budget, depth, edges, overEdges>>

EndLayer ==
  /\ pc = "merge"
  /\ todo = {}
  /\ IF overEdges
       THEN Report("incomplete") /\ edges' = edges + 1 /\ UNCHANGED depth
       ELSE pc' = "layer" /\ depth' = depth + 1 /\ UNCHANGED <<edges, status>>
  /\ UNCHANGED <<world, budget, nodes, nodeCounter, transitions, todo, overEdges>>

FinalNodes == {n \in nodes : n.subset = Passes}

Verdict ==
  /\ pc = "layer"
  /\ depth = BatchLen
  /\ Report(IF Cardinality(FinalNodes) = 1 THEN "all_permutations_same" ELSE "mismatch")
  /\ UNCHANGED <<world, budget, nodes, nodeCounter, transitions, depth, todo,
                 edges, overEdges>>

Done == pc = "done" /\ UNCHANGED vars

ProcessSpec(s) == TransitionFails(s) \/ \E out \in Outputs(s) : MergeOutcome(s, out)

Next ==
  \/ Start
  \/ SelectLayer
  \/ \E s \in todo : ProcessSpec(s)
  \/ EndLayer
  \/ Verdict
  \/ Done

Spec == Init /\ [][Next]_vars

-----------------------------------------------------------------------------
(***************************************************************************)
(* Properties.                                                             *)
(***************************************************************************)

\* Types of the variables.
TypeOK ==
  /\ world \in Worlds
  /\ budget \in [nodes : Nat, edges : Nat]
  /\ nodes \subseteq Node
  /\ nodeCounter \in Nat
  /\ transitions \subseteq Transition
  /\ depth \in 0 .. BatchLen
  /\ todo \subseteq TransitionSpec
  /\ edges \in Nat
  /\ overEdges \in BOOLEAN
  /\ pc \in {"start", "layer", "merge", "done"}
  /\ status \in {"none", "failed", "incomplete", "all_permutations_same", "mismatch"}

\* A node stands for a history: one order of exactly its passes leads to a
\* module of its class.
Represents(n, h, k) ==
  /\ n.subset = PassesOf(h, k)
  /\ world.class[n.ir] = EndClass(world, h, k)

\* Every order of at most depth passes ends in a node of its passes and class,
\* although only one representative of each class was ever run any further
\* (_find_or_create_node).
PrefixesAreCovered ==
  \A k \in 0 .. depth : \A h \in HistoriesOf(world, k) :
     \E n \in nodes : Represents(n, h, k)

\* The path recorded with a node is an order that really ends in its class, so
\* a mismatch row shows two real orders (_result_row), whichever module the
\* shared transition cache answered with.
NodesAreReal ==
  \A n \in nodes :
     \E k \in 0 .. BatchLen : \E h \in HistoriesOf(world, k) :
        h.order = n.path /\ Represents(n, h, k)

\* Two nodes of one subset are never of one class: the number of final nodes is
\* the number of classes (final_classes).
NodesAreDistinct ==
  \A m, n \in nodes :
     m.subset = n.subset /\ world.class[m.ir] = world.class[n.ir] => m = n

\* The DAG is what its name says, a quotient of all the orders of the batch: it
\* has a node for every order as far as it got, a real order for every node, and
\* no two nodes for one class (_find_or_create_node).
NodesAreFaithful == PrefixesAreCovered /\ NodesAreReal /\ NodesAreDistinct

\* A certificate is given only if all orders of the batch end in one class.
CertificateIsSound ==
  status = "all_permutations_same" => OrdersAgree(world)

\* A mismatch is reported only if two orders end in different classes.
MismatchIsSound ==
  status = "mismatch" => ~ OrdersAgree(world)

\* The nodes and edges of the complete DAG.
AllNodes ==
  UNION {{<<PassesOf(h, k), EndClass(world, h, k)>> : h \in HistoriesOf(world, k)} :
           k \in 0 .. BatchLen}
AllEdges ==
  {e \in AllNodes \X Passes : e[2] \notin e[1][1]}

\* A batch is given up as incomplete only if its complete DAG does not fit its
\* budgets: merging wastes neither a node nor an edge.
IncompleteMeansOverBudget ==
  status = "incomplete" =>
    \/ Cardinality(AllNodes) > budget.nodes
    \/ Cardinality(AllEdges) > budget.edges

\* The DAG validation keeps the promise of a validation row.
Certificate == INSTANCE BatchCertificate WITH
  IR <- IR, Hash <- Hash, Class <- Class, BatchLen <- BatchLen, Worlds <- Worlds,
  world <- world, status <- status
ImplementsCertificate == Certificate!Spec
=============================================================================
