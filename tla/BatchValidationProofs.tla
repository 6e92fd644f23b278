------------------------- MODULE BatchValidationProofs -------------------------
(***************************************************************************)
(* Proofs about the validation of one batch, for every batch length,       *)
(* compiler, budget and limit: the verdicts of the permutation DAG are     *)
(* sound, it gives up only when it must, and with whatever method a row    *)
(* was written it says no more than its orders showed.                     *)
(*                                                                         *)
(* CertificateIsSound is not inductive: a verdict reads the nodes, so the  *)
(* invariant says which histories the nodes stand for, layer by layer, and *)
(* where those of the layer being merged are still missing.                *)
(***************************************************************************)
EXTENDS OrderValidation, FiniteSetTheorems, TLAPS

(***************************************************************************)
(* Facts about the orders of a batch, for every batch length and world.    *)
(***************************************************************************)

\* The world of a validation folds soundly.
LEMMA Folding ==
  ASSUME NEW w \in Worlds, NEW m \in IR, NEW n \in IR
  PROVE  /\ w \in World
         /\ w.hash[m] = w.hash[n] =>
              w.class[m] = w.class[n]
         /\ w.class[m] = w.class[n] =>
              \A p \in Passes :
                 w.class[w.apply[m][p]] =
                 w.class[w.apply[n][p]]
  BY BatchAssumption, FoldAssumption

\* The empty history.
LEMMA EmptyHistory ==
  ASSUME NEW w \in Worlds
  PROVE  \E h \in HistoriesOf(w, 0) :
            /\ h.order = <<>>
            /\ PassesOf(h, 0) = {}
            /\ h.trace[0] = w.root
<1> DEFINE h == [order |-> <<>>, trace |-> [i \in 0 .. 0 |-> w.root]]
<1>1. w.root \in IR
  BY BatchAssumption DEF World
<1>2. h.order \in Orders(0)
  BY DEF Orders
<1>3. h.trace \in [0 .. 0 -> IR]
  BY <1>1
<1>4. h \in HistoriesOf(w, 0)
  BY <1>2, <1>3 DEF HistoriesOf
<1>5. PassesOf(h, 0) = {}
  BY DEF PassesOf
<1> QED BY <1>4, <1>5

\* A history is extended by running one more pass.
LEMMA ExtendHistory ==
  ASSUME NEW w \in Worlds, NEW k \in 0 .. BatchLen, k < BatchLen,
         NEW h \in HistoriesOf(w, k), NEW p \in Passes, p \notin PassesOf(h, k)
  PROVE  \E g \in HistoriesOf(w, k + 1) :
            /\ g.order = Append(h.order, p)
            /\ PassesOf(g, k + 1) = PassesOf(h, k) \cup {p}
            /\ g.trace[k + 1] = w.apply[h.trace[k]][p]
<1> DEFINE last  == w.apply[h.trace[k]][p]
           order == [i \in 1 .. k + 1 |-> IF i = k + 1 THEN p ELSE h.order[i]]
           trace == [i \in 0 .. k + 1 |-> IF i = k + 1 THEN last ELSE h.trace[i]]
           g     == [order |-> order, trace |-> trace]
<1>1. /\ k \in Nat /\ k + 1 \in Nat
      /\ h.order \in Orders(k)
      /\ h.order \in [1 .. k -> Passes]
      /\ h.trace \in [0 .. k -> IR]
      /\ h.trace[0] = w.root
      /\ \A i \in 1 .. k : h.trace[i] = w.apply[h.trace[i - 1]][h.order[i]]
  BY BatchAssumption DEF HistoriesOf, Orders
<1>2. w.apply \in [IR -> [Passes -> IR]]
  BY BatchAssumption DEF World
<1>3. last \in IR
  BY <1>1, <1>2
<1>4. order \in [1 .. k + 1 -> Passes]
  BY <1>1
<1>5. \A i, j \in 1 .. k + 1 : order[i] = order[j] => i = j
  <2>1. \A i \in 1 .. k : h.order[i] # p
    BY DEF PassesOf
  <2>2. \A i, j \in 1 .. k : h.order[i] = h.order[j] => i = j
    BY <1>1 DEF Orders
  <2> QED BY <1>1, <2>1, <2>2
<1>6. trace \in [0 .. k + 1 -> IR]
  BY <1>1, <1>3
<1>7. \A i \in 1 .. k + 1 : trace[i] = w.apply[trace[i - 1]][order[i]]
  <2> TAKE i \in 1 .. k + 1
  <2>1. CASE i = k + 1
    BY <1>1, <2>1
  <2>2. CASE i # k + 1
    <3>1. i \in 1 .. k /\ i - 1 \in 0 .. k
      BY <1>1, <2>2
    <3> QED BY <1>1, <3>1
  <2> QED BY <2>1, <2>2
<1>8. g \in HistoriesOf(w, k + 1)
  <2>1. order \in Orders(k + 1)
    BY <1>4, <1>5 DEF Orders
  <2>2. trace[0] = w.root
    BY <1>1
  <2> HIDE DEF order, trace
  <2> QED BY <1>6, <1>7, <2>1, <2>2 DEF HistoriesOf
<1>9. order = Append(h.order, p)
  <2>1. h.order \in Seq(Passes) /\ Len(h.order) = k
    BY <1>1
  <2>2. Append(h.order, p) = [i \in 1 .. k + 1 |-> IF i = k + 1 THEN p ELSE h.order[i]]
    BY <2>1, <1>1
  <2> QED BY <2>2
<1>10. PassesOf(g, k + 1) = PassesOf(h, k) \cup {p}
  <2>1. 1 .. k + 1 = (1 .. k) \cup {k + 1} /\ k + 1 \notin 1 .. k
    BY <1>1
  <2>2. g.order[k + 1] = p /\ \A i \in 1 .. k : g.order[i] = h.order[i]
    BY <2>1
  <2> HIDE DEF g
  <2> QED BY <2>1, <2>2 DEF PassesOf
<1>11. g.trace[k + 1] = last
  BY <1>1
<1> QED BY <1>8, <1>9, <1>10, <1>11

\* A history that is not empty extends a shorter one by a pass of its own.
LEMMA ShortenHistory ==
  ASSUME NEW w \in Worlds, NEW k \in Nat, NEW h \in HistoriesOf(w, k + 1)
  PROVE  \E g \in HistoriesOf(w, k) :
            /\ h.order[k + 1] \in Passes
            /\ h.order[k + 1] \notin PassesOf(g, k)
            /\ PassesOf(h, k + 1) = PassesOf(g, k) \cup {h.order[k + 1]}
            /\ h.trace[k + 1] = w.apply[g.trace[k]][h.order[k + 1]]
            /\ g.trace[k] \in IR
<1> DEFINE order == [i \in 1 .. k |-> h.order[i]]
           trace == [i \in 0 .. k |-> h.trace[i]]
           g     == [order |-> order, trace |-> trace]
<1>1. /\ h.order \in [1 .. k + 1 -> Passes]
      /\ \A i, j \in 1 .. k + 1 : h.order[i] = h.order[j] => i = j
      /\ h.trace \in [0 .. k + 1 -> IR]
      /\ h.trace[0] = w.root
      /\ \A i \in 1 .. k + 1 : h.trace[i] = w.apply[h.trace[i - 1]][h.order[i]]
  BY DEF HistoriesOf, Orders
<1>2. order \in Orders(k)
  <2>1. order \in [1 .. k -> Passes]
    BY <1>1
  <2>2. \A i, j \in 1 .. k : order[i] = order[j] => i = j
    BY <1>1
  <2> HIDE DEF order
  <2> QED BY <2>1, <2>2 DEF Orders
<1>3. trace \in [0 .. k -> IR]
  BY <1>1
<1>4. \A i \in 1 .. k : trace[i] = w.apply[trace[i - 1]][order[i]]
  <2> TAKE i \in 1 .. k
  <2>1. i - 1 \in 0 .. k /\ i \in 0 .. k /\ i \in 1 .. k + 1
    OBVIOUS
  <2> QED BY <1>1, <2>1
<1>5. g \in HistoriesOf(w, k)
  <2>1. trace[0] = w.root
    BY <1>1
  <2> HIDE DEF order, trace
  <2> QED BY <1>2, <1>3, <1>4, <2>1 DEF HistoriesOf
<1>6. h.order[k + 1] \in Passes /\ k + 1 \in 1 .. k + 1
  BY <1>1
<1>7. h.order[k + 1] \notin PassesOf(g, k)
  BY <1>1 DEF PassesOf
<1>8. PassesOf(h, k + 1) = PassesOf(g, k) \cup {h.order[k + 1]}
  BY <1>1 DEF PassesOf
<1>9. /\ h.trace[k + 1] = w.apply[g.trace[k]][h.order[k + 1]]
      /\ g.trace[k] \in IR
  <2>1. (k + 1) - 1 = k /\ k \in 0 .. k /\ k \in 0 .. k + 1
    OBVIOUS
  <2>2. h.trace[k + 1] = w.apply[h.trace[k]][h.order[k + 1]]
    BY <1>1, <1>6, <2>1
  <2>3. g.trace[k] = h.trace[k]
    BY <2>1
  <2>4. h.trace[k] \in IR
    BY <1>1, <2>1
  <2> QED BY <2>2, <2>3, <2>4
<1> QED BY <1>5, <1>6, <1>7, <1>8, <1>9

\* The types of a history.
LEMMA HistoryTypes ==
  ASSUME NEW w \in Worlds, NEW k \in 0 .. BatchLen, NEW h \in HistoriesOf(w, k)
  PROVE  /\ h.order \in Seq(Passes) /\ Len(h.order) = k
         /\ PassesOf(h, k) \subseteq Passes
         /\ h.trace[k] \in IR
<1>1. k \in Nat /\ h.order \in [1 .. k -> Passes] /\ h.trace \in [0 .. k -> IR]
  BY BatchAssumption DEF HistoriesOf, Orders
<1> QED BY <1>1 DEF PassesOf

\* A history has run as many passes as it is long.
LEMMA HistorySize ==
  ASSUME NEW w \in Worlds, NEW k \in 0 .. BatchLen, NEW h \in HistoriesOf(w, k)
  PROVE  IsFiniteSet(PassesOf(h, k)) /\ Cardinality(PassesOf(h, k)) = k
<1>1. k \in Nat /\ IsFiniteSet(1 .. k) /\ Cardinality(1 .. k) = k
  BY FS_Interval, BatchAssumption
<1>2. /\ h.order \in [1 .. k -> Passes]
      /\ \A i, j \in 1 .. k : h.order[i] = h.order[j] => i = j
  BY DEF HistoriesOf, Orders
<1>3. h.order \in [1 .. k -> PassesOf(h, k)]
  BY <1>2 DEF PassesOf
<1>4. h.order \in Surjection(1 .. k, PassesOf(h, k))
  BY <1>3 DEF Surjection, PassesOf
<1>5. h.order \in Injection(1 .. k, PassesOf(h, k))
  BY <1>2, <1>3 DEF Injection, IsInjective
<1> QED BY <1>1, <1>4, <1>5, FS_Surjection

\* Two histories of the same passes are equally long.
LEMMA SameLength ==
  ASSUME NEW w \in Worlds, NEW k \in 0 .. BatchLen, NEW j \in 0 .. BatchLen,
         NEW h \in HistoriesOf(w, k), NEW g \in HistoriesOf(w, j),
         PassesOf(h, k) = PassesOf(g, j)
  PROVE  k = j
  BY HistorySize

\* A history has run all passes exactly if it has run as many as there are.
LEMMA FullHistory ==
  ASSUME NEW w \in Worlds, NEW k \in 0 .. BatchLen, NEW h \in HistoriesOf(w, k)
  PROVE  PassesOf(h, k) = Passes <=> k = BatchLen
<1>1. BatchLen \in Nat
  BY BatchAssumption
<1>2. IsFiniteSet(Passes) /\ Cardinality(Passes) = BatchLen
  BY <1>1, FS_Interval DEF Passes
<1>3. PassesOf(h, k) \in SUBSET Passes
  BY HistoryTypes
<1> QED BY <1>2, <1>3, HistorySize, FS_Subset

StateShape ==
  /\ IsFiniteSet(nodes)
  /\ pc = "merge" => depth < BatchLen /\ todo \subseteq TransitionSpecs
  /\ pc = "done" <=> status # "none"

\* The runtime only knows what some module of the hash becomes.
TransitionsAreReal ==
  \A t \in transitions :
     \E m \in IR : world.hash[m] = t.hash /\ t.out = world.apply[m][t.pass]

\* A spec whose outcome was merged has a node for it.
Merged(s) ==
  \E n \in nodes : /\ n.subset = TargetSubset(s)
                   /\ world.class[n.ir] = world.class[world.apply[s.source.ir][s.pass]]

LayerIsMerged ==
  pc = "merge" /\ ~ overEdges => \A s \in TransitionSpecs \ todo : Merged(s)

LayerIsInhabited == \E n \in nodes : Len(n.path) = depth

DagInvariant ==
  /\ TypeOK
  /\ StateShape
  /\ TransitionsAreReal
  /\ LayerIsMerged
  /\ LayerIsInhabited
  /\ PrefixesAreCovered
  /\ NodesAreReal
  /\ NodesAreDistinct
  /\ CertificateIsSound
  /\ MismatchIsSound

-----------------------------------------------------------------------------
\* Facts about the world of the validation.
LEMMA WorldFacts ==
  ASSUME world \in Worlds
  PROVE  /\ world.root \in IR
         /\ world.hash \in [IR -> Hash]
         /\ world.class \in [IR -> Class]
         /\ world.apply \in [IR -> [Passes -> IR]]
         /\ \A m \in IR, p \in Passes : world.apply[m][p] \in IR
         /\ \A m, n \in IR : world.hash[m] = world.hash[n] => world.class[m] = world.class[n]
         /\ \A m, n \in IR : world.class[m] = world.class[n] =>
              \A p \in Passes : world.class[world.apply[m][p]] = world.class[world.apply[n][p]]
<1>1. world \in World
  BY BatchAssumption
<1>2. \A m, n \in IR : world.hash[m] = world.hash[n] => world.class[m] = world.class[n]
  BY Folding
<1>3. \A m, n \in IR : world.class[m] = world.class[n] =>
        \A p \in Passes : world.class[world.apply[m][p]] = world.class[world.apply[n][p]]
  BY Folding
<1>4. /\ world.root \in IR
      /\ world.hash \in [IR -> Hash]
      /\ world.class \in [IR -> Class]
      /\ world.apply \in [IR -> [Passes -> IR]]
  BY <1>1 DEF World
<1> QED BY <1>2, <1>3, <1>4

\* There are finitely many transitions out of finitely many nodes.
LEMMA FiniteSpecs ==
  ASSUME IsFiniteSet(nodes)
  PROVE  /\ IsFiniteSet(TransitionSpecs)
         /\ SelectedSpecs \subseteq TransitionSpecs
         /\ IsFiniteSet(SelectedSpecs)
         /\ Cardinality(SelectedSpecs) \in Nat
<1> DEFINE S == {n \in nodes : Len(n.path) = depth}
           T == [source : S, pass : Passes]
           f == [x \in S \X Passes |-> [source |-> x[1], pass |-> x[2]]]
<1>1. IsFiniteSet(S)
  BY FS_Subset, S \in SUBSET nodes
<1>2. IsFiniteSet(Passes)
  BY FS_Interval, BatchAssumption DEF Passes
<1>3. IsFiniteSet(S \X Passes)
  BY <1>1, <1>2, FS_Product
<1>4. f \in Surjection(S \X Passes, T)
  <2>1. f \in [S \X Passes -> T]
    OBVIOUS
  <2>2. \A t \in T : \E x \in S \X Passes : f[x] = t
    <3> TAKE t \in T
    <3>1. <<t.source, t.pass>> \in S \X Passes /\ f[<<t.source, t.pass>>] = t
      OBVIOUS
    <3> QED BY <3>1
  <2> QED BY <2>1, <2>2 DEF Surjection
<1>5. IsFiniteSet(T)
  BY <1>3, <1>4, FS_Surjection
<1>6. TransitionSpecs \in SUBSET T
  BY DEF TransitionSpecs
<1>7. IsFiniteSet(TransitionSpecs)
  BY <1>5, <1>6, FS_Subset
<1>8. SelectedSpecs \in SUBSET TransitionSpecs
  BY DEF SelectedSpecs
<1>9. IsFiniteSet(SelectedSpecs)
  BY <1>7, <1>8, FS_Subset
<1> QED BY <1>7, <1>8, <1>9, FS_CardinalityType

\* A spec of the layer leads to a module of the class its pass leads to, from
\* whichever module of the source's hash the transition was computed.
LEMMA OutputClass ==
  ASSUME TypeOK, TransitionsAreReal, NEW s \in TransitionSpec, NEW out \in Outputs(s)
  PROVE  /\ out \in IR
         /\ world.class[out] = world.class[world.apply[s.source.ir][s.pass]]
         /\ \E m \in IR : /\ world.hash[m] = world.hash[s.source.ir]
                          /\ out = world.apply[m][s.pass]
<1>1. s.source.ir \in IR /\ s.pass \in Passes
  BY DEF TransitionSpec, Node
<1>2. PICK m \in IR : /\ world.hash[m] = world.hash[s.source.ir]
                      /\ out = world.apply[m][s.pass]
  <2> DEFINE cached == {t \in transitions :
                          t.hash = world.hash[s.source.ir] /\ t.pass = s.pass}
  <2>1. CASE cached # {}
    <3>1. PICK t \in cached : out = t.out
      BY <2>1 DEF Outputs
    <3>2. PICK m \in IR : world.hash[m] = t.hash /\ t.out = world.apply[m][t.pass]
      BY DEF TransitionsAreReal
    <3> QED BY <3>1, <3>2
  <2>2. CASE cached = {}
    BY <2>2 DEF Outputs, SameHash
  <2> QED BY <2>1, <2>2
<1>3. world \in Worlds
  BY DEF TypeOK
<1> QED BY <1>1, <1>2, <1>3, WorldFacts

\* A node's path is a history of its length.
LEMMA NodeHistory ==
  ASSUME TypeOK, NodesAreReal, NEW n \in nodes
  PROVE  /\ Len(n.path) \in 0 .. BatchLen
         /\ \E h \in HistoriesOf(world, Len(n.path)) :
              h.order = n.path /\ Represents(n, h, Len(n.path))
<1>1. PICK k \in 0 .. BatchLen : \E h \in HistoriesOf(world, k) :
        h.order = n.path /\ Represents(n, h, k)
  BY DEF NodesAreReal
<1>2. world \in Worlds
  BY DEF TypeOK
<1>3. PICK h \in HistoriesOf(world, k) : h.order = n.path /\ Represents(n, h, k)
  BY <1>1
<1>4. Len(n.path) = k
  BY <1>2, <1>3, HistoryTypes
<1> QED BY <1>3, <1>4

-----------------------------------------------------------------------------
\* The root alone satisfies the invariant.
LEMMA InitDag == Init => DagInvariant
<1> SUFFICES ASSUME Init PROVE DagInvariant
  OBVIOUS
<1>1. /\ world \in Worlds /\ BatchLen \in Nat
      /\ nodes = {RootNode} /\ depth = 0 /\ todo = {} /\ transitions = {}
      /\ pc = "start" /\ status = "none"
  BY BatchAssumption DEF Init
<1>2. RootNode \in Node /\ Len(RootNode.path) = 0
  BY <1>1, WorldFacts DEF RootNode, Node
<1>3. TypeOK
  <2>1. budget \in [nodes : Nat, edges : Nat]
    BY BudgetAssumption DEF Init
  <2>2. nodeCounter = 1 /\ edges = 0 /\ overEdges \in BOOLEAN
    BY Zenon DEF Init
  <2>3. nodes \subseteq Node /\ transitions \subseteq Transition /\ todo \subseteq TransitionSpec
    BY <1>1, <1>2
  <2>4. depth \in 0 .. BatchLen /\ nodeCounter \in Nat /\ edges \in Nat /\ overEdges \in BOOLEAN
    BY <1>1, <2>2
  <2>5. /\ pc \in {"start", "layer", "merge", "done"}
        /\ status \in {"none", "failed", "incomplete", "all_permutations_same", "mismatch"}
    BY <1>1
  <2> QED BY <1>1, <2>1, <2>3, <2>4, <2>5 DEF TypeOK
<1>4. StateShape
  BY <1>1, FS_Singleton DEF StateShape
<1>5. PICK g \in HistoriesOf(world, 0) :
        g.order = <<>> /\ PassesOf(g, 0) = {} /\ g.trace[0] = world.root
  BY <1>1, EmptyHistory
<1>6. \A h \in HistoriesOf(world, 0) : PassesOf(h, 0) = {} /\ h.trace[0] = world.root
  BY DEF HistoriesOf, PassesOf
<1>7. \A h \in HistoriesOf(world, 0) : Represents(RootNode, h, 0)
  BY <1>6 DEF Represents, RootNode, EndClass
<1>8. PrefixesAreCovered
  BY <1>1, <1>7 DEF PrefixesAreCovered
<1>9. NodesAreReal
  <2>1. g.order = RootNode.path
    BY <1>5 DEF RootNode
  <2>2. 0 \in 0 .. BatchLen
    BY <1>1
  <2> QED BY <1>1, <1>5, <1>7, <2>1, <2>2 DEF NodesAreReal
<1>10. NodesAreDistinct
  BY <1>1 DEF NodesAreDistinct
<1>11. LayerIsInhabited
  BY <1>1, <1>2 DEF LayerIsInhabited
<1> QED BY <1>1, <1>3, <1>4, <1>8, <1>9, <1>10, <1>11
     DEF DagInvariant, TransitionsAreReal, LayerIsMerged, CertificateIsSound, MismatchIsSound

\* What survives a step that leaves the DAG as it is.
LEMMA SameDag ==
  ASSUME DagInvariant, UNCHANGED <<world, nodes, transitions, depth>>
  PROVE  /\ TransitionsAreReal'
         /\ LayerIsInhabited'
         /\ PrefixesAreCovered'
         /\ NodesAreReal'
         /\ NodesAreDistinct'
         /\ world' = world
         /\ TransitionSpecs' = TransitionSpecs
         /\ OrdersAgree(world)' = OrdersAgree(world)
<1>1. TransitionSpecs' = TransitionSpecs
  BY DEF TransitionSpecs
<1>2. TransitionsAreReal' /\ LayerIsInhabited' /\ NodesAreDistinct'
  BY DEF DagInvariant, TransitionsAreReal, LayerIsInhabited, NodesAreDistinct
<1>3. PrefixesAreCovered' /\ NodesAreReal'
  BY DEF DagInvariant, PrefixesAreCovered, NodesAreReal, Represents, EndClass
<1>4. OrdersAgree(world)' = OrdersAgree(world)
  BY DEF OrdersAgree, EndClass
<1> QED BY <1>1, <1>2, <1>3, <1>4

\* A step that leaves the DAG as it is and writes no verdict about the orders.
LEMMA SilentStep ==
  ASSUME DagInvariant, UNCHANGED <<world, nodes, transitions, depth>>,
         status' \in {"none", "failed", "incomplete"}
  PROVE  CertificateIsSound' /\ MismatchIsSound'
  BY DEF CertificateIsSound, MismatchIsSound

LEMMA StartStep == DagInvariant /\ Start => DagInvariant'
<1> SUFFICES ASSUME DagInvariant, Start PROVE DagInvariant'
  OBVIOUS
<1>1. /\ UNCHANGED <<world, budget, nodes, nodeCounter, transitions, depth, todo,
                     edges, overEdges>>
      /\ status = "none"
      /\ \/ pc' = "done" /\ status' = "incomplete"
         \/ pc' = "layer" /\ status' = status
  BY DEF DagInvariant, StateShape, Start, Report
<1>2. TypeOK' /\ StateShape' /\ LayerIsMerged'
  <2>1. TypeOK'
    BY <1>1 DEF DagInvariant, TypeOK
  <2>2. StateShape'
    BY <1>1 DEF DagInvariant, StateShape
  <2>3. LayerIsMerged'
    BY <1>1 DEF LayerIsMerged
  <2> QED BY <2>1, <2>2, <2>3
<1>3. status' \in {"none", "failed", "incomplete"}
  BY <1>1
<1> QED BY <1>1, <1>2, <1>3, SameDag, SilentStep DEF DagInvariant

LEMMA SelectLayerStep == DagInvariant /\ SelectLayer => DagInvariant'
<1> SUFFICES ASSUME DagInvariant, SelectLayer PROVE DagInvariant'
  OBVIOUS
<1>1. /\ UNCHANGED <<world, budget, nodes, nodeCounter, transitions, depth, status>>
      /\ pc' = "merge" /\ status = "none" /\ depth < BatchLen
      /\ todo' = SelectedSpecs
      /\ overEdges' = (SelectedSpecs # TransitionSpecs)
      /\ edges' = edges + Cardinality(SelectedSpecs)
  BY DEF DagInvariant, StateShape, SelectLayer
<1>2. /\ SelectedSpecs \subseteq TransitionSpecs
      /\ Cardinality(SelectedSpecs) \in Nat
  BY FiniteSpecs DEF DagInvariant, StateShape
<1>3. TransitionSpecs \subseteq TransitionSpec
  BY DEF DagInvariant, TypeOK, TransitionSpecs, TransitionSpec
<1>4. TypeOK'
  BY <1>1, <1>2, <1>3 DEF DagInvariant, TypeOK
<1>5. TransitionSpecs' = TransitionSpecs
  BY <1>1, SameDag
<1>6. StateShape'
  BY <1>1, <1>2, <1>5 DEF DagInvariant, StateShape
<1>7. LayerIsMerged'
  BY <1>1, <1>5 DEF LayerIsMerged
<1>8. status' \in {"none", "failed", "incomplete"}
  BY <1>1
<1> QED BY <1>1, <1>4, <1>6, <1>7, <1>8, SameDag, SilentStep DEF DagInvariant

LEMMA TransitionFailsStep ==
  DagInvariant /\ (\E s \in todo : TransitionFails(s)) => DagInvariant'
<1> SUFFICES ASSUME DagInvariant, NEW s \in todo, TransitionFails(s)
             PROVE  DagInvariant'
  OBVIOUS
<1>1. /\ UNCHANGED <<world, budget, nodes, nodeCounter, transitions, depth, todo,
                     edges, overEdges>>
      /\ pc' = "done" /\ status' = "failed"
  BY DEF TransitionFails, Report
<1>2. TypeOK' /\ StateShape' /\ LayerIsMerged'
  BY <1>1 DEF DagInvariant, TypeOK, StateShape, LayerIsMerged
<1> QED BY <1>1, <1>2, SameDag, SilentStep DEF DagInvariant

\* Nodes are only added: what they stand for stays covered.
LEMMA MoreNodes ==
  ASSUME world' = world, depth' = depth, nodes \subseteq nodes'
  PROVE  /\ PrefixesAreCovered => PrefixesAreCovered'
         /\ \A s : Merged(s) => Merged(s)'
<1>1. PrefixesAreCovered => PrefixesAreCovered'
  BY DEF PrefixesAreCovered, Represents, EndClass
<1>2. \A s : Merged(s) => Merged(s)'
  BY DEF Merged, TargetSubset
<1> QED BY <1>1, <1>2

\* What the loop knows of the outcome it reads.
LEMMA OutcomeFacts ==
  ASSUME DagInvariant, NEW s \in todo, NEW out \in Outputs(s), MergeOutcome(s, out)
  PROVE  /\ UNCHANGED <<world, budget, depth, edges, overEdges>>
         /\ pc = "merge" /\ status = "none" /\ depth < BatchLen
         /\ todo' = todo \ {s}
         /\ s \in TransitionSpecs /\ s \in TransitionSpec
         /\ s.source \in nodes /\ s.source \in Node /\ Len(s.source.path) = depth
         /\ s.pass \in Passes /\ s.pass \notin s.source.subset
         /\ out \in IR
         /\ world.class[out] = world.class[world.apply[s.source.ir][s.pass]]
         /\ TransitionsAreReal'
         /\ transitions' \subseteq Transition
<1>1. /\ UNCHANGED <<world, budget, depth, edges, overEdges>>
      /\ pc = "merge" /\ todo' = todo \ {s} /\ Remember(s, out)
  BY DEF MergeOutcome
<1>2. depth < BatchLen /\ status = "none" /\ s \in TransitionSpecs
  BY <1>1 DEF DagInvariant, StateShape
<1>3. /\ s.source \in nodes /\ Len(s.source.path) = depth
      /\ s.pass \in Passes /\ s.pass \notin s.source.subset
  BY <1>2 DEF TransitionSpecs
<1>4. s \in TransitionSpec /\ s.source \in Node /\ world \in Worlds
  BY <1>3 DEF DagInvariant, TypeOK, TransitionSpec
<1>5. /\ out \in IR
      /\ world.class[out] = world.class[world.apply[s.source.ir][s.pass]]
      /\ \E m \in IR : /\ world.hash[m] = world.hash[s.source.ir]
                       /\ out = world.apply[m][s.pass]
  BY <1>4, OutputClass DEF DagInvariant
<1> DEFINE new == [hash |-> world.hash[s.source.ir], pass |-> s.pass, out |-> out]
<1>6. world' = world
  BY <1>1
<1>7. transitions' = transitions \cup {new}
  BY <1>1 DEF Remember
<1>8. new \in Transition
  <2>1. world.hash \in [IR -> Hash] /\ s.source.ir \in IR
    BY <1>4, WorldFacts DEF Node
  <2> QED BY <1>3, <1>5, <2>1 DEF Transition
<1>9. \E m \in IR : world.hash[m] = new.hash /\ new.out = world.apply[m][new.pass]
  BY <1>5
<1>10. TransitionsAreReal'
  <2> HIDE DEF new
  <2> QED BY <1>6, <1>7, <1>9 DEF DagInvariant, TransitionsAreReal
<1>11. transitions' \subseteq Transition
  BY <1>7, <1>8 DEF DagInvariant, TypeOK
<1> QED BY <1>1, <1>2, <1>3, <1>4, <1>5, <1>10, <1>11

LEMMA MergeStep ==
  ASSUME DagInvariant, NEW s \in todo, NEW out \in Outputs(s), MergeOutcome(s, out),
         MergeIntoExisting(s, out)
  PROVE  DagInvariant'
<1>1. UNCHANGED <<nodes, nodeCounter, pc, status>>
  BY DEF MergeIntoExisting
<1>2. UNCHANGED <<world, budget, depth, edges, overEdges>> /\ todo' = todo \ {s}
  BY OutcomeFacts
<1>3. PICK n \in Targets(s) : SameHash(n.ir, out) \/ SameClass(n.ir, out)
  BY DEF MergeIntoExisting
<1>4. n \in nodes /\ n.ir \in IR /\ n.subset = TargetSubset(s)
  BY DEF Targets, DagInvariant, TypeOK, Node
<1>5. world.class[n.ir] = world.class[out]
  BY <1>3, <1>4, OutcomeFacts, WorldFacts DEF SameHash, SameClass, DagInvariant, TypeOK
<1>6. Merged(s)
  BY <1>4, <1>5, OutcomeFacts DEF Merged
<1>7. TypeOK'
  <2>1. transitions' \subseteq Transition
    BY OutcomeFacts
  <2> QED BY <1>1, <1>2, <2>1 DEF DagInvariant, TypeOK
<1>8. TransitionSpecs' = TransitionSpecs
  BY <1>1, <1>2 DEF TransitionSpecs
<1>9. StateShape'
  BY <1>1, <1>2, <1>8 DEF DagInvariant, StateShape
<1>10. \A t : Merged(t) => Merged(t)'
  BY <1>1, <1>2, MoreNodes
<1>11. LayerIsMerged'
  <2> SUFFICES ASSUME pc = "merge", ~ overEdges, NEW t \in TransitionSpecs, t \notin todo'
               PROVE  Merged(t)'
    BY <1>1, <1>2, <1>8 DEF LayerIsMerged
  <2>1. t = s \/ t \notin todo
    BY <1>2
  <2>2. Merged(t)
    BY <1>6, <2>1 DEF DagInvariant, LayerIsMerged
  <2> QED BY <1>10, <2>2
<1>12. /\ LayerIsInhabited' /\ PrefixesAreCovered' /\ NodesAreReal' /\ NodesAreDistinct'
       /\ CertificateIsSound' /\ MismatchIsSound'
  BY <1>1, <1>2 DEF DagInvariant, LayerIsInhabited, PrefixesAreCovered, NodesAreReal,
     NodesAreDistinct, Represents, EndClass, CertificateIsSound, MismatchIsSound,
     OrdersAgree
<1> QED BY <1>7, <1>9, <1>11, <1>12, OutcomeFacts DEF DagInvariant

LEMMA CompareFailsStep ==
  ASSUME DagInvariant, NEW s \in todo, NEW out \in Outputs(s), MergeOutcome(s, out),
         CompareFails(s, out)
  PROVE  DagInvariant'
<1>1. UNCHANGED <<nodes, nodeCounter>> /\ pc' = "done" /\ status' = "failed"
  BY DEF CompareFails, Report
<1>2. UNCHANGED <<world, budget, depth, edges, overEdges>> /\ todo' = todo \ {s}
  BY OutcomeFacts
<1>3. TypeOK'
  <2>1. transitions' \subseteq Transition
    BY OutcomeFacts
  <2> QED BY <1>1, <1>2, <2>1 DEF DagInvariant, TypeOK
<1>4. StateShape' /\ LayerIsMerged'
  BY <1>1 DEF DagInvariant, StateShape, LayerIsMerged
<1>5. LayerIsInhabited' /\ PrefixesAreCovered' /\ NodesAreReal' /\ NodesAreDistinct'
  BY <1>1, <1>2 DEF DagInvariant, LayerIsInhabited, PrefixesAreCovered, NodesAreReal,
     NodesAreDistinct, Represents, EndClass
<1>6. CertificateIsSound' /\ MismatchIsSound'
  BY <1>1 DEF CertificateIsSound, MismatchIsSound
<1> QED BY <1>3, <1>4, <1>5, <1>6, OutcomeFacts DEF DagInvariant

LEMMA CreateNodeStep ==
  ASSUME DagInvariant, NEW s \in todo, NEW out \in Outputs(s), MergeOutcome(s, out),
         CreateNode(s, out)
  PROVE  DagInvariant'
<1> DEFINE N == [id     |-> nodeCounter,
                 subset |-> TargetSubset(s),
                 ir     |-> out,
                 path   |-> Append(s.source.path, s.pass)]
<1>1. /\ nodes' = nodes \cup {N}
      /\ nodeCounter' = nodeCounter + 1
      /\ \/ pc' = "done" /\ status' = "incomplete"
         \/ pc' = pc /\ status' = status
      /\ \A n \in Targets(s) : ~ SameClass(n.ir, out)
  BY DEF CreateNode, Report
<1>2. /\ UNCHANGED <<world, budget, depth, edges, overEdges>> /\ todo' = todo \ {s}
      /\ pc = "merge" /\ status = "none" /\ depth < BatchLen /\ depth \in Nat
      /\ s \in TransitionSpecs /\ s.source \in nodes /\ s.source \in Node
      /\ Len(s.source.path) = depth /\ s.pass \in Passes /\ out \in IR
      /\ s.pass \notin s.source.subset
      /\ world \in Worlds
  BY OutcomeFacts DEF DagInvariant, TypeOK
<1>3. N \in Node /\ Len(N.path) = depth + 1
  <2>1. s.source.path \in Seq(Passes) /\ s.source.subset \subseteq Passes
    BY <1>2 DEF Node
  <2>2. /\ Append(s.source.path, s.pass) \in Seq(Passes)
        /\ Len(Append(s.source.path, s.pass)) = depth + 1
    BY <1>2, <2>1
  <2>3. nodeCounter \in Nat /\ TargetSubset(s) \subseteq Passes
    BY <1>2, <2>1 DEF DagInvariant, TypeOK, TargetSubset
  <2> QED BY <1>2, <2>2, <2>3 DEF Node
<1>4. TypeOK'
  <2>1. nodes' \subseteq Node /\ nodeCounter' \in Nat
    <3>1. nodes \subseteq Node /\ nodeCounter \in Nat
      BY DEF DagInvariant, TypeOK
    <3> HIDE DEF N
    <3> QED BY <1>1, <1>3, <3>1
  <2>2. transitions' \subseteq Transition
    BY OutcomeFacts
  <2>3. /\ pc' \in {"start", "layer", "merge", "done"}
        /\ status' \in {"none", "failed", "incomplete", "all_permutations_same", "mismatch"}
    BY <1>1 DEF DagInvariant, TypeOK
  <2> QED BY <1>2, <2>1, <2>2, <2>3 DEF DagInvariant, TypeOK
<1>5. TransitionSpecs' = TransitionSpecs
  <2>1. {n \in nodes' : Len(n.path) = depth} = {n \in nodes : Len(n.path) = depth}
    BY <1>1, <1>2, <1>3
  <2> QED BY <1>2, <2>1 DEF TransitionSpecs
<1>6. StateShape'
  <2>1. IsFiniteSet(nodes')
    BY <1>1, FS_AddElement DEF DagInvariant, StateShape
  <2>2. pc' = "merge" => depth' < BatchLen /\ todo' \subseteq TransitionSpecs'
    BY <1>2, <1>5 DEF DagInvariant, StateShape
  <2>3. pc' = "done" <=> status' # "none"
    BY <1>1, <1>2
  <2> QED BY <2>1, <2>2, <2>3 DEF StateShape
<1>7. /\ PrefixesAreCovered'
      /\ \A t : Merged(t) => Merged(t)'
  BY <1>1, <1>2, MoreNodes DEF DagInvariant
<1>8. Merged(s)'
  <2>1. N \in nodes' /\ N.subset = TargetSubset(s)
    BY <1>1
  <2>2. world.class[N.ir] = world.class[world.apply[s.source.ir][s.pass]]
    BY OutcomeFacts
  <2>3. world' = world
    BY <1>2
  <2> HIDE DEF N
  <2> QED BY <2>1, <2>2, <2>3 DEF Merged, TargetSubset
<1>9. LayerIsMerged'
  <2> SUFFICES ASSUME ~ overEdges, NEW t \in TransitionSpecs, t \notin todo'
               PROVE  Merged(t)'
    BY <1>2, <1>5 DEF LayerIsMerged
  <2>1. CASE t = s
    BY <1>8, <2>1
  <2>2. CASE t # s
    <3>1. Merged(t)
      BY <1>2, <2>2 DEF DagInvariant, LayerIsMerged
    <3> QED BY <1>7, <3>1
  <2> QED BY <2>1, <2>2
<1>10. LayerIsInhabited'
  BY <1>1, <1>2 DEF DagInvariant, LayerIsInhabited
<1>11. \E h \in HistoriesOf(world, depth + 1) :
         h.order = N.path /\ Represents(N, h, depth + 1)
  <2>1. PICK h \in HistoriesOf(world, depth) :
          h.order = s.source.path /\ Represents(s.source, h, depth)
    BY <1>2, NodeHistory DEF DagInvariant
  <2>2. depth \in 0 .. BatchLen /\ depth + 1 \in 0 .. BatchLen
    BY <1>2, BatchAssumption DEF DagInvariant, TypeOK
  <2>3. s.pass \notin PassesOf(h, depth)
    BY <1>2, <2>1 DEF Represents
  <2>4. PICK g \in HistoriesOf(world, depth + 1) :
          /\ g.order = Append(h.order, s.pass)
          /\ PassesOf(g, depth + 1) = PassesOf(h, depth) \cup {s.pass}
          /\ g.trace[depth + 1] = world.apply[h.trace[depth]][s.pass]
    BY <1>2, <2>2, <2>3, ExtendHistory
  <2>5. h.trace[depth] \in IR /\ s.source.ir \in IR
    BY <1>2, <2>2, HistoryTypes DEF Node
  <2>6. world.class[s.source.ir] = world.class[h.trace[depth]]
    BY <2>1 DEF Represents, EndClass
  <2>7. world.class[world.apply[s.source.ir][s.pass]] =
        world.class[world.apply[h.trace[depth]][s.pass]]
    <3>1. \A m, n \in IR : world.class[m] = world.class[n] =>
            \A p \in Passes : world.class[world.apply[m][p]] = world.class[world.apply[n][p]]
      BY <1>2, WorldFacts
    <3> QED BY <1>2, <2>5, <2>6, <3>1
  <2>8. world.class[out] = world.class[g.trace[depth + 1]]
    BY <2>4, <2>7, OutcomeFacts
  <2>9. N.subset = PassesOf(g, depth + 1)
    BY <2>1, <2>4 DEF Represents, TargetSubset
  <2>10. Represents(N, g, depth + 1)
    BY <2>8, <2>9 DEF Represents, EndClass
  <2>11. g.order = N.path
    BY <2>1, <2>4
  <2> HIDE DEF N
  <2> QED BY <2>10, <2>11
<1>12. NodesAreReal'
  <2> SUFFICES ASSUME NEW n \in nodes'
               PROVE  \E k \in 0 .. BatchLen : \E h \in HistoriesOf(world, k) :
                        h.order = n.path /\ Represents(n, h, k)
    BY <1>2 DEF NodesAreReal, Represents, EndClass
  <2>1. CASE n \in nodes
    BY <2>1 DEF DagInvariant, NodesAreReal
  <2>2. CASE n = N
    <3>1. depth + 1 \in 0 .. BatchLen
      BY <1>2, BatchAssumption
    <3> HIDE DEF N
    <3> QED BY <1>11, <2>2, <3>1
  <2> QED BY <1>1, <2>1, <2>2
<1>13. NodesAreDistinct'
  <2>1. \A n \in nodes : n.subset = N.subset => world.class[n.ir] # world.class[N.ir]
    BY <1>1 DEF Targets, SameClass
  <2>2. world' = world
    BY <1>2
  <2> SUFFICES ASSUME NEW m \in nodes', NEW n \in nodes', m.subset = n.subset,
                      world.class[m.ir] = world.class[n.ir]
               PROVE  m = n
    BY <2>2 DEF NodesAreDistinct
  <2> HIDE DEF N
  <2> QED BY <1>1, <2>1 DEF DagInvariant, NodesAreDistinct
<1>14. CertificateIsSound' /\ MismatchIsSound'
  <2>1. status' \in {"none", "incomplete"}
    BY <1>1, <1>2
  <2> QED BY <2>1 DEF CertificateIsSound, MismatchIsSound
<1> QED BY <1>4, <1>6, <1>7, <1>9, <1>10, <1>12, <1>13, <1>14, OutcomeFacts DEF DagInvariant

LEMMA MergeOutcomeStep ==
  DagInvariant /\ (\E s \in todo : \E out \in Outputs(s) : MergeOutcome(s, out))
    => DagInvariant'
<1> SUFFICES ASSUME DagInvariant, NEW s \in todo, NEW out \in Outputs(s),
                    MergeOutcome(s, out)
             PROVE  DagInvariant'
  OBVIOUS
<1>1. MergeIntoExisting(s, out) \/ CompareFails(s, out) \/ CreateNode(s, out)
  BY DEF MergeOutcome
<1> QED BY <1>1, MergeStep, CompareFailsStep, CreateNodeStep

\* A complete layer has a node for every order that is one pass longer.
LEMMA NextLayerCovered ==
  ASSUME DagInvariant, pc = "merge", ~ overEdges, todo = {},
         NEW h \in HistoriesOf(world, depth + 1)
  PROVE  \E n \in nodes : Represents(n, h, depth + 1)
<1>1. /\ world \in Worlds /\ depth \in Nat /\ depth < BatchLen
      /\ depth \in 0 .. BatchLen /\ nodes \subseteq Node
  BY DEF DagInvariant, TypeOK, StateShape
<1> DEFINE p == h.order[depth + 1]
<1>2. PICK g \in HistoriesOf(world, depth) :
        /\ p \in Passes
        /\ p \notin PassesOf(g, depth)
        /\ PassesOf(h, depth + 1) = PassesOf(g, depth) \cup {p}
        /\ h.trace[depth + 1] = world.apply[g.trace[depth]][p]
        /\ g.trace[depth] \in IR
  BY <1>1, ShortenHistory
<1> HIDE DEF p
<1>3. PICK n \in nodes : Represents(n, g, depth)
  BY <1>1 DEF DagInvariant, PrefixesAreCovered
<1>4. n.subset = PassesOf(g, depth) /\ world.class[n.ir] = world.class[g.trace[depth]]
  BY <1>3 DEF Represents, EndClass
<1>5. Len(n.path) = depth
  <2>1. /\ Len(n.path) \in 0 .. BatchLen
        /\ \E f \in HistoriesOf(world, Len(n.path)) : Represents(n, f, Len(n.path))
    BY NodeHistory DEF DagInvariant
  <2>2. PICK f \in HistoriesOf(world, Len(n.path)) : n.subset = PassesOf(f, Len(n.path))
    BY <2>1 DEF Represents
  <2> QED BY <1>1, <1>4, <2>1, <2>2, SameLength
<1> DEFINE s == [source |-> n, pass |-> p]
<1>6. s \in TransitionSpecs
  BY <1>2, <1>4, <1>5 DEF TransitionSpecs
<1>7. PICK m \in nodes : /\ m.subset = TargetSubset(s)
                         /\ world.class[m.ir] = world.class[world.apply[n.ir][p]]
  BY <1>6 DEF DagInvariant, LayerIsMerged, Merged
<1>8. world.class[world.apply[n.ir][p]] = world.class[world.apply[g.trace[depth]][p]]
  <2>1. n.ir \in IR
    BY <1>1 DEF Node
  <2>2. \A a, b \in IR : world.class[a] = world.class[b] =>
          \A q \in Passes : world.class[world.apply[a][q]] = world.class[world.apply[b][q]]
    BY <1>1, WorldFacts
  <2> QED BY <1>2, <1>4, <2>1, <2>2
<1>9. m.subset = PassesOf(h, depth + 1)
  BY <1>2, <1>4, <1>7 DEF TargetSubset
<1>10. world.class[m.ir] = world.class[h.trace[depth + 1]]
  BY <1>2, <1>7, <1>8
<1>11. Represents(m, h, depth + 1)
  BY <1>9, <1>10 DEF Represents, EndClass
<1> QED BY <1>11

\* A complete layer before the last leads to a node of the next depth.
LEMMA NextLayerInhabited ==
  ASSUME DagInvariant, pc = "merge", ~ overEdges, todo = {}
  PROVE  \E n \in nodes : Len(n.path) = depth + 1
<1>1. /\ world \in Worlds /\ depth \in Nat /\ depth < BatchLen
      /\ depth \in 0 .. BatchLen /\ depth + 1 \in 0 .. BatchLen
  BY BatchAssumption DEF DagInvariant, TypeOK, StateShape
<1>2. PICK n \in nodes : Len(n.path) = depth
  BY DEF DagInvariant, LayerIsInhabited
<1>3. PICK h \in HistoriesOf(world, depth) : Represents(n, h, depth)
  BY <1>2, NodeHistory DEF DagInvariant
<1>4. PassesOf(h, depth) # Passes /\ PassesOf(h, depth) \subseteq Passes
  BY <1>1, FullHistory, HistoryTypes
<1>5. PICK p \in Passes : p \notin PassesOf(h, depth)
  BY <1>4
<1>6. PICK g \in HistoriesOf(world, depth + 1) : TRUE
  BY <1>1, <1>5, ExtendHistory
<1>7. PICK m \in nodes : Represents(m, g, depth + 1)
  BY NextLayerCovered
<1>8. /\ Len(m.path) \in 0 .. BatchLen
      /\ \E f \in HistoriesOf(world, Len(m.path)) : Represents(m, f, Len(m.path))
  BY NodeHistory DEF DagInvariant
<1>9. PICK f \in HistoriesOf(world, Len(m.path)) : m.subset = PassesOf(f, Len(m.path))
  BY <1>8 DEF Represents
<1>10. m.subset = PassesOf(g, depth + 1)
  BY <1>7 DEF Represents
<1>11. Len(m.path) = depth + 1
  BY <1>1, <1>8, <1>9, <1>10, SameLength
<1> QED BY <1>11

LEMMA EndLayerStep == DagInvariant /\ EndLayer => DagInvariant'
<1> SUFFICES ASSUME DagInvariant, EndLayer PROVE DagInvariant'
  OBVIOUS
<1>1. /\ UNCHANGED <<world, budget, nodes, nodeCounter, transitions, todo, overEdges>>
      /\ pc = "merge" /\ todo = {} /\ status = "none"
      /\ depth \in Nat /\ edges \in Nat /\ depth < BatchLen /\ BatchLen \in Nat
      /\ world \in Worlds
  BY BatchAssumption DEF EndLayer, DagInvariant, StateShape, TypeOK
<1>2. CASE overEdges
  <2>1. pc' = "done" /\ status' = "incomplete" /\ edges' = edges + 1 /\ depth' = depth
    BY <1>2 DEF EndLayer, Report
  <2>2. TypeOK'
    BY <1>1, <2>1 DEF DagInvariant, TypeOK
  <2>3. StateShape' /\ LayerIsMerged'
    BY <1>1, <2>1 DEF DagInvariant, StateShape, LayerIsMerged
  <2> QED BY <1>1, <2>1, <2>2, <2>3, SameDag, SilentStep DEF DagInvariant
<1>3. CASE ~ overEdges
  <2>1. pc' = "layer" /\ depth' = depth + 1 /\ UNCHANGED <<edges, status>>
    BY <1>3 DEF EndLayer
  <2>2. depth + 1 \in 0 .. BatchLen
    BY <1>1
  <2>3. TypeOK'
    BY <1>1, <2>1, <2>2 DEF DagInvariant, TypeOK
  <2>4. StateShape' /\ LayerIsMerged'
    BY <1>1, <2>1 DEF DagInvariant, StateShape, LayerIsMerged
  <2>5. LayerIsInhabited'
    BY <1>1, <1>3, <2>1, NextLayerInhabited DEF LayerIsInhabited
  <2>6. \A k \in 0 .. depth + 1 : \A h \in HistoriesOf(world, k) :
          \E n \in nodes : Represents(n, h, k)
    <3> TAKE k \in 0 .. depth + 1
    <3> TAKE h \in HistoriesOf(world, k)
    <3>1. CASE k = depth + 1
      <4>1. h \in HistoriesOf(world, depth + 1)
        BY <1>1, <2>2, <3>1
      <4> QED BY <1>1, <1>3, <3>1, <4>1, NextLayerCovered
    <3>2. CASE k # depth + 1
      <4>1. k \in 0 .. depth
        BY <1>1, <3>2
      <4> QED BY <4>1 DEF DagInvariant, PrefixesAreCovered
    <3> QED BY <3>1, <3>2
  <2>7. PrefixesAreCovered'
    BY <1>1, <2>1, <2>6 DEF PrefixesAreCovered, Represents, EndClass
  <2>8. TransitionsAreReal' /\ NodesAreReal' /\ NodesAreDistinct'
    BY <1>1 DEF DagInvariant, TransitionsAreReal, NodesAreReal, NodesAreDistinct,
       Represents, EndClass
  <2>9. CertificateIsSound' /\ MismatchIsSound'
    BY <1>1, <2>1 DEF CertificateIsSound, MismatchIsSound
  <2> QED BY <2>3, <2>4, <2>5, <2>7, <2>8, <2>9 DEF DagInvariant
<1> QED BY <1>2, <1>3

\* After the last layer, the final nodes are the classes the orders end in.
LEMMA FinalNodesDecide ==
  ASSUME DagInvariant, depth = BatchLen
  PROVE  Cardinality(FinalNodes) = 1 <=> OrdersAgree(world)
<1>1. world \in Worlds /\ BatchLen \in 0 .. BatchLen /\ IsFiniteSet(nodes)
  BY BatchAssumption DEF DagInvariant, TypeOK, StateShape
<1>2. IsFiniteSet(FinalNodes)
  BY <1>1, FS_Subset, FinalNodes \in SUBSET nodes DEF FinalNodes
<1>3. \A h \in HistoriesOf(world, BatchLen) :
        \E n \in FinalNodes : world.class[n.ir] = EndClass(world, h, BatchLen)
  <2> TAKE h \in HistoriesOf(world, BatchLen)
  <2>1. PICK n \in nodes : Represents(n, h, BatchLen)
    BY <1>1 DEF DagInvariant, PrefixesAreCovered
  <2>2. PassesOf(h, BatchLen) = Passes
    BY <1>1, FullHistory
  <2> QED BY <2>1, <2>2 DEF Represents, FinalNodes
<1>4. \A n \in FinalNodes : \E h \in HistoriesOf(world, BatchLen) :
        world.class[n.ir] = EndClass(world, h, BatchLen)
  <2> TAKE n \in FinalNodes
  <2>1. n \in nodes /\ n.subset = Passes
    BY DEF FinalNodes
  <2>2. Len(n.path) \in 0 .. BatchLen
    BY <2>1, NodeHistory DEF DagInvariant
  <2>3. PICK h \in HistoriesOf(world, Len(n.path)) : Represents(n, h, Len(n.path))
    BY <2>1, NodeHistory DEF DagInvariant
  <2>4. PassesOf(h, Len(n.path)) = Passes
    BY <2>1, <2>3 DEF Represents
  <2>5. Len(n.path) = BatchLen
    BY <1>1, <2>2, <2>4, FullHistory
  <2> QED BY <2>3, <2>5 DEF Represents
<1>5. FinalNodes # {}
  <2>1. PICK n \in nodes : Len(n.path) = BatchLen
    BY DEF DagInvariant, LayerIsInhabited
  <2>2. PICK h \in HistoriesOf(world, BatchLen) : TRUE
    BY <2>1, NodeHistory DEF DagInvariant
  <2> QED BY <1>3, <2>2
<1>6. \A m, n \in FinalNodes : world.class[m.ir] = world.class[n.ir] => m = n
  BY DEF DagInvariant, NodesAreDistinct, FinalNodes
<1>7. ASSUME Cardinality(FinalNodes) = 1 PROVE OrdersAgree(world)
  <2>1. \E x : FinalNodes = {x}
    BY <1>2, <1>7, FS_Singleton
  <2> QED BY <1>3, <2>1 DEF OrdersAgree
<1>8. ASSUME OrdersAgree(world) PROVE Cardinality(FinalNodes) = 1
  <2>1. \A m, n \in FinalNodes : world.class[m.ir] = world.class[n.ir]
    BY <1>4, <1>8 DEF OrdersAgree
  <2>2. \E x : FinalNodes = {x}
    BY <1>5, <1>6, <2>1
  <2> QED BY <1>2, <2>2, FS_Singleton
<1> QED BY <1>7, <1>8

LEMMA VerdictStep == DagInvariant /\ Verdict => DagInvariant'
<1> SUFFICES ASSUME DagInvariant, Verdict PROVE DagInvariant'
  OBVIOUS
<1>1. /\ UNCHANGED <<world, budget, nodes, nodeCounter, transitions, depth, todo,
                     edges, overEdges>>
      /\ pc' = "done" /\ depth = BatchLen
      /\ status' = IF Cardinality(FinalNodes) = 1 THEN "all_permutations_same"
                                                  ELSE "mismatch"
  BY DEF Verdict, Report
<1>2. TypeOK'
  BY <1>1 DEF DagInvariant, TypeOK
<1>3. StateShape' /\ LayerIsMerged'
  BY <1>1 DEF DagInvariant, StateShape, LayerIsMerged
<1>4. CertificateIsSound' /\ MismatchIsSound'
  <2>1. Cardinality(FinalNodes) = 1 <=> OrdersAgree(world)
    BY <1>1, FinalNodesDecide
  <2>2. OrdersAgree(world)' = OrdersAgree(world)
    BY <1>1, SameDag
  <2> QED BY <1>1, <2>1, <2>2 DEF CertificateIsSound, MismatchIsSound
<1> QED BY <1>1, <1>2, <1>3, <1>4, SameDag DEF DagInvariant

-----------------------------------------------------------------------------
LEMMA NextDag == DagInvariant /\ [Next]_vars => DagInvariant'
<1> SUFFICES ASSUME DagInvariant, [Next]_vars PROVE DagInvariant'
  OBVIOUS
<1>1. CASE UNCHANGED vars
  <2>1. UNCHANGED <<world, budget, nodes, nodeCounter, transitions, depth, todo, edges,
                    overEdges, pc, status>>
    BY <1>1 DEF vars
  <2>2. TypeOK'
    BY <2>1 DEF DagInvariant, TypeOK
  <2>3. StateShape' /\ LayerIsMerged'
    <3>1. TransitionSpecs' = TransitionSpecs
      BY <2>1, SameDag
    <3>2. StateShape'
      BY <2>1, <3>1 DEF DagInvariant, StateShape
    <3>3. \A s : Merged(s) => Merged(s)'
      BY <2>1, MoreNodes
    <3>4. LayerIsMerged'
      BY <2>1, <3>1, <3>3 DEF DagInvariant, LayerIsMerged
    <3> QED BY <3>2, <3>4
  <2>4. CertificateIsSound' /\ MismatchIsSound'
    <3>1. OrdersAgree(world)' = OrdersAgree(world)
      BY <2>1, SameDag
    <3> QED BY <2>1, <3>1 DEF DagInvariant, CertificateIsSound, MismatchIsSound
  <2> QED BY <2>1, <2>2, <2>3, <2>4, SameDag DEF DagInvariant
<1>2. CASE Done
  BY <1>1, <1>2 DEF Done
<1>3. CASE \E s \in todo : ProcessSpec(s)
  BY <1>3, TransitionFailsStep, MergeOutcomeStep DEF ProcessSpec
<1> QED BY <1>1, <1>2, <1>3, StartStep, SelectLayerStep, EndLayerStep, VerdictStep DEF Next

\* The invariant of the permutation DAG.
THEOREM DagInvariantHolds == Spec => []DagInvariant
  BY InitDag, NextDag, PTL DEF Spec

\* The variables keep their types.
THEOREM DagTypeCorrect == Spec => []TypeOK
<1>1. DagInvariant => TypeOK
  BY DEF DagInvariant
<1> QED BY <1>1, DagInvariantHolds, PTL

\* A certificate means that all orders of the batch end in one class.
THEOREM CertificateSound == Spec => []CertificateIsSound
<1>1. DagInvariant => CertificateIsSound
  BY DEF DagInvariant
<1> QED BY <1>1, DagInvariantHolds, PTL

\* A mismatch means that two orders of the batch end in different classes.
THEOREM MismatchSound == Spec => []MismatchIsSound
<1>1. DagInvariant => MismatchIsSound
  BY DEF DagInvariant
<1> QED BY <1>1, DagInvariantHolds, PTL

\* Every order of at most depth passes has a node, the paths of the nodes are
\* real, and nodes of one subset differ.
THEOREM DagIsFaithful == Spec => []NodesAreFaithful
<1>1. DagInvariant => NodesAreFaithful
  BY DEF DagInvariant, NodesAreFaithful
<1> QED BY <1>1, DagInvariantHolds, PTL

\* The permutation DAG implements the certificate.
THEOREM DagImplementsCertificate == Spec => ImplementsCertificate
<1>1. Init => Certificate!Init
  BY DEF Init, Certificate!Init
<1>2. ASSUME DagInvariant, DagInvariant', [Next]_vars
      PROVE  [Certificate!Next]_<<world, status>>
  <2>1. world' = world
    BY <1>2 DEF vars, Next, Start, SelectLayer, ProcessSpec, TransitionFails, MergeOutcome,
       EndLayer, Verdict, Done
  <2>2. CASE status' = status
    BY <2>1, <2>2
  <2>3. CASE status' # status
    <3>1. status = "none"
      BY <1>2, <2>3 DEF DagInvariant, StateShape, vars, Next, Start, SelectLayer, ProcessSpec,
         TransitionFails, MergeOutcome, MergeIntoExisting, CompareFails, CreateNode,
         EndLayer, Verdict, Done, Report
    <3>2. status' \in {"failed", "incomplete", "all_permutations_same", "mismatch"}
      BY <1>2, <2>3, <3>1 DEF DagInvariant, TypeOK
    <3>3. OrdersAgree(world)' = OrdersAgree(world)
      BY <2>1 DEF OrdersAgree, EndClass
    <3>4. /\ status' = "all_permutations_same" => OrdersAgree(world)
          /\ status' = "mismatch" => ~ OrdersAgree(world)
      BY <1>2, <3>3 DEF DagInvariant, CertificateIsSound, MismatchIsSound
    <3>5. Certificate!OrdersAgree(world) <=> OrdersAgree(world)
      BY DEF Certificate!OrdersAgree, OrdersAgree, Certificate!EndClass, EndClass,
         Certificate!HistoriesOf, HistoriesOf,
         Certificate!Orders, Orders, Certificate!Passes, Passes
    <3> QED BY <2>1, <3>1, <3>2, <3>4, <3>5 DEF Certificate!Next, Certificate!Validate,
               Certificate!Verdicts, Certificate!Silent
  <2> QED BY <2>2, <2>3
<1> QED BY <1>1, <1>2, DagInvariantHolds, PTL DEF Spec, ImplementsCertificate, Certificate!Spec

-----------------------------------------------------------------------------
\* Every set of numbers that is not empty has a least member.
LEMMA LeastExists ==
  ASSUME NEW S \in SUBSET Nat, S # {}
  PROVE  \E x \in S : \A y \in S : x <= y
<1>1. PICK x \in S : \A y \in S : ~ (<<y, x>> \in OpToRel(<, Nat))
  BY NatLessThanWellFounded, WFMin
<1>2. ASSUME NEW y \in S
      PROVE  x <= y
  <2>1. ~ (y < x)
    BY <1>1 DEF OpToRel
  <2> QED BY <2>1
<1> QED BY <1>2

\* f holds the modules that order goes through in its first k passes.
Traces(f, w, k, order) ==
  /\ f[0] = w.root
  /\ \A i \in 1 .. k : f[i] = w.apply[f[i - 1]][order[i]]

\* An order leads through one sequence of modules.
LEMMA TraceIsDetermined ==
  ASSUME NEW w \in Worlds, NEW k \in Nat, NEW order,
         NEW f, Traces(f, w, k, order), NEW g, Traces(g, w, k, order)
  PROVE  \A i \in 0 .. k : f[i] = g[i]
<1> DEFINE Apart == {i \in 0 .. k : f[i] # g[i]}
<1>1. Apart = {}
  <2> SUFFICES ASSUME Apart # {} PROVE FALSE
    OBVIOUS
  <2>1. PICK i \in Apart : \A j \in Apart : i <= j
    <3>1. Apart \in SUBSET Nat
      OBVIOUS
    <3> HIDE DEF Apart
    <3> QED BY <3>1, LeastExists
  <2>2. i \in 1 .. k /\ i - 1 \in 0 .. k
    BY <2>1 DEF Traces
  <2>3. i - 1 \notin Apart
    <3> HIDE DEF Apart
    <3> QED BY <2>1, <2>2
  <2>4. f[i - 1] = g[i - 1]
    BY <2>2, <2>3
  <2>5. f[i] = w.apply[f[i - 1]][order[i]] /\ g[i] = w.apply[g[i - 1]][order[i]]
    BY <2>2 DEF Traces
  <2>6. f[i] # g[i]
    BY <2>1
  <2> QED BY <2>4, <2>5, <2>6
<1> QED BY <1>1

\* There are finitely many histories.
LEMMA FiniteHistories ==
  ASSUME NEW w \in Worlds, NEW k \in 0 .. BatchLen
  PROVE  IsFiniteSet(HistoriesOf(w, k))
<1> DEFINE Graph == [h \in HistoriesOf(w, k) |-> {<<i, h.order[i]>> : i \in 1 .. k}]
           Pairs == SUBSET ((1 .. k) \X Passes)
<1>1. BatchLen \in Nat /\ k \in Nat
  BY BatchAssumption
<1>2. IsFiniteSet(Pairs)
  <2>1. IsFiniteSet(1 .. k) /\ IsFiniteSet(Passes)
    BY <1>1, FS_Interval DEF Passes
  <2>2. IsFiniteSet((1 .. k) \X Passes)
    BY <2>1, FS_Product
  <2> QED BY <2>2, FS_SUBSET
<1>3. ASSUME NEW h \in HistoriesOf(w, k)
      PROVE  /\ h = [order |-> h.order, trace |-> h.trace]
             /\ h.order \in [1 .. k -> Passes]
             /\ h.trace \in [0 .. k -> IR]
             /\ h.trace[0] = w.root
             /\ \A i \in 1 .. k : h.trace[i] = w.apply[h.trace[i - 1]][h.order[i]]
  BY DEF HistoriesOf, Orders
<1>4. ASSUME NEW g \in HistoriesOf(w, k), NEW h \in HistoriesOf(w, k), Graph[g] = Graph[h]
      PROVE  g = h
  <2>1. \A i \in 1 .. k : g.order[i] = h.order[i]
    <3> TAKE i \in 1 .. k
    <3>1. <<i, g.order[i]>> \in Graph[h]
      BY <1>4
    <3> QED BY <3>1
  <2>2. g.order = h.order
    BY <1>3, <2>1
  <2>3. Traces(g.trace, w, k, g.order) /\ Traces(h.trace, w, k, g.order)
    BY <1>3, <2>2 DEF Traces
  <2>4. \A i \in 0 .. k : g.trace[i] = h.trace[i]
    BY <1>1, <2>3, TraceIsDetermined
  <2>5. g.trace = h.trace
    BY <1>3, <2>4
  <2> QED BY <1>3, <2>2, <2>5
<1>5. Graph \in Injection(HistoriesOf(w, k), Pairs)
  <2>1. Graph \in [HistoriesOf(w, k) -> Pairs]
    BY <1>3
  <2> HIDE DEF Graph
  <2> QED BY <1>4, <2>1 DEF Injection, IsInjective
<1> QED BY <1>2, <1>5, FS_Injection

\* The complete DAG is finite.
LEMMA FiniteGraph ==
  ASSUME world \in Worlds
  PROVE  IsFiniteSet(AllNodes) /\ IsFiniteSet(AllEdges)
<1> DEFINE Layer(k) == {<<PassesOf(h, k), EndClass(world, h, k)>> : h \in HistoriesOf(world, k)}
           layer    == [k \in 0 .. BatchLen |-> Layer(k)]
           Layers   == {Layer(k) : k \in 0 .. BatchLen}
<1>1. IsFiniteSet(0 .. BatchLen) /\ IsFiniteSet(Passes)
  BY BatchAssumption, FS_Interval DEF Passes
<1>2. ASSUME NEW k \in 0 .. BatchLen
      PROVE  IsFiniteSet(Layer(k))
  <2> DEFINE node == [h \in HistoriesOf(world, k) |-> <<PassesOf(h, k), EndClass(world, h, k)>>]
  <2>1. node \in Surjection(HistoriesOf(world, k), Layer(k))
    BY DEF Surjection
  <2> QED BY <2>1, FiniteHistories, FS_Surjection
<1>3. IsFiniteSet(Layers)
  <2>1. layer \in Surjection(0 .. BatchLen, Layers)
    BY DEF Surjection
  <2> QED BY <1>1, <2>1, FS_Surjection
<1>4. AllNodes = UNION Layers
  BY DEF AllNodes
<1>5. \A L \in Layers : IsFiniteSet(L)
  BY <1>2
<1>6. IsFiniteSet(AllNodes)
  <2> HIDE DEF Layers
  <2> QED BY <1>3, <1>4, <1>5, FS_UNION
<1>7. IsFiniteSet(AllNodes \X Passes)
  BY <1>1, <1>6, FS_Product
<1>8. AllEdges \in SUBSET (AllNodes \X Passes)
  BY DEF AllEdges
<1> QED BY <1>6, <1>7, <1>8, FS_Subset

-----------------------------------------------------------------------------
(***************************************************************************)
(* A batch is given up only if it does not fit: the nodes are of different *)
(* classes of the complete DAG, and so are the edges of finished layers.   *)
(***************************************************************************)

\* The transitions out of the nodes of less than d passes.
SpecsBelow(d) ==
  {s \in [source : {n \in nodes : Len(n.path) < d}, pass : Passes] :
     s.pass \notin s.source.subset}

Counted ==
  /\ nodeCounter = Cardinality(nodes)
  /\ pc = "start" => depth = 0 /\ edges = 0
  /\ pc = "layer" => edges = Cardinality(SpecsBelow(depth))
  /\ pc = "merge" /\ ~ overEdges => edges = Cardinality(SpecsBelow(depth + 1))
  /\ pc = "merge" /\ overEdges => Cardinality(AllEdges) > budget.edges
  /\ IncompleteMeansOverBudget

\* The class of a node is its own.
NodeClass(n) == <<n.subset, world.class[n.ir]>>

LEMMA NodesAreClasses ==
  DagInvariant =>
    /\ \A n \in nodes : NodeClass(n) \in AllNodes
    /\ \A m, n \in nodes : NodeClass(m) = NodeClass(n) => m = n
<1> SUFFICES ASSUME DagInvariant
             PROVE  /\ \A n \in nodes : NodeClass(n) \in AllNodes
                    /\ \A m, n \in nodes : NodeClass(m) = NodeClass(n) => m = n
  OBVIOUS
<1>1. ASSUME NEW n \in nodes
      PROVE  NodeClass(n) \in AllNodes
  <2>1. PICK k \in 0 .. BatchLen : \E h \in HistoriesOf(world, k) : Represents(n, h, k)
    BY DEF DagInvariant, NodesAreReal
  <2>2. PICK h \in HistoriesOf(world, k) : Represents(n, h, k)
    BY <2>1
  <2> QED BY <2>2 DEF Represents, AllNodes, NodeClass
<1>2. \A m, n \in nodes : NodeClass(m) = NodeClass(n) => m = n
  BY DEF DagInvariant, NodesAreDistinct, NodeClass
<1> QED BY <1>1, <1>2

LEMMA NodesFit ==
  DagInvariant => Cardinality(nodes) <= Cardinality(AllNodes)
<1> SUFFICES ASSUME DagInvariant PROVE Cardinality(nodes) <= Cardinality(AllNodes)
  OBVIOUS
<1> DEFINE f == [n \in nodes |-> NodeClass(n)]
<1>1. IsFiniteSet(AllNodes)
  BY FiniteGraph DEF DagInvariant, TypeOK
<1>2. f \in Injection(nodes, AllNodes)
  <2>1. f \in [nodes -> AllNodes]
    BY NodesAreClasses
  <2>2. \A m, n \in nodes : f[m] = f[n] => m = n
    BY NodesAreClasses
  <2> HIDE DEF f
  <2> QED BY <2>1, <2>2 DEF Injection, IsInjective
<1> QED BY <1>1, <1>2, FS_Injection

LEMMA EdgesFit ==
  DagInvariant => \A d \in Nat : /\ IsFiniteSet(SpecsBelow(d))
                                 /\ Cardinality(SpecsBelow(d)) <= Cardinality(AllEdges)
<1> SUFFICES ASSUME DagInvariant, NEW d \in Nat
             PROVE  /\ IsFiniteSet(SpecsBelow(d))
                    /\ Cardinality(SpecsBelow(d)) <= Cardinality(AllEdges)
  OBVIOUS
<1> DEFINE f == [s \in SpecsBelow(d) |-> <<NodeClass(s.source), s.pass>>]
<1>1. IsFiniteSet(AllEdges)
  BY FiniteGraph DEF DagInvariant, TypeOK
<1>2. ASSUME NEW s \in SpecsBelow(d)
      PROVE  /\ s.source \in nodes /\ s.pass \in Passes /\ s.pass \notin s.source.subset
             /\ s = [source |-> s.source, pass |-> s.pass]
  BY DEF SpecsBelow
<1>3. f \in Injection(SpecsBelow(d), AllEdges)
  <2>1. f \in [SpecsBelow(d) -> AllEdges]
    BY <1>2, NodesAreClasses DEF AllEdges, NodeClass
  <2>2. ASSUME NEW s \in SpecsBelow(d), NEW t \in SpecsBelow(d), f[s] = f[t]
        PROVE  s = t
    <3>1. NodeClass(s.source) = NodeClass(t.source) /\ s.pass = t.pass
      BY <2>2
    <3>2. s.source = t.source
      BY <1>2, <3>1, NodesAreClasses
    <3> QED BY <1>2, <3>1, <3>2
  <2> HIDE DEF f
  <2> QED BY <2>1, <2>2 DEF Injection, IsInjective
<1> QED BY <1>1, <1>3, FS_Injection

\* Both fit in every later state as well.
LEMMA FitStays ==
  DagInvariant' => (Cardinality(nodes) <= Cardinality(AllNodes))'
BY NodesFit, PTL

LEMMA CountedInit == Init => Counted
<1> SUFFICES ASSUME Init PROVE Counted
  OBVIOUS
<1>1. Cardinality(nodes) = 1
  BY FS_Singleton DEF Init
<1> QED BY <1>1 DEF Init, Counted, IncompleteMeansOverBudget

\* Steps that leave the nodes of finished layers, the budget and the edges.
LEMMA SameCounts ==
  ASSUME UNCHANGED <<world, nodes>>
  PROVE  /\ AllNodes' = AllNodes /\ AllEdges' = AllEdges
         /\ \A d : SpecsBelow(d)' = SpecsBelow(d)
         /\ Cardinality(nodes') = Cardinality(nodes)
BY DEF AllNodes, AllEdges, HistoriesOf, EndClass, PassesOf, SpecsBelow

LEMMA CountedStart == DagInvariant /\ Counted /\ Start => Counted'
<1> SUFFICES ASSUME DagInvariant, Counted, Start PROVE Counted'
  OBVIOUS
<1>1. /\ UNCHANGED <<world, budget, nodes, nodeCounter, depth, edges, overEdges>>
      /\ status = "none" /\ depth = 0 /\ edges = 0
      /\ \/ pc' = "done" /\ status' = "incomplete" /\ nodeCounter > budget.nodes
         \/ pc' = "layer" /\ status' = status
  BY DEF DagInvariant, StateShape, Counted, Start, Report
<1>2. Cardinality(SpecsBelow(0)) = 0
  <2>1. \A n \in nodes : Len(n.path) \in Nat
    BY DEF DagInvariant, TypeOK, Node
  <2>2. SpecsBelow(0) = {}
    BY <2>1 DEF SpecsBelow
  <2> QED BY <2>2, FS_EmptySet
<1>3. status' = "incomplete" => Cardinality(AllNodes) > budget.nodes
  <2>1. Cardinality(nodes) <= Cardinality(AllNodes) /\ nodeCounter = Cardinality(nodes)
    BY NodesFit DEF Counted
  <2>2. Cardinality(AllNodes) \in Nat /\ nodeCounter \in Nat /\ budget.nodes \in Nat
    BY FiniteGraph, FS_CardinalityType DEF DagInvariant, TypeOK
  <2>3. status' = "incomplete" => nodeCounter > budget.nodes
    BY <1>1
  <2> QED BY <2>1, <2>2, <2>3
<1>4. IncompleteMeansOverBudget'
  BY <1>1, <1>3, SameCounts DEF IncompleteMeansOverBudget
<1>5. pc' = "layer" => edges' = Cardinality(SpecsBelow(depth)')
  BY <1>1, <1>2, SameCounts
<1> QED BY <1>1, <1>4, <1>5, SameCounts DEF Counted

\* The transitions up to a layer are those below it and its own.
LEMMA LayersAdd ==
  DagInvariant =>
    Cardinality(SpecsBelow(depth + 1)) =
      Cardinality(SpecsBelow(depth)) + Cardinality(TransitionSpecs)
<1> SUFFICES ASSUME DagInvariant
             PROVE  Cardinality(SpecsBelow(depth + 1)) =
                      Cardinality(SpecsBelow(depth)) + Cardinality(TransitionSpecs)
  OBVIOUS
<1>1. depth \in Nat /\ \A n \in nodes : Len(n.path) \in Nat
  BY BatchAssumption DEF DagInvariant, TypeOK, Node
<1>2. IsFiniteSet(SpecsBelow(depth)) /\ IsFiniteSet(TransitionSpecs)
  BY <1>1, EdgesFit, FiniteSpecs DEF DagInvariant, StateShape
<1>3. \A n \in nodes : Len(n.path) < depth + 1 <=> Len(n.path) < depth \/ Len(n.path) = depth
  BY <1>1
<1>4. SpecsBelow(depth + 1) = SpecsBelow(depth) \cup TransitionSpecs
  BY <1>3 DEF SpecsBelow, TransitionSpecs
<1>5. SpecsBelow(depth) \cap TransitionSpecs = {}
  BY <1>1 DEF SpecsBelow, TransitionSpecs
<1>6. Cardinality(SpecsBelow(depth)) \in Nat /\ Cardinality(TransitionSpecs) \in Nat
  BY <1>2, FS_CardinalityType
<1> QED BY <1>2, <1>4, <1>5, <1>6, FS_Union, FS_EmptySet

LEMMA CountedSelect == DagInvariant /\ Counted /\ SelectLayer => Counted'
<1> SUFFICES ASSUME DagInvariant, Counted, SelectLayer PROVE Counted'
  OBVIOUS
<1>1. /\ UNCHANGED <<world, budget, nodes, nodeCounter, depth, status>>
      /\ pc' = "merge" /\ status = "none"
      /\ overEdges' = (SelectedSpecs # TransitionSpecs)
      /\ edges' = edges + Cardinality(SelectedSpecs)
      /\ edges = Cardinality(SpecsBelow(depth))
  BY DEF DagInvariant, StateShape, Counted, SelectLayer
<1>2. depth + 1 \in Nat /\ edges \in Nat /\ budget.edges \in Nat
  BY BatchAssumption DEF DagInvariant, TypeOK
<1>3. /\ SelectedSpecs \subseteq TransitionSpecs /\ IsFiniteSet(TransitionSpecs)
      /\ Cardinality(TransitionSpecs) \in Nat
  BY FiniteSpecs, FS_CardinalityType DEF DagInvariant, StateShape
<1>4. SelectedSpecs = TransitionSpecs => edges' = Cardinality(SpecsBelow(depth + 1))
  BY <1>1, LayersAdd
<1>5. SelectedSpecs # TransitionSpecs => Cardinality(AllEdges) > budget.edges
  <2> SUFFICES ASSUME SelectedSpecs # TransitionSpecs
               PROVE  Cardinality(AllEdges) > budget.edges
    OBVIOUS
  <2>1. PICK t \in TransitionSpecs : t \notin SelectedSpecs
    BY <1>3
  <2> DEFINE Before == {s \in TransitionSpecs : SpecBefore(s, t)}
  <2>2. Cardinality(TransitionSpecs \ {t}) = Cardinality(TransitionSpecs) - 1
    BY <1>3, FS_RemoveElement
  <2>3. ~ SpecBefore(t, t)
    BY <2>1 DEF SpecBefore, TransitionSpecs, DagInvariant, TypeOK, Node, Passes
  <2>4. Before \in SUBSET (TransitionSpecs \ {t})
    BY <2>3
  <2>5. Cardinality(Before) <= Cardinality(TransitionSpecs) - 1 /\ Cardinality(Before) \in Nat
    <3>1. IsFiniteSet(TransitionSpecs \ {t})
      BY <1>3, FS_RemoveElement
    <3> HIDE DEF Before
    <3> QED BY <2>2, <2>4, <3>1, FS_Subset, FS_CardinalityType
  <2>6. ~ (Cardinality(Before) < budget.edges - edges)
    BY <2>1 DEF SelectedSpecs
  <2> HIDE DEF Before
  <2>7. Cardinality(SpecsBelow(depth + 1)) > budget.edges
    BY <1>1, <1>2, <1>3, <2>5, <2>6, LayersAdd
  <2>8. Cardinality(SpecsBelow(depth + 1)) <= Cardinality(AllEdges)
    BY <1>2, EdgesFit
  <2>9. Cardinality(SpecsBelow(depth + 1)) \in Nat /\ Cardinality(AllEdges) \in Nat
    BY <1>2, EdgesFit, FiniteGraph, FS_CardinalityType DEF DagInvariant, TypeOK
  <2> QED BY <1>2, <2>7, <2>8, <2>9
<1>6. IncompleteMeansOverBudget'
  BY <1>1 DEF IncompleteMeansOverBudget
<1>7. /\ ~ overEdges' => edges' = Cardinality(SpecsBelow(depth + 1)')
      /\ overEdges' => Cardinality(AllEdges') > budget'.edges
  BY <1>1, <1>4, <1>5, SameCounts
<1> QED BY <1>1, <1>6, <1>7, SameCounts DEF Counted

LEMMA CountedOutcome ==
  ASSUME DagInvariant, DagInvariant', Counted,
         NEW s \in todo, NEW out \in Outputs(s), MergeOutcome(s, out)
  PROVE  Counted'
<1>1. /\ UNCHANGED <<world, budget, depth, edges, overEdges>>
      /\ pc = "merge" /\ status = "none" /\ depth \in Nat
      /\ s.source \in nodes /\ s.source \in Node /\ Len(s.source.path) = depth
      /\ s.pass \in Passes
  BY OutcomeFacts, BatchAssumption DEF DagInvariant, TypeOK
<1>2. AllEdges' = AllEdges /\ AllNodes' = AllNodes
  BY <1>1 DEF AllNodes, AllEdges, HistoriesOf, EndClass, PassesOf
<1>3. CASE MergeIntoExisting(s, out) \/ CompareFails(s, out)
  <2>1. /\ UNCHANGED <<nodes, nodeCounter>>
        /\ \/ pc' = "merge" /\ status' = "none"
           \/ pc' = "done" /\ status' = "failed"
    BY <1>1, <1>3 DEF MergeIntoExisting, CompareFails, Report
  <2>2. IncompleteMeansOverBudget'
    BY <2>1 DEF IncompleteMeansOverBudget
  <2> QED BY <1>1, <1>2, <2>1, <2>2, SameCounts DEF Counted
<1>4. CASE CreateNode(s, out)
  <2> DEFINE N == [id     |-> nodeCounter,
                   subset |-> TargetSubset(s),
                   ir     |-> out,
                   path   |-> Append(s.source.path, s.pass)]
  <2>1. /\ nodes' = nodes \cup {N}
        /\ nodeCounter' = nodeCounter + 1
        /\ \/ pc' = "done" /\ status' = "incomplete" /\ nodeCounter' > budget.nodes
           \/ pc' = "merge" /\ status' = "none"
        /\ \A n \in Targets(s) : ~ SameClass(n.ir, out)
    BY <1>1, <1>4 DEF CreateNode, Report
  <2>2. Len(N.path) = depth + 1
    BY <1>1 DEF Node
  <2>3. N \notin nodes
    BY <2>1 DEF Targets, SameClass
  <2>4. nodeCounter' = Cardinality(nodes')
    <3>1. IsFiniteSet(nodes) /\ nodeCounter = Cardinality(nodes)
      BY DEF DagInvariant, StateShape, Counted
    <3> HIDE DEF N
    <3> QED BY <2>1, <2>3, <3>1, FS_AddElement
  <2>5. SpecsBelow(depth + 1)' = SpecsBelow(depth + 1)
    <3>1. {n \in nodes' : Len(n.path) < depth + 1} = {n \in nodes : Len(n.path) < depth + 1}
      <4> HIDE DEF N
      <4> QED BY <1>1, <2>1, <2>2
    <3> QED BY <1>1, <3>1 DEF SpecsBelow
  <2>6. status' = "incomplete" => Cardinality(AllNodes') > budget'.nodes
    <3>1. Cardinality(nodes') <= Cardinality(AllNodes')
      BY FitStays
    <3>2. Cardinality(AllNodes') \in Nat /\ nodeCounter' \in Nat /\ budget.nodes \in Nat
      BY <1>2, FiniteGraph, FS_CardinalityType DEF DagInvariant, TypeOK
    <3>3. budget' = budget /\ (status' = "incomplete" => nodeCounter' > budget.nodes)
      BY <1>1, <2>1
    <3> HIDE DEF N
    <3> QED BY <2>4, <3>1, <3>2, <3>3
  <2>7. IncompleteMeansOverBudget'
    BY <2>6 DEF IncompleteMeansOverBudget
  <2>8. /\ pc' # "start" /\ pc' # "layer"
        /\ UNCHANGED <<budget, edges, overEdges, depth>>
    BY <1>1, <2>1
  <2> HIDE DEF N
  <2> QED BY <1>1, <1>2, <2>4, <2>5, <2>7, <2>8 DEF Counted
<1> QED BY <1>3, <1>4 DEF MergeOutcome

LEMMA CountedEnd == DagInvariant /\ Counted /\ EndLayer => Counted'
<1> SUFFICES ASSUME DagInvariant, Counted, EndLayer PROVE Counted'
  OBVIOUS
<1>1. /\ UNCHANGED <<world, budget, nodes, nodeCounter, overEdges>>
      /\ pc = "merge" /\ status = "none"
      /\ \/ pc' = "done" /\ status' = "incomplete" /\ overEdges
         \/ pc' = "layer" /\ depth' = depth + 1 /\ edges' = edges /\ ~ overEdges /\ status' = "none"
  BY DEF DagInvariant, StateShape, EndLayer, Report
<1>2. IncompleteMeansOverBudget'
  BY <1>1, SameCounts DEF Counted, IncompleteMeansOverBudget
<1>3. pc' = "layer" => edges' = Cardinality(SpecsBelow(depth'))
  BY <1>1 DEF Counted
<1>4. SpecsBelow(depth') = SpecsBelow(depth)'
  BY <1>1 DEF SpecsBelow
<1> QED BY <1>1, <1>2, <1>3, <1>4, SameCounts DEF Counted

LEMMA CountedNext ==
  DagInvariant /\ Counted /\ [Next]_vars /\ DagInvariant' => Counted'
<1> SUFFICES ASSUME DagInvariant, Counted, [Next]_vars, DagInvariant' PROVE Counted'
  OBVIOUS
<1>1. CASE UNCHANGED vars
  <2>1. UNCHANGED <<world, budget, nodes, nodeCounter, depth, edges, overEdges, pc, status>>
    BY <1>1 DEF vars
  <2> QED BY <2>1, SameCounts DEF Counted, IncompleteMeansOverBudget
<1>2. CASE \E s \in todo : TransitionFails(s)
  <2>1. /\ UNCHANGED <<world, budget, nodes, nodeCounter, depth, edges, overEdges>>
        /\ pc' = "done" /\ status' = "failed"
    BY <1>2 DEF TransitionFails, Report
  <2> QED BY <2>1, SameCounts DEF Counted, IncompleteMeansOverBudget
<1>3. CASE Verdict
  <2>1. /\ UNCHANGED <<world, budget, nodes, nodeCounter, depth, edges, overEdges>>
        /\ pc' = "done" /\ status' # "incomplete"
    BY <1>3 DEF Verdict, Report
  <2> QED BY <2>1, SameCounts DEF Counted, IncompleteMeansOverBudget
<1> QED BY <1>1, <1>2, <1>3, CountedStart, CountedSelect, CountedOutcome, CountedEnd
        DEF Next, ProcessSpec, Done

\* A batch is given up as incomplete only if its complete DAG does not fit its
\* budgets (validate_batch_with_permutation_dag).
THEOREM IncompleteIsOverBudget == Spec => []IncompleteMeansOverBudget
<1>1. Init => DagInvariant /\ Counted
  BY InitDag, CountedInit
<1>2. DagInvariant /\ Counted /\ [Next]_vars => (DagInvariant /\ Counted)'
  BY NextDag, CountedNext
<1>3. Counted => IncompleteMeansOverBudget
  BY DEF Counted
<1> QED BY <1>1, <1>2, <1>3, PTL DEF Spec

-----------------------------------------------------------------------------
\* The modules an order goes through, as the pipeline of OutputOf runs it.
LEMMA OrderHasHistory ==
  ASSUME NEW w \in Worlds, NEW o \in AllOrders, NEW k \in 0 .. BatchLen
  PROVE  \E h \in HistoriesOf(w, k) : \A i \in 1 .. k : h.order[i] = o[i]
<1> DEFINE Stuck == {j \in 0 .. BatchLen :
                       ~ \E h \in HistoriesOf(w, j) : \A i \in 1 .. j : h.order[i] = o[i]}
<1>1. BatchLen \in Nat
  BY BatchAssumption
<1>2. Stuck = {}
  <2> SUFFICES ASSUME Stuck # {} PROVE FALSE
    OBVIOUS
  <2>1. PICK j \in Stuck : \A i \in Stuck : j <= i
    <3>1. Stuck \in SUBSET Nat
      BY <1>1
    <3> HIDE DEF Stuck
    <3> QED BY <3>1, LeastExists
  <2>2. j # 0
    <3>1. \E h \in HistoriesOf(w, 0) : \A i \in 1 .. 0 : h.order[i] = o[i]
      BY EmptyHistory
    <3> QED BY <2>1, <3>1
  <2>3. j \in 1 .. BatchLen /\ j - 1 \in 0 .. BatchLen /\ j - 1 < BatchLen /\ (j - 1) + 1 = j
    BY <1>1, <2>1, <2>2
  <2>4. j - 1 \notin Stuck
    <3> HIDE DEF Stuck
    <3> QED BY <2>1, <2>3
  <2>5. PICK h \in HistoriesOf(w, j - 1) : \A i \in 1 .. j - 1 : h.order[i] = o[i]
    BY <2>3, <2>4
  <2>6. o \in [1 .. BatchLen -> Passes] /\ \A i, m \in 1 .. BatchLen : o[i] = o[m] => i = m
    BY DEF AllOrders, Orders
  <2>7. o[j] \in Passes /\ o[j] \notin PassesOf(h, j - 1)
    <3>1. \A i \in 1 .. j - 1 : i \in 1 .. BatchLen /\ i # j
      BY <1>1, <2>3
    <3>2. \A i \in 1 .. j - 1 : h.order[i] # o[j]
      BY <2>3, <2>5, <2>6, <3>1
    <3> QED BY <2>3, <2>6, <3>2 DEF PassesOf
  <2>8. PICK g \in HistoriesOf(w, j) : g.order = Append(h.order, o[j])
    BY <2>3, <2>7, ExtendHistory
  <2>9. h.order \in Seq(Passes) /\ Len(h.order) = j - 1
    BY <2>3, HistoryTypes
  <2>10. \A i \in 1 .. j : g.order[i] = o[i]
    BY <2>3, <2>5, <2>7, <2>8, <2>9
  <2>11. j \notin Stuck
    BY <2>10
  <2> QED BY <2>1, <2>11
<1> QED BY <1>2

LEMMA OutputIsTraced ==
  ASSUME world \in Worlds, NEW o \in AllOrders
  PROVE  /\ \E h \in HistoriesOf(world, BatchLen) : h.order = o
         /\ \A h \in HistoriesOf(world, BatchLen) :
              h.order = o => h.trace[BatchLen] = OutputOf(o)
<1> DEFINE after[k \in 0 .. BatchLen] ==
             IF k = 0 THEN world.root ELSE world.apply[after[k - 1]][o[k]]
<1>1. BatchLen \in Nat /\ BatchLen \in 0 .. BatchLen
  BY BatchAssumption
<1>2. PICK h \in HistoriesOf(world, BatchLen) : \A i \in 1 .. BatchLen : h.order[i] = o[i]
  BY <1>1, OrderHasHistory
<1>3. h.order = o
  <2>1. o \in [1 .. BatchLen -> Passes] /\ h.order \in [1 .. BatchLen -> Passes]
    BY DEF HistoriesOf, Orders, AllOrders
  <2> DEFINE p == h.order
  <2>2. p \in [1 .. BatchLen -> Passes] /\ \A i \in 1 .. BatchLen : p[i] = o[i]
    BY <1>2, <2>1
  <2> HIDE DEF p
  <2>3. p = [i \in 1 .. BatchLen |-> o[i]] /\ o = [i \in 1 .. BatchLen |-> o[i]]
    BY <2>1, <2>2
  <2> QED BY <2>3 DEF p
<1>4. /\ h.trace \in [0 .. BatchLen -> IR]
      /\ Traces(h.trace, world, BatchLen, o)
  BY <1>3 DEF HistoriesOf, Traces
<1>5. after = [k \in 0 .. BatchLen |->
                 IF k = 0 THEN world.root ELSE world.apply[after[k - 1]][o[k]]]
  <2>1. h.trace = [k \in 0 .. BatchLen |->
                     IF k = 0 THEN world.root ELSE world.apply[h.trace[k - 1]][o[k]]]
    <3>1. \A k \in 0 .. BatchLen :
            h.trace[k] = IF k = 0 THEN world.root ELSE world.apply[h.trace[k - 1]][o[k]]
      BY <1>1, <1>4 DEF Traces
    <3> QED BY <1>4, <3>1
  <2> QED BY <2>1
<1>6. Traces(after, world, BatchLen, o)
  <2> HIDE DEF after
  <2> QED BY <1>1, <1>5 DEF Traces
<1>7. OutputOf(o) = after[BatchLen]
  BY DEF OutputOf
<1> HIDE DEF after
<1>8. ASSUME NEW g \in HistoriesOf(world, BatchLen), g.order = o
      PROVE  g.trace[BatchLen] = OutputOf(o)
  <2>1. Traces(g.trace, world, BatchLen, o)
    BY <1>8 DEF HistoriesOf, Traces
  <2>2. \A i \in 0 .. BatchLen : g.trace[i] = after[i]
    BY <1>1, <1>6, <2>1, TraceIsDetermined
  <2> QED BY <1>1, <1>7, <2>2
<1> QED BY <1>3, <1>8

LEMMA CanonicalIsOrder == Canonical \in AllOrders
BY DEF Canonical, AllOrders, Orders, Passes

\* All orders agree exactly if each ends like the canonical one.
LEMMA AgreeingIsSame ==
  ASSUME world \in Worlds
  PROVE  OrdersAgree(world) <=> \A o \in AllOrders : SameAsCanonical(o)
<1>1. ASSUME OrdersAgree(world), NEW o \in AllOrders
      PROVE  SameAsCanonical(o)
  <2>1. PICK g \in HistoriesOf(world, BatchLen) :
          g.order = o /\ g.trace[BatchLen] = OutputOf(o)
    BY OutputIsTraced
  <2>2. PICK h \in HistoriesOf(world, BatchLen) :
          h.order = Canonical /\ h.trace[BatchLen] = OutputOf(Canonical)
    BY OutputIsTraced, CanonicalIsOrder
  <2> QED BY <1>1, <2>1, <2>2 DEF OrdersAgree, EndClass, SameAsCanonical, CanonicalOutput
<1>2. ASSUME \A o \in AllOrders : SameAsCanonical(o),
             NEW g \in HistoriesOf(world, BatchLen), NEW h \in HistoriesOf(world, BatchLen)
      PROVE  EndClass(world, g, BatchLen) = EndClass(world, h, BatchLen)
  <2>1. g.order \in AllOrders /\ h.order \in AllOrders
    BY DEF HistoriesOf, AllOrders
  <2>2. g.trace[BatchLen] = OutputOf(g.order) /\ h.trace[BatchLen] = OutputOf(h.order)
    BY <2>1, OutputIsTraced
  <2> QED BY <1>2, <2>1, <2>2 DEF EndClass, SameAsCanonical
<1> QED BY <1>1, <1>2 DEF OrdersAgree

-----------------------------------------------------------------------------
(***************************************************************************)
(* The row.  RowsAreEarned speaks of finished rows, and of orders that     *)
(* were run long before: the invariant says of every planned order where   *)
(* it is, waiting, run, or compared and the same.                          *)
(***************************************************************************)

\* Every order of S is still to be run or compared, or was found the same.
Covered(S) ==
  \A o \in S : \/ o \in orders
               \/ \E r \in results : r.order = o
               \/ SameAsCanonical(o)

\* Nothing was planned yet.
RowIdle ==
  stage \in {"dispatch", "dag", "canonical"} =>
    /\ tier = "unvalidated" /\ orders = {} /\ results = {} /\ ~ failed /\ ~ different
    /\ stage = "dispatch" => status = "none"
    /\ stage = "dag" => ~ (mode \in {"auto", "exhaustive"} /\ FewPermutations)
    /\ stage = "canonical" => status \in {"none", "incomplete"} /\ mode # "dag"

\* The tiers a plan may have, and the orders it is about.
Planned ==
  CASE tier = "exhaustive_all_permutations" -> OtherOrders
    [] tier = "bounded_insertion"           -> InsertionOrders(Extra)
    [] OTHER                                -> {}

RowPlanned ==
  stage \in {"run", "compare"} =>
    /\ status \in {"none", "incomplete"}
    /\ \/ tier = "exhaustive_all_permutations" /\ mode \in {"auto", "exhaustive"}
       \/ tier = "bounded_insertion" /\ mode = "bounded"
       \/ tier = "sampled_permutations" /\ mode = "sampled"
    /\ failed \/ different \/ Covered(Planned)
    /\ stage = "compare" => orders = {}

\* What a written row may say.
RowWritten ==
  /\ rowStatus # "none" <=> stage \in {"classify", "done"}
  /\ different => ~ OrdersAgree(world)
  /\ rowStatus = "all_permutations_same" =>
       ~ failed /\ OrdersAgree(world) /\ tier \in CertifyingTiers
  /\ rowStatus = "mismatch" => ~ OrdersAgree(world)
  /\ rowStatus = "bounded_same" =>
       ~ failed /\ \A o \in InsertionOrders(Extra) : SameAsCanonical(o)
  /\ rowStatus = "sampled_same" => ~ failed
  /\ rowStatus # "none" /\ status \in {"mismatch", "failed"} => rowStatus = status
  /\ rowStatus # "none" /\ mode \in {"auto", "exhaustive"} /\ FewPermutations =>
       rowStatus \in {"failed", "not_validated", "mismatch", "all_permutations_same"}

RowClassified ==
  IF stage = "done"
    THEN correctness = ClassOf(rowStatus) /\ executable = (correctness \in Permitted)
    ELSE correctness = "none" /\ ~ executable

RowInvariant ==
  DagInvariant /\ RowTypeOK /\ RowIdle /\ RowPlanned /\ RowWritten /\ RowClassified

\* Every insertion order within a limit is another order of the batch.
LEMMA MovedIsOrder ==
  ASSUME NEW s \in 1 .. BatchLen, NEW i \in 1 .. BatchLen
  PROVE  Moved(s, i) \in AllOrders
<1>1. BatchLen \in Nat
  BY BatchAssumption
<1> DEFINE at == [k \in 1 .. BatchLen |-> IF k < i THEN k ELSE k - 1]
           m  == [k \in 1 .. BatchLen |->
                    IF k = i THEN s ELSE IF at[k] < s THEN at[k] ELSE at[k] + 1]
<1>2. Moved(s, i) = m
  BY DEF Moved
<1>3. m \in [1 .. BatchLen -> Passes]
  BY <1>1 DEF Passes
<1>4. \A j, k \in 1 .. BatchLen : m[j] = m[k] => j = k
  BY <1>1
<1> HIDE DEF m
<1> QED BY <1>2, <1>3, <1>4 DEF AllOrders, Orders

LEMMA InsertionsAreOrders ==
  ASSUME NEW limit
  PROVE  InsertionOrders(limit) \subseteq OtherOrders
<1>1. BatchLen \in Nat
  BY BatchAssumption
<1>2. ASSUME NEW n \in 0 .. BatchLen * BatchLen, NEW k \in 0 .. n - 1
      PROVE  1 + (k \div BatchLen) \in 1 .. BatchLen /\ 1 + (k % BatchLen) \in 1 .. BatchLen
  <2>1. n \in Nat /\ n <= BatchLen * BatchLen /\ k \in Nat /\ k < BatchLen * BatchLen
    BY <1>1
  <2>2. BatchLen > 0
    BY <1>1, <2>1
  <2>3. /\ k \div BatchLen \in Nat
        /\ k % BatchLen \in 0 .. BatchLen - 1
        /\ k = BatchLen * (k \div BatchLen) + (k % BatchLen)
    BY <1>1, <2>1, <2>2
  <2>4. k \div BatchLen < BatchLen
    <3> DEFINE q == k \div BatchLen
    <3>1. q >= BatchLen => BatchLen * q >= BatchLen * BatchLen
      BY <1>1, <2>3
    <3> QED BY <1>1, <2>1, <2>3, <3>1
  <2> QED BY <1>1, <2>3, <2>4
<1>3. ASSUME NEW n \in 0 .. BatchLen * BatchLen
      PROVE  FirstMoves(n) \subseteq OtherOrders
  BY <1>2, <1>3, MovedIsOrder DEF FirstMoves, OtherOrders
<1> QED BY <1>3 DEF InsertionOrders

\* Facts that only depend on the world and the limits.
LEMMA SameRow ==
  ASSUME UNCHANGED <<world, limits>>
  PROVE  /\ OrdersAgree(world)' = OrdersAgree(world)
         /\ \A o : SameAsCanonical(o)' = SameAsCanonical(o)
         /\ InsertionOrders(Extra)' = InsertionOrders(Extra)
         /\ FewPermutations' = FewPermutations
<1>1. OrdersAgree(world)' = OrdersAgree(world)
  BY DEF OrdersAgree, HistoriesOf, EndClass
<1>2. ASSUME NEW o PROVE OutputOf(o)' = OutputOf(o)
  BY DEF OutputOf
<1>3. \A o : SameAsCanonical(o)' = SameAsCanonical(o)
  BY <1>2 DEF SameAsCanonical, CanonicalOutput
<1>4. InsertionOrders(Extra)' = InsertionOrders(Extra)
  BY DEF Extra
<1>5. FewPermutations' = FewPermutations
  BY DEF FewPermutations
<1> QED BY <1>1, <1>3, <1>4, <1>5

\* A step that leaves the DAG leaves its invariant.
LEMMA SameDagRow == RowInvariant /\ UNCHANGED dagVars => DagInvariant' /\ TypeOK'
<1> SUFFICES ASSUME RowInvariant, UNCHANGED dagVars PROVE DagInvariant' /\ TypeOK'
  OBVIOUS
<1>1. [Next]_vars
  BY DEF dagVars
<1>2. DagInvariant'
  BY <1>1, NextDag DEF RowInvariant
<1> QED BY <1>2 DEF DagInvariant

LEMMA RowInit == InitRow => RowInvariant
<1> SUFFICES ASSUME InitRow PROVE RowInvariant
  OBVIOUS
<1>1. DagInvariant /\ TypeOK /\ status = "none"
  <2>1. Init
    BY DEF InitRow
  <2>2. DagInvariant
    BY <2>1, InitDag
  <2> QED BY <2>1, <2>2 DEF DagInvariant, Init
<1>2. RowTypeOK
  <2>1. /\ mode \in {"auto", "exhaustive", "dag", "bounded", "sampled"}
        /\ limits \in [factorial : Nat, sequences : Nat, samples : Nat]
        /\ allowed \in [bounded : BOOLEAN, sampled : BOOLEAN]
    BY RequestAssumption DEF InitRow
  <2> QED BY <1>1, <2>1 DEF InitRow, RowTypeOK
<1>3. RowIdle /\ RowPlanned /\ RowWritten /\ RowClassified
  BY <1>1 DEF InitRow, RowIdle, RowPlanned, RowWritten, RowClassified
<1> QED BY <1>1, <1>2, <1>3 DEF RowInvariant

\* Steps that only choose the method, or give up before it.
LEMMA DispatchStep ==
  RowInvariant /\ (MissingInput \/ ValidateWithDag \/ ValidateWithOrders \/ CanonicalFails)
    => RowInvariant'
<1> SUFFICES ASSUME RowInvariant,
                    MissingInput \/ ValidateWithDag \/ ValidateWithOrders \/ CanonicalFails
             PROVE  RowInvariant'
  OBVIOUS
<1>1. /\ UNCHANGED <<dagVars, mode, limits, allowed, orders, results, failed, different,
                     correctness, executable>>
      /\ orders = {} /\ results = {} /\ ~ failed /\ ~ different
      /\ stage \in {"dispatch", "canonical"} /\ rowStatus = "none"
      /\ status \in {"none", "incomplete"}
      /\ correctness = "none" /\ ~ executable
  BY DEF MissingInput, ValidateWithDag, ValidateWithOrders, CanonicalFails, RowInvariant,
     RowIdle, RowWritten, RowClassified
<1>2. \/ /\ stage = "dispatch" /\ stage' = "classify" /\ rowStatus' = "not_validated"
         /\ tier' = tier
      \/ stage' = "dag" /\ rowStatus' = rowStatus /\ tier' = tier /\ UsesDag
      \/ stage' = "canonical" /\ rowStatus' = rowStatus /\ tier' = tier /\ ~ UsesDag
      \/ stage' = "classify" /\ rowStatus' = "failed" /\ tier' = "failed"
  BY DEF MissingInput, ValidateWithDag, ValidateWithOrders, CanonicalFails, ReportRow
<1>3. UNCHANGED <<world, status>>
  BY <1>1 DEF dagVars, vars
<1>4. DagInvariant' /\ TypeOK'
  BY <1>1, SameDagRow
<1>5. RowTypeOK'
  BY <1>1, <1>2, <1>4 DEF RowInvariant, RowTypeOK, RowCertificate!Verdicts, RowCertificate!Silent
<1>6. tier = "unvalidated"
  BY <1>1 DEF RowInvariant, RowIdle
<1>7. RowIdle'
  <2>1. /\ UsesDag => ~ (mode \in {"auto", "exhaustive"} /\ FewPermutations)
        /\ ~ UsesDag => mode # "dag"
    BY DEF UsesDag
  <2> QED BY <1>1, <1>2, <1>3, <1>6, <2>1, SameRow DEF RowIdle
<1>8. RowPlanned' /\ RowClassified'
  BY <1>1, <1>2 DEF RowPlanned, RowClassified
<1>9. RowWritten'
  BY <1>1, <1>2, <1>3 DEF RowWritten
<1> QED BY <1>4, <1>5, <1>7, <1>8, <1>9 DEF RowInvariant

\* The DAG goes on, and does not touch the row.
LEMMA RunDagStep == RowInvariant /\ RunDag => RowInvariant'
<1> SUFFICES ASSUME RowInvariant, RunDag PROVE RowInvariant'
  OBVIOUS
<1>1. /\ UNCHANGED <<mode, limits, allowed, tier, orders, results, failed, different,
                     stage, rowStatus, correctness, executable>>
      /\ stage = "dag" /\ Next
  BY DEF RunDag
<1>2. DagInvariant' /\ TypeOK'
  BY <1>1, NextDag DEF RowInvariant, DagInvariant
<1>3. RowTypeOK'
  BY <1>1, <1>2 DEF RowInvariant, RowTypeOK
<1>4. FewPermutations' = FewPermutations
  BY <1>1 DEF FewPermutations
<1>5. RowIdle'
  BY <1>1, <1>4 DEF RowInvariant, RowIdle
<1>6. RowPlanned' /\ RowClassified'
  BY <1>1 DEF RowInvariant, RowPlanned, RowClassified
<1>7. RowWritten'
  <2>1. rowStatus = "none" /\ ~ different
    BY <1>1 DEF RowInvariant, RowWritten, RowIdle
  <2> QED BY <1>1, <2>1 DEF RowWritten
<1> QED BY <1>2, <1>3, <1>5, <1>6, <1>7 DEF RowInvariant

\* The row of the DAG is taken over, or insertion orders take its place.
LEMMA TakeDagRowStep == RowInvariant /\ TakeDagRow => RowInvariant'
<1> SUFFICES ASSUME RowInvariant, TakeDagRow PROVE RowInvariant'
  OBVIOUS
<1>1. /\ UNCHANGED <<dagVars, limits, allowed, orders, results, failed, different,
                     correctness, executable>>
      /\ stage = "dag" /\ status # "none"
      /\ tier = "unvalidated" /\ orders = {} /\ results = {} /\ ~ failed /\ ~ different
      /\ ~ (mode \in {"auto", "exhaustive"} /\ FewPermutations)
      /\ rowStatus = "none" /\ correctness = "none" /\ ~ executable
  BY DEF TakeDagRow, RowInvariant, RowIdle, RowWritten, RowClassified
<1>2. \/ /\ status = "incomplete" /\ mode' = "bounded" /\ stage' = "canonical"
         /\ UNCHANGED <<rowStatus, tier>>
      \/ /\ stage' = "classify" /\ rowStatus' = status /\ tier' = DagTier[status]
         /\ mode' = mode
  BY DEF TakeDagRow, ReportRow
<1>3. UNCHANGED <<world, status>>
  BY <1>1 DEF dagVars, vars
<1>4. DagInvariant' /\ TypeOK'
  BY <1>1, SameDagRow
<1>5. /\ status \in {"failed", "incomplete", "all_permutations_same", "mismatch"}
      /\ status = "all_permutations_same" => OrdersAgree(world)
      /\ status = "mismatch" => ~ OrdersAgree(world)
  BY <1>1 DEF RowInvariant, DagInvariant, TypeOK, CertificateIsSound, MismatchIsSound
<1>6. /\ DagTier[status] \in {"permutation_dag_exact", "failed", "permutation_dag_mismatch",
                              "permutation_dag_incomplete"}
      /\ status = "all_permutations_same" => DagTier[status] = "permutation_dag_exact"
  BY <1>5 DEF DagTier
<1>7. RowTypeOK'
  BY <1>1, <1>2, <1>4, <1>5, <1>6 DEF RowInvariant, RowTypeOK, RowCertificate!Verdicts,
     RowCertificate!Silent
<1>8. RowIdle' /\ RowPlanned' /\ RowClassified'
  BY <1>1, <1>2, <1>3 DEF RowIdle, RowPlanned, RowClassified
<1>9. RowWritten'
  BY <1>1, <1>2, <1>3, <1>5, <1>6, SameRow DEF RowWritten, CertifyingTiers
<1> QED BY <1>4, <1>7, <1>8, <1>9 DEF RowInvariant

\* The orders of a plan are orders of the batch, and none of them has run.
LEMMA PlanStep == RowInvariant /\ Plan => RowInvariant'
<1> SUFFICES ASSUME RowInvariant, Plan PROVE RowInvariant'
  OBVIOUS
<1>1. /\ UNCHANGED <<dagVars, mode, limits, allowed, results, failed, different,
                     correctness, executable>>
      /\ stage = "canonical" /\ results = {} /\ ~ failed /\ ~ different
      /\ status \in {"none", "incomplete"}
      /\ rowStatus = "none" /\ correctness = "none" /\ ~ executable
  BY DEF Plan, RowInvariant, RowIdle, RowWritten, RowClassified
<1>2. UNCHANGED <<world, status>>
  BY <1>1 DEF dagVars, vars
<1>3. PICK plan \in Plans :
        /\ tier' = plan.tier
        /\ orders' = plan.orders
        /\ \/ plan.tier = "unvalidated" /\ rowStatus' = "not_validated" /\ stage' = "classify"
           \/ plan.tier # "unvalidated" /\ rowStatus' = rowStatus /\ stage' = "run"
  BY DEF Plan, ReportRow
<1>4. \/ /\ plan.tier = "exhaustive_all_permutations" /\ plan.orders = OtherOrders
         /\ mode \in {"auto", "exhaustive"} /\ FewPermutations
      \/ plan.tier = "unvalidated" /\ plan.orders = {} /\ ~ FewPermutations
      \/ /\ plan.tier = "bounded_insertion" /\ plan.orders = InsertionOrders(Extra)
         /\ mode = "bounded"
      \/ /\ plan.tier = "sampled_permutations" /\ plan.orders \subseteq OtherOrders
         /\ mode = "sampled"
  <2>1. CASE mode \in {"auto", "exhaustive"}
    BY <2>1 DEF Plans
  <2>2. CASE mode = "bounded"
    BY <2>2 DEF Plans
  <2>3. CASE mode = "sampled"
    <3>1. PICK S \in SampledOrders(IF limits.samples < Extra THEN limits.samples ELSE Extra) :
            plan = [tier |-> "sampled_permutations", orders |-> S]
      BY <2>3 DEF Plans
    <3> QED BY <2>3, <3>1 DEF SampledOrders
  <2>4. mode # "dag"
    BY <1>1 DEF RowInvariant, RowIdle
  <2> QED BY <2>1, <2>2, <2>3, <2>4 DEF RowInvariant, RowTypeOK
<1>5. DagInvariant' /\ TypeOK'
  BY <1>1, SameDagRow
<1>6. plan.orders \subseteq OtherOrders
  BY <1>4, InsertionsAreOrders
<1>7. RowTypeOK'
  BY <1>1, <1>3, <1>4, <1>5, <1>6 DEF RowInvariant, RowTypeOK, RowCertificate!Verdicts,
     RowCertificate!Silent
<1>8. RowIdle' /\ RowClassified'
  BY <1>1, <1>3 DEF RowIdle, RowClassified
<1>9. RowPlanned'
  <2>1. stage' = "run" => Planned' = Planned' /\ (Planned' \subseteq orders')
    BY <1>1, <1>2, <1>3, <1>4, SameRow DEF Planned, OtherOrders
  <2>2. stage' = "run" => Covered(Planned)'
    BY <2>1 DEF Covered
  <2> QED BY <1>1, <1>2, <1>3, <1>4, <2>2 DEF RowPlanned
<1>10. RowWritten'
  BY <1>1, <1>2, <1>3 DEF RowWritten
<1> QED BY <1>5, <1>7, <1>8, <1>9, <1>10 DEF RowInvariant

\* An order of the pool ends.
LEMMA RunOrderStep == RowInvariant /\ (\E o \in orders : RunOrder(o)) => RowInvariant'
<1> SUFFICES ASSUME RowInvariant, NEW o \in orders, RunOrder(o) PROVE RowInvariant'
  OBVIOUS
<1>1. /\ UNCHANGED <<dagVars, mode, limits, allowed, tier, failed, different, stage, rowStatus,
                     correctness, executable>>
      /\ stage = "run" /\ orders' = orders \ {o}
  BY DEF RunOrder
<1>2. PICK ok \in BOOLEAN : results' = results \cup {[order |-> o, success |-> ok]}
  BY DEF RunOrder
<1>3. UNCHANGED <<world, status>>
  BY <1>1 DEF dagVars, vars
<1>4. DagInvariant' /\ TypeOK'
  BY <1>1, SameDagRow
<1>5. RowTypeOK'
  <2>1. orders' \subseteq OtherOrders /\ results' \subseteq [order : OtherOrders, success : BOOLEAN]
    BY <1>1, <1>2 DEF RowInvariant, RowTypeOK
  <2> QED BY <1>1, <1>4, <2>1 DEF RowInvariant, RowTypeOK
<1>6. RowIdle' /\ RowClassified'
  BY <1>1 DEF RowInvariant, RowIdle, RowClassified
<1>7. RowPlanned'
  <2>1. Planned' = Planned
    BY <1>1, <1>3, SameRow DEF Planned, OtherOrders
  <2>2. ASSUME Covered(Planned) PROVE Covered(Planned)'
    <3>1. [order |-> o, success |-> ok] \in results'
      BY <1>2
    <3>2. ASSUME NEW p \in Planned
          PROVE  p \in orders' \/ (\E r \in results' : r.order = p) \/ SameAsCanonical(p)'
      <4>1. CASE p = o
        BY <3>1, <4>1
      <4>2. CASE p # o
        BY <1>1, <1>2, <1>3, <2>2, <4>2, SameRow DEF Covered
      <4> QED BY <4>1, <4>2
    <3> QED BY <2>1, <3>2 DEF Covered
  <2> QED BY <1>1, <1>3, <2>2 DEF RowInvariant, RowPlanned
<1>8. RowWritten'
  BY <1>1, <1>3, SameRow DEF RowInvariant, RowWritten
<1> QED BY <1>4, <1>5, <1>6, <1>7, <1>8 DEF RowInvariant

LEMMA CollectStep == RowInvariant /\ CollectResults => RowInvariant'
<1> SUFFICES ASSUME RowInvariant, CollectResults PROVE RowInvariant'
  OBVIOUS
<1>1. /\ UNCHANGED <<dagVars, mode, limits, allowed, tier, orders, results, failed,
                     different, rowStatus, correctness, executable>>
      /\ stage = "run" /\ orders = {} /\ stage' = "compare"
  BY DEF CollectResults
<1>2. UNCHANGED <<world, status>>
  BY <1>1 DEF dagVars, vars
<1>3. DagInvariant' /\ TypeOK'
  BY <1>1, SameDagRow
<1>4. RowTypeOK' /\ RowIdle' /\ RowClassified'
  BY <1>1, <1>3 DEF RowInvariant, RowTypeOK, RowIdle, RowClassified
<1>5. RowPlanned'
  <2>1. Planned' = Planned
    BY <1>1, <1>2, SameRow DEF Planned, OtherOrders
  <2>2. Covered(Planned) => Covered(Planned)'
    BY <1>1, <1>2, <2>1, SameRow DEF Covered
  <2> QED BY <1>1, <1>2, <2>2 DEF RowInvariant, RowPlanned
<1>6. RowWritten'
  BY <1>1, <1>2, SameRow DEF RowInvariant, RowWritten
<1> QED BY <1>3, <1>4, <1>5, <1>6 DEF RowInvariant

\* A result leaves the list only with a failure, a difference, or as the same.
LEMMA CompareStep == RowInvariant /\ (\E r \in results : CompareResult(r)) => RowInvariant'
<1> SUFFICES ASSUME RowInvariant, NEW r \in results, CompareResult(r) PROVE RowInvariant'
  OBVIOUS
<1>1. /\ UNCHANGED <<dagVars, mode, limits, allowed, tier, orders, stage, rowStatus, correctness,
                     executable>>
      /\ stage = "compare" /\ results' = results \ {r}
      /\ \/ failed' = TRUE /\ different' = different
         \/ /\ different' = (different \/ ~ SameAsCanonical(r.order))
            /\ failed' = failed
  BY DEF CompareResult, SameAsCanonical
<1>2. UNCHANGED <<world, status>>
  BY <1>1 DEF dagVars, vars
<1>3. DagInvariant' /\ TypeOK'
  BY <1>1, SameDagRow
<1>4. failed' \in BOOLEAN /\ different' \in BOOLEAN
  BY <1>1 DEF RowInvariant, RowTypeOK
<1>5. RowTypeOK'
  BY <1>1, <1>3, <1>4 DEF RowInvariant, RowTypeOK
<1>6. RowIdle' /\ RowClassified'
  BY <1>1 DEF RowInvariant, RowIdle, RowClassified
<1>7. RowPlanned'
  <2>1. Planned' = Planned
    BY <1>1, <1>2, SameRow DEF Planned, OtherOrders
  <2>2. ASSUME Covered(Planned), ~ failed', ~ different' PROVE Covered(Planned)'
    <3>1. SameAsCanonical(r.order)'
      BY <1>1, <1>2, <2>2, SameRow
    <3>2. ASSUME NEW p \in Planned
          PROVE  p \in orders' \/ (\E q \in results' : q.order = p) \/ SameAsCanonical(p)'
      BY <1>1, <1>2, <2>2, <3>1, SameRow DEF Covered
    <3> QED BY <2>1, <3>2 DEF Covered
  <2>3. failed' \/ different' \/ Covered(Planned)'
    BY <1>1, <2>2 DEF RowInvariant, RowPlanned
  <2> QED BY <1>1, <1>2, <2>3 DEF RowInvariant, RowPlanned
<1>8. RowWritten'
  <2>1. r.order \in AllOrders
    BY DEF RowInvariant, RowTypeOK, OtherOrders
  <2>2. ~ SameAsCanonical(r.order) => ~ OrdersAgree(world)
    BY <2>1, AgreeingIsSame DEF RowInvariant, DagInvariant, TypeOK
  <2>3. different' => ~ OrdersAgree(world)
    BY <1>1, <2>2 DEF RowInvariant, RowWritten
  <2>4. rowStatus = "none"
    BY <1>1 DEF RowInvariant, RowWritten
  <2> QED BY <1>1, <1>2, <2>3, <2>4, SameRow DEF RowWritten
<1> QED BY <1>3, <1>5, <1>6, <1>7, <1>8 DEF RowInvariant

LEMMA ConcludeStep == RowInvariant /\ Conclude => RowInvariant'
<1> SUFFICES ASSUME RowInvariant, Conclude PROVE RowInvariant'
  OBVIOUS
<1>1. /\ UNCHANGED <<dagVars, mode, limits, allowed, tier, orders, results, failed,
                     different, correctness, executable>>
      /\ stage = "compare" /\ results = {} /\ orders = {}
      /\ stage' = "classify" /\ rowStatus' = ComparedStatus
      /\ status \in {"none", "incomplete"} /\ correctness = "none" /\ ~ executable
  BY DEF Conclude, ReportRow, RowInvariant, RowPlanned, RowClassified
<1>2. UNCHANGED <<world, status>>
  BY <1>1 DEF dagVars, vars
<1>3. DagInvariant' /\ TypeOK'
  BY <1>1, SameDagRow
<1>4. /\ \/ tier = "exhaustive_all_permutations" /\ mode \in {"auto", "exhaustive"}
         \/ tier = "bounded_insertion" /\ mode = "bounded"
         \/ tier = "sampled_permutations" /\ mode = "sampled"
      /\ failed \/ different \/ \A o \in Planned : SameAsCanonical(o)
  BY <1>1 DEF RowInvariant, RowPlanned, Covered
<1>5. \/ failed /\ rowStatus' = "failed"
      \/ ~ failed /\ different /\ rowStatus' = "mismatch"
      \/ /\ ~ failed /\ ~ different
         /\ \/ tier = "exhaustive_all_permutations" /\ rowStatus' = "all_permutations_same"
            \/ tier = "bounded_insertion" /\ rowStatus' = "bounded_same"
            \/ tier = "sampled_permutations" /\ rowStatus' = "sampled_same"
  BY <1>1, <1>4 DEF ComparedStatus, RowInvariant, RowTypeOK
<1>6. rowStatus' = "all_permutations_same" => OrdersAgree(world)
  <2> SUFFICES ASSUME rowStatus' = "all_permutations_same" PROVE OrdersAgree(world)
    OBVIOUS
  <2>1. \A o \in OtherOrders : SameAsCanonical(o)
    BY <1>4, <1>5 DEF Planned
  <2>2. SameAsCanonical(Canonical)
    BY DEF SameAsCanonical, CanonicalOutput
  <2>3. \A o \in AllOrders : SameAsCanonical(o)
    BY <2>1, <2>2 DEF OtherOrders
  <2> QED BY <2>3, AgreeingIsSame DEF RowInvariant, DagInvariant, TypeOK
<1>7. rowStatus' = "bounded_same" => \A o \in InsertionOrders(Extra) : SameAsCanonical(o)
  BY <1>4, <1>5 DEF Planned
<1>8. RowTypeOK'
  BY <1>1, <1>3, <1>5 DEF RowInvariant, RowTypeOK, RowCertificate!Verdicts, RowCertificate!Silent
<1>9. RowIdle' /\ RowPlanned' /\ RowClassified'
  BY <1>1 DEF RowIdle, RowPlanned, RowClassified
<1>10. different => ~ OrdersAgree(world)
  BY DEF RowInvariant, RowWritten
<1>11. RowWritten'
  BY <1>1, <1>2, <1>4, <1>5, <1>6, <1>7, <1>10, SameRow DEF RowWritten, CertifyingTiers
<1> QED BY <1>3, <1>8, <1>9, <1>11 DEF RowInvariant

\* The class of a row that was written.
LEMMA ClassIsKnown ==
  ASSUME RowInvariant, rowStatus # "none"
  PROVE  ClassOf(rowStatus) \in {"certified_batch", "bounded_batch", "sampled_batch",
                                 "rejected_batch", "failed_batch", "unvalidated_batch"}
<1>1. rowStatus \in {"failed", "incomplete", "not_validated", "bounded_same", "sampled_same",
                     "all_permutations_same", "mismatch"}
  BY DEF RowInvariant, RowTypeOK, RowCertificate!Verdicts, RowCertificate!Silent
<1>2. rowStatus = "all_permutations_same" => tier \in CertifyingTiers
  BY DEF RowInvariant, RowWritten
<1> QED BY <1>1, <1>2 DEF ClassOf

LEMMA ClassifyStep == RowInvariant /\ Classify => RowInvariant'
<1> SUFFICES ASSUME RowInvariant, Classify PROVE RowInvariant'
  OBVIOUS
<1>1. /\ UNCHANGED <<dagVars, mode, limits, allowed, tier, orders, results, failed,
                     different, rowStatus>>
      /\ stage = "classify" /\ stage' = "done"
      /\ correctness' = ClassOf(rowStatus)
      /\ executable' = (correctness' \in Permitted)
  BY DEF Classify
<1>2. UNCHANGED <<world, status>>
  BY <1>1 DEF dagVars, vars
<1>3. DagInvariant' /\ TypeOK'
  BY <1>1, SameDagRow
<1>4. rowStatus # "none"
  BY <1>1 DEF RowInvariant, RowWritten
<1>5. RowTypeOK'
  <2>1. executable' \in BOOLEAN
    BY <1>1
  <2>2. correctness' \in {"certified_batch", "bounded_batch", "sampled_batch",
                          "rejected_batch", "failed_batch", "unvalidated_batch"}
    BY <1>1, <1>4, ClassIsKnown
  <2> QED BY <1>1, <1>3, <2>1, <2>2 DEF RowInvariant, RowTypeOK
<1>6. RowIdle' /\ RowPlanned'
  BY <1>1 DEF RowIdle, RowPlanned
<1>7. RowWritten'
  BY <1>1, <1>2, SameRow DEF RowInvariant, RowWritten
<1>8. RowClassified'
  <2>1. ClassOf(rowStatus)' = ClassOf(rowStatus) /\ Permitted' = Permitted
    BY <1>1 DEF ClassOf, Permitted
  <2> QED BY <1>1, <2>1 DEF RowClassified
<1> QED BY <1>3, <1>5, <1>6, <1>7, <1>8 DEF RowInvariant

LEMMA RowNext == RowInvariant /\ [NextRow]_rowVars => RowInvariant'
<1> SUFFICES ASSUME RowInvariant, [NextRow]_rowVars PROVE RowInvariant'
  OBVIOUS
<1>1. CASE UNCHANGED rowVars
  <2>1. /\ UNCHANGED <<dagVars, mode, limits, allowed, tier, orders, results, failed, different,
                       stage, rowStatus, correctness, executable>>
        /\ UNCHANGED <<world, status>>
    BY <1>1 DEF rowVars, dagVars, vars
  <2>2. DagInvariant' /\ TypeOK'
    BY <2>1, SameDagRow
  <2>3. RowTypeOK' /\ RowIdle'
    BY <2>1, <2>2, SameRow DEF RowInvariant, RowTypeOK, RowIdle
  <2>4. RowPlanned'
    <3>1. Planned' = Planned
      BY <2>1, SameRow DEF Planned, OtherOrders
    <3>2. Covered(Planned)' <=> Covered(Planned)
      BY <2>1, <3>1, SameRow DEF Covered
    <3> QED BY <2>1, <3>2 DEF RowInvariant, RowPlanned
  <2>5. RowWritten'
    BY <2>1, SameRow DEF RowInvariant, RowWritten
  <2>6. RowClassified'
    <3>1. ClassOf(rowStatus)' = ClassOf(rowStatus) /\ Permitted' = Permitted
      BY <2>1 DEF ClassOf, Permitted
    <3> QED BY <2>1, <3>1 DEF RowInvariant, RowClassified
  <2> QED BY <2>2, <2>3, <2>4, <2>5, <2>6 DEF RowInvariant
<1> QED BY <1>1, DispatchStep, RunDagStep, TakeDagRowStep, PlanStep, RunOrderStep, CollectStep,
           CompareStep, ConcludeStep, ClassifyStep DEF NextRow, RowDone

\* At every moment the row, its orders and the DAG behind it fit together.
THEOREM RowInvariantHolds == RowSpec => []RowInvariant
BY RowInit, RowNext, PTL DEF RowSpec

\* A row is executed only with the agreement, or the leave, it needs; a small batch
\* is certified exactly if its orders agree (_validate_one_batch and
\* classify_batch_correctness).
THEOREM RowsAlwaysEarned == RowSpec => []RowsAreEarned
<1>1. RowInvariant => RowsAreEarned
  <2> SUFFICES ASSUME RowInvariant PROVE RowsAreEarned
    OBVIOUS
  <2>1. rowStatus \in {"none", "failed", "incomplete", "not_validated", "bounded_same",
                       "sampled_same", "all_permutations_same", "mismatch"}
    BY DEF RowInvariant, RowTypeOK, RowCertificate!Verdicts, RowCertificate!Silent
  <2>2. executable =>
          /\ stage = "done"
          /\ \/ rowStatus = "all_permutations_same" /\ correctness = "certified_batch"
             \/ rowStatus = "bounded_same" /\ correctness = "bounded_batch" /\ allowed.bounded
             \/ rowStatus = "sampled_same" /\ correctness = "sampled_batch" /\ allowed.sampled
    BY <2>1 DEF RowInvariant, RowClassified, ClassOf, Permitted
  <2>3. world \in Worlds
    BY DEF RowInvariant, DagInvariant, TypeOK
  <2>4. ExecutableMeansAgreement
    BY <2>2, <2>3, AgreeingIsSame DEF RowInvariant, RowWritten, ExecutableMeansAgreement
  <2>5. SmallBatchesAreDecided
    <3> SUFFICES ASSUME stage = "done", mode \in {"auto", "exhaustive"}, FewPermutations,
                        rowStatus \notin {"failed", "not_validated"}
                 PROVE  correctness = "certified_batch" <=> OrdersAgree(world)
      BY DEF SmallBatchesAreDecided
    <3>1. rowStatus \in {"mismatch", "all_permutations_same"}
      BY DEF RowInvariant, RowWritten
    <3>2. correctness = ClassOf(rowStatus)
      BY DEF RowInvariant, RowClassified
    <3>3. CASE rowStatus = "mismatch"
      BY <3>2, <3>3 DEF RowInvariant, RowWritten, ClassOf
    <3>4. CASE rowStatus = "all_permutations_same"
      BY <3>2, <3>4 DEF RowInvariant, RowWritten, ClassOf
    <3> QED BY <3>1, <3>3, <3>4
  <2>6. DagWordIsFinal
    BY <2>2 DEF RowInvariant, RowWritten, DagWordIsFinal
  <2> QED BY <2>4, <2>5, <2>6 DEF RowInvariant, RowsAreEarned
<1> QED BY <1>1, RowInvariantHolds, PTL

\* Whichever method writes it, and however the pool interleaves its orders, the row
\* keeps the promise of BatchCertificate (_validate_one_batch).
THEOREM RowImplementsCertificate == RowSpec => RowKeepsCertificate
<1>1. InitRow => RowCertificate!Init
  BY DEF InitRow, Init, RowCertificate!Init
<1>2. ASSUME RowInvariant, RowInvariant', [NextRow]_rowVars
      PROVE  [RowCertificate!Next]_<<world, rowStatus>>
  <2>1. world' = world
    BY <1>2 DEF rowVars, dagVars, vars, NextRow, MissingInput, ValidateWithDag, RunDag, TakeDagRow,
       ValidateWithOrders, CanonicalFails, Plan, RunOrder, CollectResults, CompareResult, Conclude,
       Classify, RowDone, Next, Start, SelectLayer, ProcessSpec, TransitionFails, MergeOutcome,
       EndLayer, Verdict, Done
  <2>2. CASE rowStatus' = rowStatus
    BY <2>1, <2>2
  <2>3. CASE rowStatus' # rowStatus
    <3>1. rowStatus = "none"
      <4>1. stage \notin {"classify", "done"}
        BY <1>2, <2>3 DEF rowVars, NextRow, MissingInput, ValidateWithDag, RunDag, TakeDagRow,
           ValidateWithOrders, CanonicalFails, Plan, RunOrder, CollectResults, CompareResult,
           Conclude, Classify, RowDone
      <4> QED BY <1>2, <4>1 DEF RowInvariant, RowWritten
    <3>2. rowStatus' \in RowCertificate!Verdicts
      BY <1>2, <2>3, <3>1 DEF RowInvariant, RowTypeOK
    <3>3. OrdersAgree(world)' = OrdersAgree(world)
      BY <2>1 DEF OrdersAgree, EndClass
    <3>4. /\ rowStatus' = "all_permutations_same" => OrdersAgree(world)
          /\ rowStatus' = "mismatch" => ~ OrdersAgree(world)
      BY <1>2, <3>3 DEF RowInvariant, RowWritten
    <3>5. RowCertificate!OrdersAgree(world) <=> OrdersAgree(world)
      BY DEF RowCertificate!OrdersAgree, OrdersAgree, RowCertificate!EndClass, EndClass,
         RowCertificate!HistoriesOf, HistoriesOf,
         RowCertificate!Orders, Orders, RowCertificate!Passes, Passes
    <3> QED BY <2>1, <3>1, <3>2, <3>4, <3>5 DEF RowCertificate!Next, RowCertificate!Validate
  <2> QED BY <2>2, <2>3
<1> QED BY <1>1, <1>2, RowInvariantHolds, PTL DEF RowSpec, RowKeepsCertificate,
           RowCertificate!Spec
=============================================================================
