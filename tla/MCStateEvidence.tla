--------------------------- MODULE MCStateEvidence ---------------------------
(***************************************************************************)
(* Four passes for TLC, in worlds whose conflict graphs have every shape   *)
(* that matters: none, a path, a triangle, a star and two pairs.           *)
(***************************************************************************)
EXTENDS StateEvidence

FourPasses == 1 .. 4

\* The order-sensitive pairs, and the active passes.
Graphs ==
  {<<{}, 1 .. 4>>,
   <<{{1, 2}, {2, 3}}, 1 .. 4>>,
   <<{{1, 2}, {2, 3}, {1, 3}}, 1 .. 3>>,
   <<{{1, 3}, {2, 3}, {3, 4}}, 1 .. 4>>,
   <<{{1, 4}, {2, 3}}, 1 .. 4>>,
   <<{}, {}>>}

\* Pairs that commute agree; so do larger batches without pass 1.
AgreeingBatches(sensitive) ==
  {B \in SUBSET FourPasses : Independent(sensitive, B) /\ (1 \notin B \/ Cardinality(B) < 3)}

MCOption(lazy, maxPairs, size, batches, strategy, target, weak) ==
  [lazy |-> lazy, maxPairs |-> maxPairs, componentSize |-> size, maxBatches |-> batches,
   strategy |-> strategy, target |-> target, weak |-> weak]

\* An exact search with room, ones that lack it, and budgeted searches.
Calls ==
  {MCOption(FALSE, NoLimit, 4, 9, "all", 1, {}),
   MCOption(FALSE, 4, 4, 9, "all", 1, {}),
   MCOption(FALSE, NoLimit, 2, 3, "all", 1, {"bounded_same"}),
   MCOption(TRUE, 0, 4, 9, "on-demand", 2, {"bounded_same"}),
   MCOption(TRUE, 3, 4, 9, "on-demand", 1, {}),
   MCOption(FALSE, NoLimit, 4, 9, "on-demand", 0, {})}

EvidenceWorlds ==
  [i \in Graphs \X Calls |->
     [active |-> i[1][2], sensitive |-> i[1][1], agree |-> AgreeingBatches(i[1][1])]]

EvidenceOptions == [i \in Graphs \X Calls |-> i[2]]
=============================================================================
