------------------------ MODULE MCSearchWorlds ------------------------
(***************************************************************************)
(* Small worlds for TLC, for every search of the optimizer.                *)
(***************************************************************************)
EXTENDS SearchWorld

Modules3 == 1 .. 3
Modules5 == 1 .. 5
Hashes3 == {"h1", "h2", "h3"}
Hashes5 == {"h1", "h2", "h3", "h4", "h5"}
TwoBatches == {1, 2}
UnitSize == [b \in Batches |-> 1]
TwoThenOne == [b \in Batches |-> IF b = 1 THEN 2 ELSE 1]

(***************************************************************************)
(* A graph gives each module a pair <<x, y>>: where batches 1 and 2 lead,  *)
(* 0 for a batch that is not certifiable.                                  *)
(***************************************************************************)
WorldOf(graph, hash, objective) ==
  [root        |-> 1,
   hash        |-> hash,
   active      |-> [m \in IR |-> graph[m] # <<0, 0>>],
   certifiable |-> [m \in IR |-> {b \in Batches : graph[m][b] # 0}],
   apply       |-> [m \in IR |-> [b \in Batches |->
                      IF graph[m][b] = 0 THEN m ELSE graph[m][b]]],
   objective   |-> objective]

\* Objectives fall along the modules, but module 1 is neither best nor worst.
Objectives == <<3, 5, 2, 4, 1>>

\* Every graph on three modules with at most two certified batches each.
EveryGraph3 ==
  [g \in [Modules3 -> {<<0, 0>>} \cup (Modules3 \X (Modules3 \cup {0}))] |->
     WorldOf([m \in IR |-> IF m \in Modules3 THEN g[m] ELSE <<0, 0>>],
             <<"h1", "h2", "h3", "h4", "h5">>, [m \in IR |-> Objectives[m]])]

(***************************************************************************)
(* Graphs on five modules with two open states two batches away from the   *)
(* root: enough for a checkpoint to prune after two layers, for a pruned   *)
(* state to be reached again by another path, and for a cap to be hit.     *)
(* Modules 1 and 5 have the same canonical hash in the lossy half of them. *)
(***************************************************************************)
Graph5(g) ==
  WorldOf([m \in IR |-> g[m]], <<"h1", "h2", "h3", "h4", g[6]>>, [m \in IR |-> Objectives[m]])

Layered5 ==
  [g \in {<<2, 0>>, <<2, 3>>} \X {<<3, 4>>} \X {<<0, 0>>, <<2, 0>>, <<2, 4>>}
         \X {<<0, 0>>, <<5, 3>>, <<2, 0>>} \X {<<0, 0>>} \X {"h1", "h5"} |-> Graph5(g)]

\* The graphs where module 4 leads on or nowhere, and two more.  In the first, a better
\* path to the hash of the best module, 5, leads to module 4, and three batches lead
\* back to the root.  In the second, module 5 is two batches from the root by module 2
\* and three by module 3.
Colliding5 ==
  [g \in {h \in DOMAIN Layered5 : h[4] # <<2, 0>>}
         \cup {<<<<2, 3>>, <<3, 5>>, <<2, 4>>, <<1, 0>>, <<0, 0>>, "h4">>,
               <<<<2, 3>>, <<5, 0>>, <<4, 0>>, <<5, 0>>, <<0, 0>>, "h5">>} |-> Graph5(g)]

\* Modules 1 and 2 lead to each other by batch 2; batch 1 leads on to module 3.
Cycle3 ==
  [g \in {<<<<3, 2>>, <<3, 1>>, <<0, 0>>>>} |->
     WorldOf(g, <<"h1", "h2", "h3">>, [m \in IR |-> Objectives[m]])]
=============================================================================
