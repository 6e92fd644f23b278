--------------------------- MODULE MCRollingSearch ---------------------------
(***************************************************************************)
(* Instances of RollingSearch for TLC.                                     *)
(***************************************************************************)
EXTENDS RollingSearch, MCSearchWorlds

\* The small graphs stop at the first gap, the layered ones go on.
RollingWorlds ==
  [w \in ({"strict"} \X DOMAIN EveryGraph3) \cup ({"continue"} \X DOMAIN Layered5) |->
     IF w[1] = "strict" THEN EveryGraph3[w[2]] ELSE Layered5[w[2]]]

\* One root per window, so that a second open state is pruned, in one-layer
\* windows without a cap or in two-layer windows with every cap.
RollingOptions ==
  [w \in DOMAIN RollingWorlds |->
     IF w[1] = "strict"
     THEN [windowDepth |-> 1, frontierWidth |-> 1, maxWindows |-> 0, maxStates |-> 3,
           failOnIncomplete |-> TRUE]
     ELSE [windowDepth |-> 2, frontierWidth |-> 1, maxWindows |-> 3, maxStates |-> 4,
           failOnIncomplete |-> FALSE]]

\* Nothing ends a run that goes on.
EndlessOptions ==
  [w \in DOMAIN Cycle3 |->
     [windowDepth |-> 1, frontierWidth |-> 1, maxWindows |-> 0, maxStates |-> 3,
      failOnIncomplete |-> FALSE]]

=============================================================================
