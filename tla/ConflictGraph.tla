--------------------------- MODULE ConflictGraph ---------------------------
(***************************************************************************)
(* How the passes active in a state are made into batches: passes that     *)
(* were not seen to commute conflict, the conflict graph falls apart into  *)
(* components, each component has its alternatives, and a batch takes one  *)
(* alternative of every component.  A is the set of active passes and E    *)
(* the set of conflicting pairs; a pass is its position in the             *)
(* configuration, which orders alternatives and components.                *)
(***************************************************************************)
EXTENDS Integers, FiniteSets

\* The pairs of passes of S.
PairsOf(S) == {e \in SUBSET S : \E a, b \in S : a # b /\ e = {a, b}}

Independent(E, S) == \A a, b \in S : a # b => {a, b} \notin E

\* The largest sets of C, those that no conflict-free set extends.
MaximalIndependentSets(E, C) ==
  {S \in SUBSET C :
     /\ S # {}
     /\ Independent(E, S)
     /\ \A T \in SUBSET C : S \subseteq T /\ Independent(E, T) => S = T}

\* No conflict leads out of S.
Closed(A, E, S) == \A a \in S, b \in A : a # b /\ {a, b} \in E => b \in S

\* What the search along conflicts reaches from pass p.
Component(A, E, p) ==
  {q \in A : \A S \in SUBSET A : p \in S /\ Closed(A, E, S) => q \in S}

Components(A, E) == {Component(A, E, p) : p \in A}

\* A component above maxSize is not resolved: its passes run alone.
Resolved(C, maxSize) == Cardinality(C) = 1 \/ Cardinality(C) <= maxSize

Alternatives(E, C, maxSize) ==
  IF Resolved(C, maxSize) THEN MaximalIndependentSets(E, C) ELSE {{p} : p \in C}

\* One alternative of every component.
BatchFamily(A, E, maxSize) ==
  LET options == [C \in Components(A, E) |-> Alternatives(E, C, maxSize)]
  IN  {B \in SUBSET A :
         A # {} /\ \A C \in DOMAIN options : B \cap C \in options[C]}

-----------------------------------------------------------------------------
Least(S) == CHOOSE p \in S : \A q \in S : p <= q

\* Of two alternatives the larger comes first, and then the one of earlier passes.
AlternativeBefore(S, T) ==
  \/ Cardinality(S) > Cardinality(T)
  \/ Cardinality(S) = Cardinality(T) /\ S # T /\ Least((S \ T) \cup (T \ S)) \in S

\* Two batches are ordered by the first of the components where they differ.
BatchBefore(parts, S, T) ==
  LET differ == {C \in parts : S \cap C # T \cap C}
      first  == CHOOSE C \in differ : \A D \in differ : Least(C) <= Least(D)
  IN  differ # {} /\ AlternativeBefore(S \cap first, T \cap first)

\* The product of the alternatives, cut off after its first batches.
Candidates(A, E, maxSize, maxBatches) ==
  LET all   == BatchFamily(A, E, maxSize)
      parts == Components(A, E)
  IN  {B \in all : Cardinality({D \in all : BatchBefore(parts, D, B)}) < maxBatches}

Truncated(A, E, maxSize, maxBatches) ==
  ~(BatchFamily(A, E, maxSize) \subseteq Candidates(A, E, maxSize, maxBatches))
=============================================================================
