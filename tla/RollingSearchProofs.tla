------------------------- MODULE RollingSearchProofs -------------------------
(***************************************************************************)
(* Proofs about RollingSearch, for every set of modules, every compiler    *)
(* behaviour and every setting of the search.                              *)
(***************************************************************************)
EXTENDS RollingSearch, FiniteSetTheorems, TLAPS

\* What the compiler's tables return.
LEMMA CompilerTypes ==
  ASSUME TypeOK
  PROVE  /\ S0000 \in StateHash
         /\ Compiler.root \in IR
         /\ \A h \in StateHash :
              /\ Objective(h) \in Nat
              /\ Active(h) \in BOOLEAN
              /\ Certifiable(h) \in SUBSET Batches
              /\ ~ Active(h) => Certifiable(h) = {}
              /\ \A b \in Batches : Child(h, b) \in IR /\ ChildHash(h, b) \in StateHash
<1>1. Compiler \in World
  BY WorldAssumption DEF TypeOK, Compiler
<1>2. \A m \in IR : ~ Compiler.active[m] => Compiler.certifiable[m] = {}
  BY WorldAssumption DEF TypeOK, Compiler
<1>3. input \in [StateHash -> IR]
  BY DEF TypeOK
<1> HIDE DEF Compiler
<1>4. QED
  BY <1>1, <1>2, <1>3 DEF World, S0000, Objective, Active, Certifiable, Child, ChildHash

LEMMA StateCountType ==
  ASSUME TypeOK
  PROVE  StateCount \in Nat
BY FS_CardinalityType DEF TypeOK, StateCount

\* The options of a run.
LEMMA OptionTypes ==
  ASSUME TypeOK
  PROVE  MaxStates \in Nat /\ FrontierWidth \in Nat /\ FrontierWidth >= 1
<1>1. Options[world] \in OptionRecord
  BY ParameterAssumption DEF TypeOK
<1> QED
  BY <1>1 DEF OptionRecord, MaxStates, FrontierWidth

\* A path stays a path when a batch is added.
LEMMA ExtendPathType ==
  ASSUME NEW p \in PathInfo, NEW b \in Batches
  PROVE  /\ ExtendPath(p, b) \in PathInfo
         /\ ExtendPath(p, b).length = p.length + 1
<1>1. BatchSize[b] \in Nat
  BY ParameterAssumption
<1>2. QED
  BY <1>1 DEF PathInfo, ExtendPath

LEMMA InitTypeOK == ASSUME Init PROVE TypeOK
<1>1. world \in DOMAIN Worlds
  BY DEF Init
<1>2. Compiler \in World
  BY <1>1, WorldAssumption DEF Compiler
<1>3. S0000 \in StateHash /\ Compiler.root \in IR
  BY <1>2 DEF S0000, World
<1>4. IsFiniteSet({S0000})
  BY FS_Singleton
<1>5. RootPath \in PathInfo
  BY DEF RootPath, PathInfo
<1>6. QED
  BY <1>1, <1>3, <1>4, <1>5 DEF Init, TypeOK

\* The three expansion outcomes keep the types.
LEMMA ExpandTypeOK ==
  ASSUME TypeOK, NEW p \in localFrontier, ExpandParent(p)
  PROVE  TypeOK'
<1>1. p \in StateHash
  BY DEF TypeOK
<1>2. PICK e \in PossibleEvidence(p) :
        StopOnEvidence(p, e) \/ CloseChildless(p, e) \/ BeginExpansion(p, e)
  BY DEF ExpandParent
<1>3. e \in Evidence
  BY <1>1, <1>2 DEF PossibleEvidence, TypeOK
<1>4. BuildEvidence(p, e) /\ pc = "layer"
  BY <1>2 DEF StopOnEvidence, CloseChildless, BeginExpansion, BuildEvidence, IsNextParent
<1>5. /\ localSeen' \in SUBSET StateHash
      /\ localFrontier' \in SUBSET StateHash
      /\ built' \in [StateHash -> Evidence \cup {None}]
      /\ exactReasons' \in SUBSET Reason
  BY <1>1, <1>3, <1>4 DEF BuildEvidence, TypeOK, Reason
<1>6. e.certified \in SUBSET Batches /\ e.gap \in BOOLEAN
  BY <1>3 DEF Evidence
<1>7. UNCHANGED <<world, dagVars, roots, everPruned, windowsCompleted, nextFrontier,
                  localDepth, selected>>
  BY <1>2 DEF StopOnEvidence, CloseChildless, BeginExpansion
<1>8. /\ fullyExpanded' \in SUBSET StateHash
      /\ closedCandidates' \in SUBSET StateHash
      /\ continued' \in BOOLEAN
      /\ stopped' \in BOOLEAN
      /\ pc' \in {"window", "layer", "apply", "boundary", "finish", "done"}
      /\ current' \in StateHash \cup {None} /\ (pc' = "apply" => current' \in StateHash)
      /\ pending' \in SUBSET Batches
      /\ parentComplete' \in BOOLEAN
  BY <1>1, <1>2, <1>4, <1>6 DEF StopOnEvidence, CloseChildless, BeginExpansion, BuildEvidence,
     parentVars, TypeOK
<1>9. QED
  BY <1>5, <1>7, <1>8 DEF TypeOK, dagVars

\* A batch is applied to a discovered state.
LEMMA ReachChildTypeOK ==
  ASSUME TypeOK, NEW b \in pending, ReachChild(b)
  PROVE  TypeOK'
<1> DEFINE h == ChildHash(current, b)
           m == Child(current, b)
           path == ExtendPath(pathInfo[current], b)
<1>1. b \in Batches
  BY DEF TypeOK
<1>2. h \in StateHash /\ m \in IR /\ current \in StateHash
  BY <1>1, CompilerTypes DEF ReachChild, IsNextBatch, TypeOK
<1>3. StateCount \in Nat
  BY StateCountType
<1>4. path \in PathInfo
  BY <1>1, <1>2, ExtendPathType DEF TypeOK
<1>5. EdgeOf(b) \in Edge
  BY <1>1, <1>2 DEF EdgeOf, Edge
<1>6. RecordChild(h, m) /\ UpdatePath(h, b)
  BY DEF ReachChild
<1>7. IsFiniteSet(states \cup {h})
  BY FS_AddElement DEF TypeOK
<1> HIDE DEF h, m
<1>8. /\ states' \in SUBSET StateHash /\ IsFiniteSet(states')
      /\ num' \in [StateHash -> Nat]
      /\ input' \in [StateHash -> IR]
  BY <1>2, <1>3, <1>6, <1>7 DEF RecordChild, TypeOK
<1>9. /\ pathInfo' \in [StateHash -> PathInfo]
      /\ parentByChild' \in [StateHash -> Edge \cup {None}]
  BY <1>2, <1>4, <1>5, <1>6 DEF UpdatePath, TypeOK
<1>10. /\ closedCandidates' \in SUBSET StateHash
       /\ nextFrontier' \in SUBSET StateHash
       /\ pending' \in SUBSET Batches
       /\ UNCHANGED <<world, built, roots, fullyExpanded, everPruned, exactReasons, continued,
                      stopped, windowsCompleted, pc, localFrontier, localSeen, localDepth,
                      current, parentComplete, selected>>
  BY <1>2 DEF ReachChild, TypeOK, h
<1>11. QED
  BY <1>8, <1>9, <1>10 DEF TypeOK

LEMMA NextTypeOK == ASSUME TypeOK, [Next]_vars PROVE TypeOK'
<1>1. CASE StartWindow
  BY <1>1 DEF StartWindow, TypeOK, dagVars, runVars, parentVars
<1>2. ASSUME NEW p \in localFrontier, SkipParent(p) PROVE TypeOK'
  BY <1>2 DEF SkipParent, IsNextParent, TypeOK, dagVars, parentVars
<1>3. ASSUME NEW p \in localFrontier, ExpandParent(p) PROVE TypeOK'
  BY <1>3, ExpandTypeOK
<1>4. ASSUME NEW b \in pending, ApplyFails(b) PROVE TypeOK'
  BY <1>4 DEF ApplyFails, IsNextBatch, TypeOK, Reason, dagVars, windowVars
<1>5. ASSUME NEW b \in pending, HitStateCap(b) PROVE TypeOK'
  BY <1>5 DEF HitStateCap, TypeOK, Reason, dagVars, windowVars, parentVars
<1>6. ASSUME NEW b \in pending, ReachChild(b) PROVE TypeOK'
  BY <1>6, ReachChildTypeOK
<1>7. CASE FinishParent
  BY <1>7 DEF FinishParent, MarkExpanded, TypeOK, dagVars, windowVars, parentVars
<1>8. CASE EndLayer
  BY <1>8 DEF EndLayer, TypeOK, dagVars, runVars, parentVars
<1>9. CASE CloseSearch
  BY <1>9 DEF CloseSearch, WindowsNow, TypeOK, dagVars, windowVars, parentVars
<1>10. ASSUME NEW keep \in FrontierChoice(OpenBoundary), CommitFrontier(keep) PROVE TypeOK'
  <2>1. OpenBoundary \subseteq StateHash
    BY DEF OpenBoundary, TypeOK
  <2>2. keep \subseteq OpenBoundary
    BY DEF FrontierChoice
  <2>3. /\ closedCandidates' = closedCandidates \cup (nextFrontier \ OpenBoundary)
        /\ everPruned' = everPruned \cup (OpenBoundary \ keep)
        /\ roots' = keep
        /\ windowsCompleted' = WindowsNow
        /\ UNCHANGED <<world, dagVars, built, fullyExpanded, continued, windowVars,
                       parentVars, selected>>
    BY <1>10 DEF CommitFrontier, PrunedBy
  <2>4. stopped' = TRUE \/ stopped' = stopped
    BY <1>10 DEF CommitFrontier
  <2>5. exactReasons' = exactReasons \cup {"window_cap"} \/ exactReasons' = exactReasons
    BY <1>10 DEF CommitFrontier
  <2>6. pc' = "finish" \/ pc' = "window"
    BY <1>10 DEF CommitFrontier
  <2>7. stopped' \in BOOLEAN
    BY <2>4 DEF TypeOK
  <2>8. windowsCompleted' \in Nat
    BY <2>3 DEF TypeOK, WindowsNow
  <2>9. pc' \in {"window", "finish"}
    BY <2>6
  <2>10. /\ everPruned' \in SUBSET StateHash
         /\ roots' \in SUBSET StateHash
         /\ closedCandidates' \in SUBSET StateHash
    BY <2>1, <2>2, <2>3 DEF TypeOK
  <2>11. exactReasons' \in SUBSET Reason
    BY <2>5 DEF TypeOK, Reason
  <2>12. QED
    BY <2>3, <2>7, <2>8, <2>9, <2>10, <2>11 DEF TypeOK, dagVars, windowVars, parentVars
<1>11. CASE SelectFinal
  <2>1. FinalCandidates \subseteq StateHash
    BY DEF FinalCandidates, TypeOK
  <2>2. QED
    BY <1>11, <2>1 DEF SelectFinal, TypeOK, dagVars, runVars, windowVars, parentVars
<1>12. CASE UNCHANGED vars
  BY <1>12 DEF vars, TypeOK, dagVars, runVars, windowVars, parentVars
<1>13. QED
  BY <1>1, <1>2, <1>3, <1>4, <1>5, <1>6, <1>7, <1>8, <1>9, <1>10, <1>11, <1>12
     DEF Next, ApplyBatch, Terminated

\* The run's variables always have their types.
THEOREM TypeCorrect == Spec => []TypeOK
BY InitTypeOK, NextTypeOK, PTL DEF Spec

-----------------------------------------------------------------------------
(***************************************************************************)
(* The inductive invariant.                                                *)
(***************************************************************************)

\* Every action but ReachChild leaves the state DAG alone.
LEMMA DagChanges ==
  ASSUME [Next]_vars
  PROVE  UNCHANGED <<world, dagVars>> \/ \E b \in pending : ReachChild(b)
BY DEF Next, vars, StartWindow, SkipParent, ExpandParent, StopOnEvidence, CloseChildless,
       BeginExpansion, ApplyBatch, ApplyFails, HitStateCap, FinishParent, EndLayer,
       CloseSearch, CommitFrontier, SelectFinal, Terminated

\* A discovered state stays, with its module and all that follows from it.
LEMMA StatesAreStable ==
  ASSUME TypeOK, [Next]_vars
  PROVE  /\ world' = world
         /\ states \subseteq states'
         /\ S0000' = S0000
         /\ \A h \in states :
              /\ input'[h] = input[h]
              /\ Objective(h)' = Objective(h)
              /\ Active(h)' = Active(h)
              /\ Certifiable(h)' = Certifiable(h)
              /\ \A b \in Batches : ChildHash(h, b)' = ChildHash(h, b)
<1>1. world' = world
  BY DagChanges DEF ReachChild
<1>2. states \subseteq states' /\ \A h \in states : input'[h] = input[h]
  <2>1. CASE UNCHANGED dagVars
    BY <2>1 DEF dagVars
  <2>2. ASSUME NEW b \in pending, ReachChild(b)
        PROVE  states \subseteq states' /\ \A h \in states : input'[h] = input[h]
    BY <2>2 DEF ReachChild, RecordChild, TypeOK
  <2>3. QED
    BY <2>1, <2>2, DagChanges
<1>3. Compiler' = Compiler
  BY <1>1 DEF Compiler
<1>4. QED
  BY <1>1, <1>2, <1>3 DEF S0000, Objective, Active, Certifiable, Child, ChildHash

\* What an expansion may conclude from its evidence.
LEMMA EvidenceSound ==
  ASSUME TypeOK, Bookkeeping, NEW p \in states, NEW e \in PossibleEvidence(p)
  PROVE  /\ e.certified \subseteq Certifiable(p)
         /\ ~ e.gap => e.certified = Certifiable(p)
BY DEF Bookkeeping, PossibleEvidence, TypeOK

LEMMA InitIInv == ASSUME Init PROVE IInv
<1>1. TypeOK
  BY InitTypeOK
<1>2. Bookkeeping
  BY DEF Init, Bookkeeping
<1>3. Accounting
  BY <1>1 DEF Init, Accounting, SeenIsExpanded, ApplyingIsSound, ExpandedIsClosed, NothingLost,
     DeadEndsKept, Waiting
<1>4. Freshness
  BY DEF Init, Freshness
<1>5. Numbering
  <2>1. StateCount = 1
    BY FS_Singleton DEF Init, StateCount
  <2>2. QED
    BY <1>1, <2>1 DEF Init, Numbering, TypeOK
<1>6. QED
  BY <1>2, <1>3, <1>4, <1>5 DEF IInv

LEMMA NextBookkeeping ==
  ASSUME TypeOK, TypeOK', Bookkeeping, [Next]_vars
  PROVE  Bookkeeping'
<1> USE StatesAreStable
<1>1. CASE StartWindow
  BY <1>1 DEF StartWindow, Bookkeeping, TypeOK, dagVars, runVars, parentVars
<1>2. ASSUME NEW p \in localFrontier, SkipParent(p) PROVE Bookkeeping'
  BY <1>2 DEF SkipParent, IsNextParent, Bookkeeping, TypeOK, dagVars, parentVars
<1>3. ASSUME NEW p \in localFrontier, ExpandParent(p) PROVE Bookkeeping'
  <2>1. PICK e \in PossibleEvidence(p) :
          StopOnEvidence(p, e) \/ CloseChildless(p, e) \/ BeginExpansion(p, e)
    BY <1>3 DEF ExpandParent
  <2>2. BuildEvidence(p, e) /\ pc = "layer" /\ UNCHANGED <<world, dagVars, roots, nextFrontier>>
    BY <2>1 DEF StopOnEvidence, CloseChildless, BeginExpansion, BuildEvidence, IsNextParent
  <2>3. p \in states /\ p \in StateHash
    BY DEF Bookkeeping, TypeOK
  <2>4. e.certified \subseteq Certifiable(p) /\ (~ e.gap => e.certified = Certifiable(p))
    BY <2>3, EvidenceSound
  <2>5. \A h \in StateHash : built'[h] # None =>
          /\ h \in states'
          /\ built'[h].certified \subseteq Certifiable(h)'
          /\ ~ built'[h].gap => built'[h].certified = Certifiable(h)'
          /\ built'[h].gap => "evidence" \in exactReasons'
    BY <2>2, <2>3, <2>4 DEF BuildEvidence, Bookkeeping, TypeOK
  <2>6. pc' = "apply" => /\ current' \in localSeen'
                         /\ pending' \subseteq Certifiable(current)'
    <3>1. ASSUME pc' = "apply" PROVE current' = p /\ pending' = e.certified
      BY <2>1, <2>2, <3>1 DEF StopOnEvidence, CloseChildless, BeginExpansion
    <3>2. p \in localSeen' /\ Certifiable(p)' = Certifiable(p)
      BY <2>2, <2>3 DEF BuildEvidence
    <3>3. QED
      BY <3>1, <3>2, <2>4
  <2>7. fullyExpanded' \cup closedCandidates' \subseteq states'
    BY <2>1, <2>2, <2>3 DEF StopOnEvidence, CloseChildless, BeginExpansion, Bookkeeping, dagVars
  <2>8. roots' \cup localFrontier' \cup localSeen' \cup nextFrontier' \subseteq states'
    BY <2>2, <2>3 DEF BuildEvidence, Bookkeeping, dagVars
  <2>9. S0000' \in states'
    BY DEF Bookkeeping
  <2>10. QED
    BY <2>5, <2>6, <2>7, <2>8, <2>9 DEF Bookkeeping
<1>4. ASSUME NEW b \in pending, ApplyFails(b) PROVE Bookkeeping'
  BY <1>4 DEF ApplyFails, IsNextBatch, Bookkeeping, TypeOK, dagVars, windowVars
<1>5. ASSUME NEW b \in pending, HitStateCap(b) PROVE Bookkeeping'
  BY <1>5 DEF HitStateCap, Bookkeeping, TypeOK, dagVars, windowVars, parentVars
<1>6. ASSUME NEW b \in pending, ReachChild(b) PROVE Bookkeeping'
  <2>1. states' = states \cup {ChildHash(current, b)}
    BY <1>6 DEF ReachChild, RecordChild
  <2>2. QED
    BY <1>6, <2>1 DEF ReachChild, IsNextBatch, Bookkeeping, TypeOK
<1>7. CASE FinishParent
  BY <1>7 DEF FinishParent, MarkExpanded, Bookkeeping, TypeOK, dagVars, windowVars, parentVars
<1>8. CASE EndLayer
  BY <1>8 DEF EndLayer, Bookkeeping, TypeOK, dagVars, runVars, parentVars
<1>9. CASE CloseSearch
  BY <1>9 DEF CloseSearch, Bookkeeping, TypeOK, dagVars, windowVars, parentVars
<1>10. ASSUME NEW keep \in FrontierChoice(OpenBoundary), CommitFrontier(keep) PROVE Bookkeeping'
  <2>1. OpenBoundary \subseteq states
    BY DEF OpenBoundary, Bookkeeping
  <2>2. keep \subseteq OpenBoundary
    BY DEF FrontierChoice
  <2>3. /\ closedCandidates' = closedCandidates \cup (nextFrontier \ OpenBoundary)
        /\ roots' = keep
        /\ exactReasons \subseteq exactReasons'
        /\ pc' # "apply"
        /\ UNCHANGED <<dagVars, built, fullyExpanded, windowVars>>
    BY <1>10 DEF CommitFrontier
  <2>4. QED
    BY <2>1, <2>2, <2>3 DEF Bookkeeping, TypeOK, dagVars, windowVars
<1>11. CASE SelectFinal
  BY <1>11 DEF SelectFinal, Bookkeeping, TypeOK, dagVars, runVars, windowVars, parentVars
<1>12. CASE UNCHANGED vars
  BY <1>12 DEF vars, Bookkeeping, TypeOK, dagVars, runVars, windowVars, parentVars
<1>13. QED
  BY <1>1, <1>2, <1>3, <1>4, <1>5, <1>6, <1>7, <1>8, <1>9, <1>10, <1>11, <1>12
     DEF Next, ApplyBatch, Terminated

\* A state keeps its successors, and an evidence gap, a failure or a cap stays
\* on record.
LEMMA Monotone ==
  ASSUME TypeOK, [Next]_vars
  PROVE  /\ \A h \in states : SuccessorsKnown(h) => SuccessorsKnown(h)'
         /\ Clean' => Clean
<1>1. \A h \in states : Certifiable(h) \subseteq Batches
  BY CompilerTypes DEF TypeOK
<1>2. \A h \in states : SuccessorsKnown(h) => SuccessorsKnown(h)'
  BY <1>1, StatesAreStable DEF SuccessorsKnown
<1>3. exactReasons \subseteq exactReasons' /\ (stopped => stopped')
  BY DEF Next, vars, runVars, StartWindow, SkipParent, ExpandParent, StopOnEvidence, CloseChildless,
     BeginExpansion, BuildEvidence, ApplyBatch, ApplyFails, HitStateCap, ReachChild, FinishParent,
     EndLayer, CloseSearch, CommitFrontier, SelectFinal, Terminated
<1>4. QED
  BY <1>2, <1>3 DEF Clean

LEMMA NextFreshness ==
  ASSUME TypeOK, Bookkeeping, Freshness, [Next]_vars
  PROVE  Freshness'
<1>1. CASE StartWindow
  BY <1>1 DEF StartWindow, Freshness, runVars
<1>2. ASSUME NEW p \in localFrontier, SkipParent(p) PROVE Freshness'
  BY <1>2 DEF SkipParent, IsNextParent, Freshness, parentVars
<1>3. ASSUME NEW p \in localFrontier, ExpandParent(p) PROVE Freshness'
  <2>1. PICK e \in PossibleEvidence(p) :
          StopOnEvidence(p, e) \/ CloseChildless(p, e) \/ BeginExpansion(p, e)
    BY <1>3 DEF ExpandParent
  <2>2. /\ pc = "layer" /\ p \notin localSeen \cup fullyExpanded
        /\ localSeen' = localSeen \cup {p} /\ localFrontier' = localFrontier \ {p}
        /\ UNCHANGED nextFrontier
    BY <2>1 DEF StopOnEvidence, CloseChildless, BeginExpansion, BuildEvidence, IsNextParent
  <2>3. fullyExpanded' \subseteq fullyExpanded \cup {p}
    BY <2>1 DEF StopOnEvidence, CloseChildless, BeginExpansion
  <2>4. pc' # "window" /\ (pc' = "apply" => current' = p /\ UNCHANGED fullyExpanded)
    BY <2>1, <2>2 DEF StopOnEvidence, CloseChildless, BeginExpansion
  <2>5. QED
    BY <2>2, <2>3, <2>4 DEF Freshness
<1>4. ASSUME NEW b \in pending, ApplyFails(b) PROVE Freshness'
  BY <1>4 DEF ApplyFails, IsNextBatch, Freshness, windowVars
<1>5. ASSUME NEW b \in pending, HitStateCap(b) PROVE Freshness'
  BY <1>5 DEF HitStateCap, Freshness
<1>6. ASSUME NEW b \in pending, ReachChild(b) PROVE Freshness'
  BY <1>6 DEF ReachChild, IsNextBatch, Freshness
<1>7. CASE FinishParent
  BY <1>7 DEF FinishParent, MarkExpanded, Bookkeeping, Freshness, windowVars
<1>8. CASE EndLayer
  BY <1>8 DEF EndLayer, Freshness, runVars
<1>9. CASE CloseSearch
  BY <1>9 DEF CloseSearch, Freshness
<1>10. ASSUME NEW keep \in FrontierChoice(OpenBoundary), CommitFrontier(keep) PROVE Freshness'
  <2>1. keep \cap fullyExpanded = {}
    BY DEF FrontierChoice, OpenBoundary
  <2>2. roots' = keep /\ fullyExpanded' = fullyExpanded /\ pc' \in {"window", "finish"}
    BY <1>10 DEF CommitFrontier
  <2>3. QED
    BY <2>1, <2>2 DEF Freshness
<1>11. CASE SelectFinal
  BY <1>11 DEF SelectFinal, Freshness
<1>12. CASE UNCHANGED vars
  BY <1>12 DEF vars, Freshness, runVars, windowVars, parentVars
<1>13. QED
  BY <1>1, <1>2, <1>3, <1>4, <1>5, <1>6, <1>7, <1>8, <1>9, <1>10, <1>11, <1>12
     DEF Next, ApplyBatch, Terminated

\* Ids are handed out in order.
LEMMA NextNumbering ==
  ASSUME TypeOK, Numbering, [Next]_vars
  PROVE  Numbering'
<1>1. CASE UNCHANGED dagVars
  BY <1>1 DEF Numbering, StateCount, dagVars
<1>2. ASSUME NEW b \in pending, ReachChild(b) PROVE Numbering'
  <2> DEFINE h == ChildHash(current, b)
  <2>1. RecordChild(h, Child(current, b))
    BY <1>2 DEF ReachChild
  <2>2. h \notin states => Cardinality(states \cup {h}) = Cardinality(states) + 1
    BY FS_AddElement DEF TypeOK
  <2>3. StateCount \in Nat
    BY StateCountType
  <2>4. CASE h \in states
    BY <2>1, <2>4 DEF RecordChild, Numbering, StateCount
  <2>5. CASE h \notin states
    <3>1. h \in StateHash
      BY <1>2, CompilerTypes DEF ReachChild, IsNextBatch, TypeOK
    <3>2. states' = states \cup {h} /\ num' = [num EXCEPT ![h] = StateCount]
      BY <2>1, <2>5 DEF RecordChild
    <3>3. StateCount' = StateCount + 1
      BY <2>2, <2>5, <3>2 DEF StateCount
    <3>4. \A g \in states : num'[g] = num[g] /\ num[g] \in Nat /\ num[g] < StateCount
      BY <2>5, <3>2 DEF TypeOK, Numbering
    <3>5. num'[h] = StateCount
      BY <3>1, <3>2 DEF TypeOK
    <3> HIDE DEF h
    <3>6. \A g \in states' : num'[g] < StateCount + 1
      BY <2>3, <3>2, <3>4, <3>5
    <3>7. QED
      BY <3>3, <3>6 DEF Numbering
  <2>6. QED
    BY <2>4, <2>5
<1>3. QED
  BY <1>1, <1>2, DagChanges

\* An expansion of p on complete evidence.
LEMMA ExpandAccounting ==
  ASSUME TypeOK, TypeOK', Bookkeeping, Clean, Clean', Accounting,
         NEW p \in localFrontier, ExpandParent(p)
  PROVE  SeenIsExpanded' /\ ApplyingIsSound' /\ ExpandedIsClosed' /\ NothingLost' /\ DeadEndsKept'
<1> [Next]_vars
  BY DEF Next
<1>1. PICK e \in PossibleEvidence(p) :
        StopOnEvidence(p, e) \/ CloseChildless(p, e) \/ BeginExpansion(p, e)
  BY DEF ExpandParent
<1>2. /\ pc = "layer" /\ p \notin localSeen \cup fullyExpanded
      /\ localSeen' = localSeen \cup {p} /\ localFrontier' = localFrontier \ {p}
      /\ UNCHANGED <<dagVars, everPruned, nextFrontier>>
      /\ e.gap => "evidence" \in exactReasons'
  BY <1>1 DEF StopOnEvidence, CloseChildless, BeginExpansion, BuildEvidence, IsNextParent
<1>3. p \in states /\ p \in StateHash
  BY DEF Bookkeeping, TypeOK
<1>4. ~ e.gap
  BY <1>2 DEF Clean
<1>5. e.certified = Certifiable(p) /\ Certifiable(p)' = Certifiable(p)
  BY <1>3, <1>4, EvidenceSound, StatesAreStable
<1>6. CloseChildless(p, e) \/ BeginExpansion(p, e)
  BY <1>1, <1>4 DEF StopOnEvidence
<1>7. \A h \in states : SuccessorsKnown(h) => SuccessorsKnown(h)'
  BY Monotone
<1>8. \A h \in states : Active(h)' = Active(h) /\ Certifiable(h)' = Certifiable(h)
  BY StatesAreStable
<1>9. fullyExpanded \subseteq states /\ states' = states
  BY <1>2 DEF Bookkeeping, dagVars
<1>10. /\ SeenIsExpanded /\ ExpandedIsClosed /\ NothingLost /\ DeadEndsKept
  BY DEF Accounting
<1>11. CASE CloseChildless(p, e)
  <2>1. /\ Certifiable(p) = {} /\ fullyExpanded' = fullyExpanded \cup {p}
        /\ closedCandidates' = closedCandidates \cup {p} /\ pc' = "layer"
    BY <1>2, <1>5, <1>11 DEF CloseChildless
  <2>2. SuccessorsKnown(p)'
    BY <1>5, <2>1 DEF SuccessorsKnown
  <2>3. SeenIsExpanded'
    BY <1>2, <1>10, <2>1 DEF SeenIsExpanded
  <2>4. ApplyingIsSound'
    BY <2>1 DEF ApplyingIsSound
  <2>5. ExpandedIsClosed'
    BY <1>7, <1>8, <1>9, <1>10, <2>1, <2>2 DEF ExpandedIsClosed
  <2>6. Waiting' = Waiting \ ({p} \ nextFrontier)
    BY <1>2, <2>1 DEF Waiting
  <2>7. NothingLost' /\ DeadEndsKept'
    BY <1>2, <1>8, <1>9, <1>10, <2>1, <2>6 DEF NothingLost, DeadEndsKept
  <2>8. QED
    BY <2>3, <2>4, <2>5, <2>7
<1>12. CASE BeginExpansion(p, e)
  <2>1. /\ Certifiable(p) # {} /\ current' = p /\ pending' = Certifiable(p)
        /\ parentComplete' = TRUE /\ pc' = "apply"
        /\ UNCHANGED <<fullyExpanded, closedCandidates>>
    BY <1>5, <1>12 DEF BeginExpansion
  <2>2. SeenIsExpanded'
    BY <1>2, <1>10, <2>1 DEF SeenIsExpanded
  <2>3. ApplyingIsSound'
    BY <1>5, <2>1 DEF ApplyingIsSound
  <2>4. ExpandedIsClosed'
    BY <1>7, <1>8, <1>9, <1>10, <2>1 DEF ExpandedIsClosed
  <2>5. Waiting' = Waiting
    BY <1>2, <2>1 DEF Waiting
  <2>6. NothingLost' /\ DeadEndsKept'
    BY <1>2, <1>8, <1>9, <1>10, <2>1, <2>5 DEF NothingLost, DeadEndsKept
  <2>7. QED
    BY <2>2, <2>3, <2>4, <2>6
<1>13. QED
  BY <1>6, <1>11, <1>12

\* A child is recorded and queued, or is already expanded and competes.
LEMMA ReachAccounting ==
  ASSUME TypeOK, TypeOK', Bookkeeping, Clean, Accounting, NEW b \in pending, ReachChild(b)
  PROVE  SeenIsExpanded' /\ ApplyingIsSound' /\ ExpandedIsClosed' /\ NothingLost' /\ DeadEndsKept'
<1> DEFINE h == ChildHash(current, b)
<1> [Next]_vars
  BY DEF Next, ApplyBatch
<1>1. /\ pc = "apply" /\ pc' = "apply" /\ pending' = pending \ {b}
      /\ UNCHANGED <<world, fullyExpanded, everPruned, localFrontier, localSeen, current,
                     parentComplete>>
      /\ states' = states \cup {h}
      /\ closedCandidates \subseteq closedCandidates'
      /\ nextFrontier \subseteq nextFrontier'
  BY DEF ReachChild, IsNextBatch, RecordChild
<1>2. h \in fullyExpanded \cup localSeen \/ h \in nextFrontier'
  BY DEF ReachChild
<1>3. fullyExpanded \subseteq states /\ current \in states /\ localSeen \subseteq states
  BY <1>1 DEF Bookkeeping
<1>4. \A g \in states : /\ Active(g)' = Active(g)
                        /\ Certifiable(g)' = Certifiable(g)
                        /\ \A c \in Batches : ChildHash(g, c)' = ChildHash(g, c)
  BY StatesAreStable
<1>5. \A g \in states : SuccessorsKnown(g) => SuccessorsKnown(g)'
  BY Monotone
<1>6. SeenIsExpanded /\ ApplyingIsSound /\ ExpandedIsClosed /\ NothingLost /\ DeadEndsKept
  BY DEF Accounting
<1>7. Waiting \subseteq Waiting' /\ (h \notin states => h \in Waiting')
  BY <1>1, <1>2, <1>3 DEF Waiting
<1>8. Certifiable(current) \subseteq Batches
  BY <1>1, CompilerTypes DEF TypeOK
<1> HIDE DEF h
<1>9. SeenIsExpanded'
  BY <1>1, <1>6 DEF SeenIsExpanded
<1>10. ApplyingIsSound'
  <2>1. \A c \in Certifiable(current) \ pending' : ChildHash(current, c) \in states'
    BY <1>1, <1>6 DEF ApplyingIsSound, h
  <2>2. Certifiable(current)' = Certifiable(current)
    BY <1>1, <1>3, <1>4
  <2>3. \A c \in Batches : ChildHash(current, c)' = ChildHash(current, c)
    BY <1>1, <1>3, <1>4
  <2>4. parentComplete' /\ Certifiable(current) # {}
    BY <1>1, <1>6 DEF ApplyingIsSound
  <2>5. QED
    BY <1>8, <2>1, <2>2, <2>3, <2>4 DEF ApplyingIsSound
<1>11. ExpandedIsClosed'
  BY <1>1, <1>3, <1>4, <1>5, <1>6 DEF ExpandedIsClosed
<1>12. NothingLost'
  BY <1>1, <1>4, <1>6, <1>7 DEF NothingLost
<1>13. DeadEndsKept'
  BY <1>1, <1>4, <1>6, <1>7 DEF DeadEndsKept
<1>14. QED
  BY <1>9, <1>10, <1>11, <1>12, <1>13

\* A checkpoint keeps, prunes or closes each boundary state.
LEMMA BoundaryAccounting ==
  ASSUME TypeOK, Bookkeeping, Clean, Clean', Accounting,
         CloseSearch \/ \E keep \in FrontierChoice(OpenBoundary) : CommitFrontier(keep)
  PROVE  SeenIsExpanded' /\ ApplyingIsSound' /\ ExpandedIsClosed' /\ NothingLost' /\ DeadEndsKept'
<1> [Next]_vars
  BY DEF Next
<1>1. /\ pc = "boundary" /\ pc' # "apply"
      /\ UNCHANGED <<dagVars, fullyExpanded, localSeen>>
      /\ everPruned \subseteq everPruned'
      /\ closedCandidates' = closedCandidates \cup (nextFrontier \ OpenBoundary)
  <2>1. CASE CloseSearch
    BY <2>1 DEF CloseSearch, windowVars
  <2>2. CASE \E keep \in FrontierChoice(OpenBoundary) : CommitFrontier(keep)
    BY <2>2 DEF CommitFrontier, windowVars
  <2>3. QED
    BY <2>1, <2>2
<1>2. OpenBoundary \subseteq everPruned' \cup Waiting'
  <2>1. CASE CloseSearch
    BY <2>1 DEF CloseSearch
  <2>2. ASSUME NEW keep \in FrontierChoice(OpenBoundary), CommitFrontier(keep)
        PROVE  OpenBoundary \subseteq everPruned' \cup Waiting'
    <3>1. "window_cap" \in exactReasons' \/ pc' = "window"
      BY <2>2 DEF CommitFrontier
    <3>2. roots' = keep /\ everPruned' = everPruned \cup (OpenBoundary \ keep)
      BY <2>2 DEF CommitFrontier, PrunedBy
    <3>3. pc' = "window"
      BY <3>1 DEF Clean
    <3>4. QED
      BY <3>2, <3>3 DEF Waiting
  <2>3. QED
    BY <2>1, <2>2
<1>3. Waiting = nextFrontier
  BY <1>1 DEF Waiting
<1>4. \A h \in states : /\ Active(h)' = Active(h)
                        /\ Certifiable(h)' = Certifiable(h)
                        /\ SuccessorsKnown(h) => SuccessorsKnown(h)'
  BY StatesAreStable, Monotone
<1>5. SeenIsExpanded /\ ExpandedIsClosed /\ NothingLost /\ DeadEndsKept
  BY DEF Accounting
<1>6. SeenIsExpanded' /\ ApplyingIsSound'
  BY <1>1, <1>5 DEF SeenIsExpanded, ApplyingIsSound
<1>7. ExpandedIsClosed'
  BY <1>1, <1>4, <1>5 DEF ExpandedIsClosed, Bookkeeping
<1>8. \A h \in nextFrontier \ OpenBoundary : Active(h) => h \in fullyExpanded
  BY DEF OpenBoundary
<1>9. states' = states
  BY <1>1 DEF dagVars
<1>10. NothingLost'
  BY <1>1, <1>2, <1>3, <1>4, <1>5, <1>8, <1>9 DEF NothingLost
<1>11. DeadEndsKept'
  BY <1>1, <1>2, <1>3, <1>4, <1>5, <1>9 DEF DeadEndsKept
<1>12. QED
  BY <1>6, <1>7, <1>10, <1>11

\* The remaining steps move states between the places the run is in.
LEMMA NextAccounting ==
  ASSUME TypeOK, TypeOK', Bookkeeping, Accounting, [Next]_vars
  PROVE  Accounting'
<1> SUFFICES ASSUME Clean'
             PROVE  /\ SeenIsExpanded' /\ ApplyingIsSound' /\ ExpandedIsClosed'
                    /\ NothingLost' /\ DeadEndsKept'
  BY DEF Accounting
<1> DEFINE Goal == /\ SeenIsExpanded' /\ ApplyingIsSound' /\ ExpandedIsClosed'
                   /\ NothingLost' /\ DeadEndsKept'
<1>0. Clean
  BY Monotone
<1>a. SeenIsExpanded /\ ApplyingIsSound /\ ExpandedIsClosed /\ NothingLost /\ DeadEndsKept
  BY <1>0 DEF Accounting
<1>b. \A h \in states : /\ Active(h)' = Active(h)
                        /\ Certifiable(h)' = Certifiable(h)
                        /\ SuccessorsKnown(h) => SuccessorsKnown(h)'
  BY StatesAreStable, Monotone
<1>c. fullyExpanded \subseteq states
  BY DEF Bookkeeping
\* A step that moves nothing but the place, in a state where nothing is expanded.
<1>d. ASSUME UNCHANGED <<states, fullyExpanded, everPruned>>,
             closedCandidates \subseteq closedCandidates',
             pc # "apply", pc' # "apply",
             localSeen' \subseteq localSeen,
             Waiting \ Waiting' \subseteq fullyExpanded
      PROVE  Goal
  <2>1. SeenIsExpanded'
    BY <1>a, <1>d DEF SeenIsExpanded
  <2>2. ApplyingIsSound'
    BY <1>d DEF ApplyingIsSound
  <2>3. ExpandedIsClosed'
    BY <1>a, <1>b, <1>c, <1>d DEF ExpandedIsClosed
  <2>4. NothingLost'
    BY <1>a, <1>b, <1>d DEF NothingLost
  <2>5. DeadEndsKept'
    BY <1>a, <1>b, <1>c, <1>d DEF DeadEndsKept, ExpandedIsClosed
  <2>6. QED
    BY <2>1, <2>2, <2>3, <2>4, <2>5
<1>1. CASE StartWindow
  BY <1>1, <1>d DEF StartWindow, Waiting, dagVars, runVars
<1>2. ASSUME NEW p \in localFrontier, SkipParent(p) PROVE Goal
  <2>1. p \in fullyExpanded
    BY <1>2, <1>a DEF SkipParent, IsNextParent, SeenIsExpanded
  <2>2. QED
    BY <1>2, <1>d, <2>1 DEF SkipParent, IsNextParent, Waiting, dagVars
<1>3. ASSUME NEW p \in localFrontier, ExpandParent(p) PROVE Goal
  BY <1>0, <1>3, ExpandAccounting
<1>4. ASSUME NEW b \in pending, ApplyFails(b) PROVE Goal
  BY <1>4 DEF ApplyFails, Clean
<1>5. ASSUME NEW b \in pending, HitStateCap(b) PROVE Goal
  BY <1>5 DEF HitStateCap, Clean
<1>6. ASSUME NEW b \in pending, ReachChild(b) PROVE Goal
  BY <1>0, <1>6, ReachAccounting
<1>7. CASE FinishParent
  <2>1. /\ pc = "apply" /\ pending = {} /\ pc' = "layer"
        /\ UNCHANGED <<dagVars, everPruned, closedCandidates, windowVars>>
        /\ fullyExpanded' = fullyExpanded \cup {current}
    BY <1>7, <1>a DEF FinishParent, MarkExpanded, ApplyingIsSound
  <2>2. current \in states /\ SuccessorsKnown(current) /\ Certifiable(current) # {}
    BY <1>a, <2>1 DEF Bookkeeping, ApplyingIsSound, SuccessorsKnown
  <2>3. Waiting \subseteq Waiting' \cup {current}
    BY <2>1 DEF Waiting, windowVars
  <2>4. states' = states /\ localSeen' = localSeen
    BY <2>1 DEF dagVars, windowVars
  <2>5. SeenIsExpanded' /\ ApplyingIsSound'
    BY <1>a, <2>1, <2>4 DEF SeenIsExpanded, ApplyingIsSound
  <2>6. ExpandedIsClosed'
    BY <1>a, <1>b, <1>c, <2>1, <2>2 DEF ExpandedIsClosed
  <2>7. NothingLost'
    BY <1>a, <1>b, <2>1, <2>3, <2>4 DEF NothingLost
  <2>8. DeadEndsKept'
    BY <1>a, <1>b, <2>1, <2>2, <2>3, <2>4 DEF DeadEndsKept
  <2>9. QED
    BY <2>5, <2>6, <2>7, <2>8
<1>8. CASE EndLayer
  <2>1. /\ pc = "layer" /\ localFrontier = {} /\ pc' # "apply"
        /\ UNCHANGED <<dagVars, runVars, localSeen>>
    BY <1>8 DEF EndLayer
  <2>2. Waiting' = Waiting
    BY <1>8, <2>1 DEF EndLayer, Waiting
  <2>3. QED
    BY <1>d, <2>1, <2>2 DEF dagVars, runVars
<1>9. CASE CloseSearch \/ \E keep \in FrontierChoice(OpenBoundary) : CommitFrontier(keep)
  BY <1>0, <1>9, BoundaryAccounting
<1>10. CASE SelectFinal
  BY <1>10, <1>d DEF SelectFinal, Waiting, dagVars, runVars, windowVars
<1>11. CASE UNCHANGED vars
  <2>1. UNCHANGED <<dagVars, runVars, windowVars, parentVars, pc>>
    BY <1>11 DEF vars
  <2>2. Waiting' = Waiting
    BY <2>1 DEF Waiting, runVars, windowVars, parentVars
  <2>3. UNCHANGED <<states, fullyExpanded, everPruned, closedCandidates, localSeen, current,
                    pending, parentComplete>>
    BY <2>1 DEF dagVars, runVars, windowVars, parentVars
  <2>4. SeenIsExpanded'
    BY <1>a, <2>1, <2>3 DEF SeenIsExpanded
  <2>5. ApplyingIsSound'
    <3>1. CASE pc # "apply"
      BY <2>1, <3>1 DEF ApplyingIsSound
    <3>2. CASE pc = "apply"
      <4>1. current \in states /\ Certifiable(current) \subseteq Batches
        BY <3>2, CompilerTypes DEF Bookkeeping, TypeOK
      <4>2. /\ Certifiable(current)' = Certifiable(current)
            /\ \A b \in Batches : ChildHash(current, b)' = ChildHash(current, b)
        BY <2>3, <4>1, StatesAreStable
      <4>3. QED
        BY <1>a, <2>1, <2>3, <3>2, <4>1, <4>2 DEF ApplyingIsSound
    <3>3. QED
      BY <3>1, <3>2
  <2>6. ExpandedIsClosed'
    BY <1>a, <1>b, <1>c, <2>3 DEF ExpandedIsClosed
  <2>7. NothingLost' /\ DeadEndsKept'
    BY <1>a, <1>b, <2>2, <2>3 DEF NothingLost, DeadEndsKept
  <2>8. QED
    BY <2>4, <2>5, <2>6, <2>7
<1>12. QED
  BY <1>1, <1>2, <1>3, <1>4, <1>5, <1>6, <1>7, <1>8, <1>9, <1>10, <1>11
     DEF Next, ApplyBatch, Terminated

LEMMA NextIInv == ASSUME TypeOK, IInv, [Next]_vars PROVE IInv'
<1>1. TypeOK'
  BY NextTypeOK
<1>2. QED
  BY <1>1, NextBookkeeping, NextAccounting, NextFreshness, NextNumbering DEF IInv

\* The run's sets of states stay consistent, and as long as the run is clean no
\* discovered state and no successor of an expanded state is unaccounted for.
THEOREM InvariantHolds == Spec => []IInv
BY TypeCorrect, InitIInv, NextIInv, PTL DEF Spec

-----------------------------------------------------------------------------
(***************************************************************************)
(* What the invariant gives when the run ends.                             *)
(***************************************************************************)

\* A discovered state of a clean finished run that was not pruned has all its
\* successors.
LEMMA FinishedStates ==
  ASSUME TypeOK, IInv, pc = "done", Clean, NEW h \in states, h \notin everPruned
  PROVE  /\ SuccessorsKnown(h)
         /\ Certifiable(h) = {} => h \in closedCandidates
<1>1. Waiting = {}
  BY DEF Waiting
<1>2. ExpandedIsClosed /\ NothingLost /\ DeadEndsKept
  BY DEF IInv, Accounting
<1>3. CASE Active(h)
  BY <1>1, <1>2, <1>3 DEF ExpandedIsClosed, NothingLost, DeadEndsKept
<1>4. CASE ~ Active(h)
  <2>1. Certifiable(h) = {}
    BY <1>4, CompilerTypes DEF TypeOK
  <2>2. QED
    BY <1>1, <1>2, <2>1 DEF SuccessorsKnown, DeadEndsKept
<1>5. QED
  BY <1>3, <1>4

\* rolling_exact_complete is never claimed over a state left unexpanded, a batch
\* left untested, a failed application or a cap, unless a checkpoint pruned it.
THEOREM CompleteStatusIsSound == Spec => []CompleteMeansExpanded
<1>1. ASSUME TypeOK, IInv PROVE CompleteMeansExpanded
  <2>1. ASSUME pc = "done", ExactStatus = "rolling_exact_complete", NEW h \in states \ everPruned
        PROVE  SuccessorsKnown(h)
    <3>1. Clean
      BY <2>1 DEF ExactStatus, Clean
    <3>2. QED
      BY <1>1, <2>1, <3>1, FinishedStates
  <2>2. QED
    BY <2>1 DEF CompleteMeansExpanded
<1>2. QED
  BY <1>1, TypeCorrect, InvariantHolds, PTL

\* global_search_complete means that the discovered states are closed under every
\* certifiable batch.
THEOREM GlobalClaimIsSound == Spec => []GlobalMeansClosed
<1>1. ASSUME TypeOK, IInv PROVE GlobalMeansClosed
  <2>1. ASSUME pc = "done", GlobalSearchComplete, NEW h \in states
        PROVE  SuccessorsKnown(h)
    <3>1. Clean /\ everPruned = {}
      BY <2>1 DEF GlobalSearchComplete, Clean
    <3>2. QED
      BY <1>1, <2>1, <3>1, FinishedStates
  <2>2. QED
    BY <2>1 DEF GlobalMeansClosed
<1>2. QED
  BY <1>1, TypeCorrect, InvariantHolds, PTL

\* No queued state and no root of a window has been fully expanded before.
THEOREM NoRepeatedExpansion == Spec => []QueueIsUnexpanded
<1>1. IInv => QueueIsUnexpanded
  BY DEF IInv, Freshness, QueueIsUnexpanded
<1>2. QED
  BY <1>1, InvariantHolds, PTL

-----------------------------------------------------------------------------
(***************************************************************************)
(* Paths.                                                                  *)
(***************************************************************************)

\* A better path is no longer.
LEMMA BetterIsNoLonger ==
  ASSUME NEW p, NEW q, p.length \in Nat, q.length \in Nat, PathIsBetter(p, q)
  PROVE  p.length <= q.length
BY DEF PathIsBetter

\* Replacing the path of h by a better one through current keeps every path real.
LEMMA ReachPaths ==
  ASSUME TypeOK, TypeOK', Bookkeeping, PathsAreReal, NEW b \in pending, ReachChild(b)
  PROVE  PathsAreReal'
<1> DEFINE h == ChildHash(current, b)
           path == ExtendPath(pathInfo[current], b)
<1> [Next]_vars
  BY DEF Next, ApplyBatch
<1>1. /\ pc = "apply" /\ RecordChild(h, Child(current, b)) /\ UpdatePath(h, b)
      /\ current' = current
  BY DEF ReachChild, IsNextBatch
<1>2. current \in states /\ current \in StateHash /\ b \in Certifiable(current) /\ b \in Batches
  BY <1>1 DEF Bookkeeping, TypeOK
<1>3. h \in StateHash
  BY <1>2, CompilerTypes
<1>4. path.length = pathInfo[current].length + 1
  BY <1>2, ExtendPathType DEF TypeOK
<1>5. \A g \in StateHash : pathInfo[g].length \in Nat /\ pathInfo'[g].length \in Nat
  BY DEF TypeOK, PathInfo
<1>6. states' = states \cup {h} /\ states \subseteq StateHash
  BY <1>1 DEF RecordChild, TypeOK
<1>7. /\ S0000' = S0000
      /\ \A g \in states : /\ Certifiable(g)' = Certifiable(g)
                           /\ \A c \in Batches : ChildHash(g, c)' = ChildHash(g, c)
  BY StatesAreStable
<1>8. \A g \in states : Certifiable(g) \subseteq Batches
  BY CompilerTypes DEF TypeOK
\* Edges stay real when no recorded path gets longer.
<1>9. ASSUME \A g \in states : pathInfo'[g].length <= pathInfo[g].length,
             NEW g \in states \ {S0000}, pathInfo'[g] = pathInfo[g],
             parentByChild'[g] = parentByChild[g]
      PROVE  RealEdge(g, parentByChild[g])'
  <2> DEFINE e == parentByChild[g]
  <2>1. RealEdge(g, e)
    BY <1>9 DEF PathsAreReal
  <2>2. e.parent \in states /\ e.batch \in Certifiable(e.parent) /\ e.batch \in Batches
    BY <1>8, <2>1 DEF RealEdge
  <2>3. pathInfo'[e.parent].length < pathInfo'[g].length
    BY <1>5, <1>6, <1>9, <2>1, <2>2 DEF RealEdge
  <2>4. PICK f : f = e
    OBVIOUS
  <2>5. /\ Certifiable(f.parent)' = Certifiable(f.parent)
        /\ ChildHash(f.parent, f.batch)' = ChildHash(f.parent, f.batch)
    BY <1>7, <2>2, <2>4
  <2>6. QED
    BY <1>6, <1>9, <2>1, <2>2, <2>3, <2>4, <2>5 DEF RealEdge
<1>10. CASE h # S0000 /\ (h \notin states \/ PathIsBetter(path, pathInfo[h]))
  <2>1. /\ pathInfo' = [pathInfo EXCEPT ![h] = path]
        /\ parentByChild' = [parentByChild EXCEPT ![h] = EdgeOf(b)]
    BY <1>1, <1>10 DEF UpdatePath
  <2>2. h \in states => path.length <= pathInfo[h].length
    <3>1. path.length \in Nat /\ pathInfo[h].length \in Nat
      BY <1>2, <1>3, <1>4, <1>5
    <3> HIDE DEF h, path
    <3>2. QED
      BY <1>10, <3>1, BetterIsNoLonger
  <2>3. h # current
    BY <1>2, <1>4, <1>5, <2>2
  <2> HIDE DEF h, path
  <2>4. /\ pathInfo'[h] = path /\ parentByChild'[h] = EdgeOf(b)
        /\ \A g \in StateHash \ {h} : /\ pathInfo'[g] = pathInfo[g]
                                      /\ parentByChild'[g] = parentByChild[g]
    BY <1>3, <2>1 DEF TypeOK
  <2>5. pathInfo'[S0000] = RootPath
    BY <1>10, <2>4, CompilerTypes DEF PathsAreReal
  <2>6. EdgeOf(b).parent = current /\ EdgeOf(b).batch = b /\ EdgeOf(b) # None
    BY <1>2, NoneAssumption DEF EdgeOf, Edge
  <2>7. \A g \in states : pathInfo'[g].length <= pathInfo[g].length
    BY <1>5, <1>6, <2>2, <2>4
  <2>8. RealEdge(h, parentByChild[h])'
    <3>1. pathInfo'[current].length < pathInfo'[h].length
      BY <1>2, <1>4, <1>5, <2>3, <2>4
    <3>2. PICK g : g = h
      OBVIOUS
    <3>3. ChildHash(current, b)' = g /\ b \in Certifiable(current)'
      BY <1>1, <1>2, <1>7, <3>2 DEF h
    <3>4. RealEdge(g, parentByChild[g])'
      BY <1>1, <1>2, <1>6, <2>4, <2>6, <3>1, <3>2, <3>3 DEF RealEdge
    <3>5. h' = h
      BY <1>1, <1>2, <1>7 DEF h
    <3>6. QED
      BY <3>2, <3>4, <3>5
  <2>9. h' = h
    BY <1>1, <1>2, <1>7 DEF h
  <2>10. ASSUME NEW g \in states' \ {S0000'} PROVE RealEdge(g, parentByChild[g])'
    <3>1. CASE g = h
      BY <2>8, <2>9, <3>1
    <3>2. CASE g # h
      BY <1>6, <1>7, <1>9, <2>4, <2>7, <3>2
    <3>3. QED
      BY <3>1, <3>2
  <2>11. QED
    BY <1>7, <2>5, <2>10 DEF PathsAreReal
<1>11. CASE ~ (h # S0000 /\ (h \notin states \/ PathIsBetter(path, pathInfo[h])))
  <2>1. UNCHANGED <<pathInfo, parentByChild>>
    BY <1>1, <1>11 DEF UpdatePath
  <2>2. states' = states
    BY <1>6, <1>11 DEF Bookkeeping
  <2>3. \A g \in states \ {S0000} : RealEdge(g, parentByChild[g])'
    BY <1>5, <1>6, <1>9, <2>1
  <2>4. QED
    BY <1>7, <2>1, <2>2, <2>3 DEF PathsAreReal
<1>12. QED
  BY <1>10, <1>11

\* Every recorded path is a chain of certified transitions back to S0000, its
\* parent edges strictly shorter, however often better paths replaced others.
THEOREM PathsCorrect == Spec => []PathsAreReal
<1>1. ASSUME Init PROVE PathsAreReal
  BY <1>1, InitTypeOK, CompilerTypes DEF Init, PathsAreReal
<1>2. ASSUME TypeOK, TypeOK', Bookkeeping, PathsAreReal, [Next]_vars PROVE PathsAreReal'
  <2>1. CASE UNCHANGED <<world, dagVars>>
    BY <1>2, <2>1 DEF PathsAreReal, RealEdge, dagVars, S0000, Compiler, Certifiable, ChildHash, Child
  <2>2. ASSUME NEW b \in pending, ReachChild(b) PROVE PathsAreReal'
    BY <1>2, <2>2, ReachPaths
  <2>3. QED
    BY <1>2, <2>1, <2>2, DagChanges
<1>3. IInv => Bookkeeping
  BY DEF IInv
<1>4. QED
  BY <1>1, <1>2, <1>3, TypeCorrect, InvariantHolds, PTL DEF Spec

-----------------------------------------------------------------------------
(***************************************************************************)
(* Bounds and the final selection.                                         *)
(***************************************************************************)

LEMMA NextBounds ==
  ASSUME TypeOK, TypeOK', Bookkeeping, Numbering, BoundsRespected, [Next]_vars
  PROVE  BoundsRespected'
<1>1. StateCount \in Nat /\ MaxStates \in Nat /\ FrontierWidth \in Nat
  BY StateCountType, OptionTypes
<1>6. UNCHANGED <<MaxStates, FrontierWidth>>
  BY DagChanges DEF ReachChild, MaxStates, FrontierWidth
<1>2. Cardinality(roots') <= FrontierWidth
  <2>1. ASSUME NEW keep \in FrontierChoice(OpenBoundary), CommitFrontier(keep)
        PROVE  Cardinality(roots') <= FrontierWidth
    <3>1. Cardinality(keep) <= FrontierWidth
      BY <1>1 DEF FrontierChoice
    <3>2. QED
      BY <2>1, <3>1 DEF CommitFrontier
  <2>2. CASE roots' = roots
    BY <2>2 DEF BoundsRespected
  <2>3. QED
    BY <2>1, <2>2 DEF Next, vars, runVars, StartWindow, SkipParent, ExpandParent, StopOnEvidence,
       CloseChildless, BeginExpansion, ApplyBatch, ApplyFails, HitStateCap, ReachChild,
       FinishParent, EndLayer, CloseSearch, SelectFinal, Terminated
<1>3. CASE UNCHANGED dagVars
  BY <1>2, <1>3, <1>6 DEF BoundsRespected, StateCount, dagVars
<1>4. ASSUME NEW b \in pending, ReachChild(b) PROVE BoundsRespected'
  <2> DEFINE h == ChildHash(current, b)
  <2>1. RecordChild(h, Child(current, b)) /\ (h \in states \/ StateCount < MaxStates)
    BY <1>4 DEF ReachChild
  <2>2. CASE h \in states
    BY <1>2, <1>6, <2>1, <2>2 DEF RecordChild, BoundsRespected, StateCount
  <2>3. CASE h \notin states
    <3>1. states' = states \cup {h} /\ num' = [num EXCEPT ![h] = StateCount]
      BY <2>1, <2>3 DEF RecordChild
    <3>2. Cardinality(states \cup {h}) = Cardinality(states) + 1
      BY <2>3, FS_AddElement DEF TypeOK
    <3>3. StateCount' = StateCount + 1
      BY <3>1, <3>2 DEF StateCount
    <3>4. num'[h] = StateCount
      BY <3>1 DEF TypeOK
    <3> HIDE DEF h
    <3>5. \A g \in states : num'[g] = num[g] /\ num[g] \in Nat /\ num[g] < StateCount
      BY <2>3, <3>1 DEF TypeOK, Numbering
    <3>6. \A f, g \in states : num[f] = num[g] => f = g
      BY DEF BoundsRespected
    <3>7. \A f, g \in states' : num'[f] = num'[g] => f = g
      BY <1>1, <3>1, <3>4, <3>5, <3>6
    <3>8. StateCount' <= MaxStates
      BY <1>1, <2>1, <2>3, <3>3
    <3>9. QED
      BY <1>2, <1>6, <3>7, <3>8 DEF BoundsRespected
  <2>4. QED
    BY <2>2, <2>3
<1>5. QED
  BY <1>3, <1>4, DagChanges

\* Ids are unique and neither max_states nor the frontier width is exceeded.
THEOREM BoundsHold == Spec => []BoundsRespected
<1>1. ASSUME Init PROVE BoundsRespected
  <2>1. Cardinality({S0000}) = 1
    BY FS_Singleton
  <2>2. QED
    <3>1. FrontierWidth \in Nat /\ FrontierWidth >= 1
      BY <1>1, InitTypeOK, OptionTypes
    <3>2. QED
      BY <1>1, <2>1, <3>1 DEF Init, BoundsRespected, StateCount
<1>2. IInv => Bookkeeping /\ Numbering
  BY DEF IInv
<1>3. QED
  BY <1>1, <1>2, NextBounds, TypeCorrect, InvariantHolds, PTL DEF Spec

\* The selected state has the least objective of the candidates.
SelectedIsLeast ==
  pc = "done" => /\ selected \in StateHash
                 /\ \A t \in FinalCandidates : Objective(selected) <= Objective(t)

LEMMA NextSelected ==
  ASSUME TypeOK, SelectedIsLeast, [Next]_vars
  PROVE  SelectedIsLeast'
<1>1. CASE SelectFinal
  <2>1. PICK s \in FinalCandidates :
          /\ \A t \in FinalCandidates : KeyBefore(s, t)
          /\ selected' = s
    BY <1>1 DEF SelectFinal
  <2>2. UNCHANGED <<world, dagVars, runVars>>
    BY <1>1 DEF SelectFinal
  <2>3. FinalCandidates \subseteq StateHash
    BY DEF FinalCandidates, TypeOK
  <2>4. \A t \in StateHash : Objective(t) \in Nat
    BY CompilerTypes
  <2>5. \A t \in FinalCandidates : Objective(s) <= Objective(t)
    BY <2>1, <2>3, <2>4 DEF KeyBefore
  <2>6. FinalCandidates' = FinalCandidates
    BY <2>2 DEF FinalCandidates, dagVars, runVars
  <2>7. \A t : Objective(t)' = Objective(t)
    BY <2>2 DEF Objective, Compiler, dagVars
  <2>8. Objective(selected)' = Objective(s)
    BY <2>1, <2>2 DEF Objective, Compiler, dagVars
  <2>9. QED
    BY <2>1, <2>3, <2>5, <2>6, <2>7, <2>8 DEF SelectedIsLeast
<1>2. CASE pc = "done" /\ UNCHANGED vars
  <2>1. UNCHANGED <<world, dagVars, runVars, pc, selected>>
    BY <1>2 DEF vars
  <2>2. FinalCandidates' = FinalCandidates
    BY <2>1 DEF FinalCandidates, dagVars, runVars
  <2>3. \A t : Objective(t)' = Objective(t)
    BY <2>1 DEF Objective, Compiler, dagVars
  <2>4. Objective(selected)' = Objective(selected)
    BY <2>1 DEF Objective, Compiler, dagVars
  <2>5. QED
    BY <2>1, <2>2, <2>3, <2>4 DEF SelectedIsLeast
<1>3. CASE pc' # "done"
  BY <1>3 DEF SelectedIsLeast
<1>4. QED
  BY <1>1, <1>2, <1>3 DEF Next, vars, StartWindow, SkipParent, ExpandParent, StopOnEvidence,
     CloseChildless, BeginExpansion, BuildEvidence, IsNextParent, ApplyBatch, IsNextBatch, ApplyFails,
     HitStateCap, ReachChild, FinishParent, EndLayer, CloseSearch, CommitFrontier, Terminated

\* A complete run returns a state no worse than any discovered dead end that no
\* checkpoint pruned.
THEOREM SelectionIsBest == Spec => []DeadEndsCompete
<1>1. ASSUME Init PROVE SelectedIsLeast
  BY <1>1 DEF Init, SelectedIsLeast
<1>2. ASSUME TypeOK, IInv, SelectedIsLeast PROVE DeadEndsCompete
  <2>1. ASSUME pc = "done", ExactStatus = "rolling_exact_complete",
               NEW h \in states \ everPruned, Certifiable(h) = {}
        PROVE  Objective(selected) <= Objective(h)
    <3>1. Clean
      BY <2>1 DEF ExactStatus, Clean
    <3>2. h \in closedCandidates
      BY <1>2, <2>1, <3>1, FinishedStates
    <3>3. QED
      BY <1>2, <2>1, <3>2 DEF SelectedIsLeast, FinalCandidates
  <2>2. QED
    BY <2>1 DEF DeadEndsCompete
<1>3. QED
  BY <1>1, <1>2, NextSelected, TypeCorrect, InvariantHolds, PTL DEF Spec

-----------------------------------------------------------------------------
\* What a run says of itself at its end is true.
THEOREM ReportsHold == Spec => []ReportsAreTrue
<1>1. CompleteMeansExpanded /\ GlobalMeansClosed /\ DeadEndsCompete => ReportsAreTrue
  BY DEF ReportsAreTrue
<1> QED
  BY <1>1, CompleteStatusIsSound, GlobalClaimIsSound, SelectionIsBest, PTL
=============================================================================
