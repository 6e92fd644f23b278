----------------------- MODULE GroupEvaluationProofs -----------------------
(***************************************************************************)
(* What an authorisation of the direct-merge rule, a stable replay and the *)
(* evidence of a study are worth, and why the rows, the tables and the     *)
(* ledger of a program agree, for any actions, passes, groups, strays and  *)
(* any number of misbehaviours.                                            *)
(***************************************************************************)
EXTENDS ProgramLedger, FiniteSetTheorems, WellFoundedInduction, TLAPS

-----------------------------------------------------------------------------
\* Patches and merges.

\* Disjoint patches: at most one output of A changes a function (_overlapping).
LEMMA OneChanger ==
  ASSUME NEW root, NEW output, NEW A, ~ Overlap(root, output, A),
         NEW a \in A, NEW b \in A, NEW f,
         f \in Changed(root, output[a]), f \in Changed(root, output[b])
  PROVE  a = b
BY DEF Overlap

\* The body of a function that an output changed is the one it gave it.
LEMMA MergedChange ==
  ASSUME NEW root, NEW output, NEW A, ~ Overlap(root, output, A),
         NEW B \in SUBSET A, NEW b \in B,
         NEW f \in Functions, f \in Changed(root, output[b])
  PROVE  MergeOf(root, output, B).body[f] = output[b].body[f]
<1> DEFINE c == CHOOSE x \in B : f \in Changed(root, output[x])
<1>1. c \in B /\ f \in Changed(root, output[c])
  OBVIOUS
<1>2. c = b
  BY <1>1, OneChanger
<1>3. MergeOf(root, output, B).body[f] = output[c].body[f]
  BY DEF MergeOf
<1> QED BY <1>2, <1>3

\* A function that no output changed keeps its body.
LEMMA MergedRest ==
  ASSUME NEW root, NEW output, NEW B, NEW f \in Functions,
         \A b \in B : f \notin Changed(root, output[b])
  PROVE  MergeOf(root, output, B).body[f] = root.body[f]
BY DEF MergeOf

\* merge makes modules.
LEMMA MergeTyped ==
  ASSUME NEW root \in Modules, NEW output, NEW B,
         \A b \in B : output[b] \in Modules
  PROVE  MergeOf(root, output, B) \in Modules
<1> SUFFICES ASSUME NEW f \in Functions
             PROVE  (IF \E b \in B : f \in Changed(root, output[b])
                       THEN output[CHOOSE b \in B : f \in Changed(root, output[b])].body[f]
                       ELSE root.body[f]) \in Bodies
  BY DEF MergeOf, Modules
<1>1. CASE \E b \in B : f \in Changed(root, output[b])
  <2> DEFINE c == CHOOSE b \in B : f \in Changed(root, output[b])
  <2>1. c \in B
    BY <1>1
  <2>2. output[c].body[f] \in Bodies
    BY <2>1 DEF Modules
  <2> QED BY <1>1, <2>2
<1>2. CASE ~ \E b \in B : f \in Changed(root, output[b])
  BY <1>2 DEF Modules
<1> QED BY <1>1, <1>2

\* Modules with one frame and the same bodies are one module.
LEMMA SameModule ==
  ASSUME NEW m \in Modules, NEW n \in Modules, m.frame = n.frame,
         \A f \in Functions : m.body[f] = n.body[f]
  PROVE  m = n
<1>1. m.body = n.body
  BY DEF Modules
<1>2. m = [frame |-> m.frame, body |-> m.body] /\ n = [frame |-> n.frame, body |-> n.body]
  BY DEF Modules
<1> QED BY <1>1, <1>2

\* The merge of one output is that output.
LEMMA MergeOfOne ==
  ASSUME NEW root \in Modules, NEW output, NEW b,
         output[b] \in Modules, Patchable(root, output[b])
  PROVE  MergeOf(root, output, {b}) = output[b]
<1>1. MergeOf(root, output, {b}) \in Modules
  BY MergeTyped
<1>2. MergeOf(root, output, {b}).frame = output[b].frame
  BY DEF MergeOf, Patchable
<1>3. ~ Overlap(root, output, {b})
  BY DEF Overlap
<1>4. ASSUME NEW f \in Functions
      PROVE  MergeOf(root, output, {b}).body[f] = output[b].body[f]
  <2>1. CASE f \in Changed(root, output[b])
    BY <1>3, <2>1, MergedChange, b \in {b}, {b} \in SUBSET {b}
  <2>2. CASE f \notin Changed(root, output[b])
    <3>1. MergeOf(root, output, {b}).body[f] = root.body[f]
      BY <2>2, MergedRest, \A c \in {b} : f \notin Changed(root, output[c])
    <3> QED BY <2>2, <3>1 DEF Changed
  <2> QED BY <2>1, <2>2
<1> QED BY <1>1, <1>2, <1>4, SameModule

\* What compare_effect is for: an action that does to the merge of the others
\* what it did to the root makes the merge of the whole group.
THEOREM SameEffectMakesTheMerge ==
  ASSUME NEW root \in Modules, NEW A, NEW output, NEW a \in A,
         \A b \in A : output[b] \in Modules /\ Patchable(root, output[b]),
         ~ Overlap(root, output, A),
         NEW after \in Modules,
         Patchable(MergeOf(root, output, A \ {a}), after),
         SameEffect(root, output[a], MergeOf(root, output, A \ {a}), after)
  PROVE  after = MergeOf(root, output, A)
<1> DEFINE others == MergeOf(root, output, A \ {a})
<1>1. MergeOf(root, output, A) \in Modules
  BY MergeTyped
<1>2. after.frame = MergeOf(root, output, A).frame
  BY DEF MergeOf, Patchable
<1>3. Patch(root, output[a]) = Patch(others, after)
  BY DEF SameEffect
<1>4. Changed(root, output[a]) = Changed(others, after)
  <2>1. DOMAIN Patch(root, output[a]) = Changed(root, output[a])
    BY DEF Patch
  <2>2. DOMAIN Patch(others, after) = Changed(others, after)
    BY DEF Patch
  <2> QED BY <1>3, <2>1, <2>2
<1>5. ASSUME NEW f \in Functions
      PROVE  after.body[f] = MergeOf(root, output, A).body[f]
  <2>1. CASE f \in Changed(root, output[a])
    <3>1. Patch(root, output[a])[f] = <<root.body[f], output[a].body[f]>>
      BY <2>1 DEF Patch
    <3>2. Patch(others, after)[f] = <<others.body[f], after.body[f]>>
      BY <1>4, <2>1 DEF Patch
    <3>3. after.body[f] = output[a].body[f]
      BY <1>3, <3>1, <3>2
    <3> QED BY <2>1, <3>3, MergedChange, A \in SUBSET A
  <2>2. CASE f \notin Changed(root, output[a])
    <3>1. after.body[f] = others.body[f]
      BY <1>4, <2>2 DEF Changed
    <3>2. CASE \E b \in A : f \in Changed(root, output[b])
      <4>1. PICK b \in A : f \in Changed(root, output[b])
        BY <3>2
      <4>2. b \in A \ {a} /\ A \ {a} \in SUBSET A
        BY <2>2, <4>1
      <4>3. others.body[f] = output[b].body[f]
        BY <4>1, <4>2, MergedChange
      <4>4. MergeOf(root, output, A).body[f] = output[b].body[f]
        BY <4>1, MergedChange, A \in SUBSET A
      <4> QED BY <3>1, <4>3, <4>4
    <3>3. CASE \A b \in A : f \notin Changed(root, output[b])
      <4>1. others.body[f] = root.body[f]
        BY <3>3, MergedRest, \A b \in A \ {a} : f \notin Changed(root, output[b])
      <4>2. MergeOf(root, output, A).body[f] = root.body[f]
        BY <3>3, MergedRest
      <4> QED BY <3>1, <4>1, <4>2
    <3> QED BY <3>2, <3>3
  <2> QED BY <2>1, <2>2
<1> QED BY <1>1, <1>2, <1>5, SameModule

-----------------------------------------------------------------------------
\* The next action and the next case.

\* Every set of numbers that is not empty has a least member.
LEMMA LeastExists ==
  ASSUME NEW S \in SUBSET Nat, S # {}
  PROVE  \E x \in S : \A y \in S : x <= y
<1>1. PICK x \in S : \A y \in S : ~ (<<y, x>> \in OpToRel(<, Nat))
  BY NatLessThanWellFounded, WFMin
<1>2. ASSUME NEW y \in S
      PROVE  x <= y
  <2>1. ~ (y < x)
    BY <1>1 DEF OpToRel
  <2> QED BY <2>1
<1> QED BY <1>2

\* The evaluator's next action is one of those that are left.
LEMMA NextIsLeft ==
  ASSUME NEW S \in SUBSET Actions, S # {}
  PROVE  Next1(S) \in S
<1>1. \E a \in S : \A b \in S : a <= b
  BY StudyAssumption, LeastExists
<1> QED BY <1>1 DEF Next1

\* One of any cases has the least i-th part.
LEMMA LeastPart ==
  ASSUME NEW S \in SUBSET (Nat \X Nat \X Nat \X Nat), S # {}, NEW i \in 1 .. 4
  PROVE  \E s \in S : \A t \in S : s[i] <= t[i]
<1>1. \A s \in S : s[i] \in Nat
  <2>1. i = 1 \/ i = 2 \/ i = 3 \/ i = 4
    OBVIOUS
  <2> QED BY <2>1
<1>2. {s[i] : s \in S} \in SUBSET Nat /\ {s[i] : s \in S} # {}
  BY <1>1
<1>3. PICK x \in {s[i] : s \in S} : \A y \in {s[i] : s \in S} : x <= y
  BY <1>2, LeastExists
<1> QED BY <1>3

\* A set of cases that is not empty has a first one.
LEMMA FirstIsLeft ==
  ASSUME NEW S \in SUBSET (Nat \X Nat \X Nat \X Nat), S # {}
  PROVE  First(S) \in S
<1>1. PICK s1 \in S : \A t \in S : s1[1] <= t[1]
  BY LeastPart, 1 \in 1 .. 4
<1> DEFINE S1 == {s \in S : s[1] = s1[1]}
<1>2. PICK s2 \in S1 : \A t \in S1 : s2[2] <= t[2]
  <2>1. S1 \in SUBSET (Nat \X Nat \X Nat \X Nat) /\ S1 # {} /\ 2 \in 1 .. 4
    OBVIOUS
  <2> HIDE DEF S1
  <2> QED BY <2>1, LeastPart
<1> DEFINE S2 == {s \in S1 : s[2] = s2[2]}
<1>3. PICK s3 \in S2 : \A t \in S2 : s3[3] <= t[3]
  <2>1. S2 \in SUBSET (Nat \X Nat \X Nat \X Nat) /\ S2 # {} /\ 3 \in 1 .. 4
    OBVIOUS
  <2> HIDE DEF S2
  <2> QED BY <2>1, LeastPart
<1> DEFINE S3 == {s \in S2 : s[3] = s3[3]}
<1>4. PICK s4 \in S3 : \A t \in S3 : s4[4] <= t[4]
  <2>1. S3 \in SUBSET (Nat \X Nat \X Nat \X Nat) /\ S3 # {} /\ 4 \in 1 .. 4
    OBVIOUS
  <2> HIDE DEF S3
  <2> QED BY <2>1, LeastPart
<1>5. ASSUME NEW t \in S \ {s4}
      PROVE  Before(s4, t)
  <2>1. DOMAIN s4 = 1 .. 4 /\ DOMAIN t = 1 .. 4 /\ \A i \in 1 .. 4 : s4[i] \in Nat /\ t[i] \in Nat
    OBVIOUS
  <2>2. \E i \in 1 .. 4 : s4[i] < t[i] /\ \A j \in 1 .. i - 1 : s4[j] = t[j]
    <3>1. CASE t \notin S1
      <4>1. s4[1] < t[1]
        BY <1>1, <2>1, <3>1
      <4> QED BY <4>1
    <3>2. CASE t \in S1 \ S2
      <4>1. s4[1] = t[1] /\ s4[2] < t[2]
        BY <1>2, <2>1, <3>2
      <4> QED BY <4>1
    <3>3. CASE t \in S2 \ S3
      <4>1. s4[1] = t[1] /\ s4[2] = t[2] /\ s4[3] < t[3]
        BY <1>3, <2>1, <3>3
      <4> QED BY <4>1
    <3>4. CASE t \in S3
      <4>1. s4[1] = t[1] /\ s4[2] = t[2] /\ s4[3] = t[3] /\ s4[4] <= t[4]
        BY <1>4, <3>4
      <4>2. s4[4] < t[4]
        BY <2>1, <4>1
      <4> QED BY <4>1, <4>2
    <3> QED BY <3>1, <3>2, <3>3, <3>4
  <2> QED BY <2>1, <2>2 DEF Before
<1> QED BY <1>5 DEF First

-----------------------------------------------------------------------------
\* The inductive invariant.

\* What the study publishes has the types the evaluator starts from.
StudyTyped ==
  /\ profiles \in [Actions -> Stages]
  /\ results \in Seq([rows : [Actions -> Rows],
                      verdict : {"none", "authorized", "rejected", "unknown",
                                 "group_precondition_unavailable"}])
  /\ Len(results) <= Len(Groups)
  /\ phase = "groups" /\ step # "idle" => Len(results) < Len(Groups)
  /\ phase = "pairs" => step = "idle"

\* The gate before the patches, and the gate before the merges.
FirstRoundSucceeded ==
  \A b \in members : firsts[b].status = "success" /\ firsts[b].output \in Modules

PatchesAreSound == \A b \in patched : Patchable(Root, firsts[b].output)

PatchesAreDisjoint == patched = members /\ ~ Overlap(Root, Outputs, members)

\* What holds at each step of an evaluation; the last part makes the
\* authorisations of the rows written so far earned.
EvaluationIsSound ==
  /\ step \in {"idle", "profile", "gate", "inspect"} => rows = NoRows
  /\ step \in {"profile", "gate"} => patched = {}
  /\ step \in {"inspect", "merge", "second", "compare"} => FirstRoundSucceeded /\ PatchesAreSound
  /\ step \in {"merge", "second", "compare"} => PatchesAreDisjoint
  /\ step \in {"second", "compare"} => Undecided # {} /\ merged = OthersMerged
  /\ step = "compare" => second.status = "success"
  /\ AuthorizationIsEarned

GroupInvariant == TypeOK /\ StudyTyped /\ EvaluationIsSound

-----------------------------------------------------------------------------
\* Types of what runs and the helper report.

\* The parts of the study under way, by the assumption on Studies.
LEMMA StudyIsTyped ==
  ASSUME study \in DOMAIN Studies
  PROVE  /\ Root \in Modules
         /\ Studies[study].act \in [Actions -> [Modules -> Modules \cup {NoModule}]]
         /\ Studies[study].strays \in SUBSET Modules
         /\ Studies[study].budget \in Nat
<1>1. Studies[study] \in Study
  BY StudyAssumption
<1> QED BY <1>1 DEF Study, Root

\* A stage that succeeded has a module for its output.
LEMMA SuccessHasModule ==
  ASSUME NEW s \in Stages, s.status = "success"
  PROVE  s.output \in Modules
BY DEF Stages, Successes, Stage

\* A run reports a success with a module, or a failure (_verify_with_opt).
LEMMA ReportsTyped ==
  ASSUME study \in DOMAIN Studies, NEW m \in Modules, NEW a \in Actions,
         NEW kinds \in SUBSET VerifiedRun
  PROVE  Reports(m, a, kinds) \subseteq Stages
<1>1. Result(m, a) \in Stages
  <2>1. Studies[study].act[a][m] \in Modules \cup {NoModule}
    BY StudyIsTyped
  <2> QED BY <2>1 DEF Result, Stages, Successes, Stage
<1>2. {Stage("success", s) : s \in Studies[study].strays} \subseteq Stages
  BY StudyIsTyped DEF Stages, Successes
<1>3. {Stage(k, NoModule) : k \in kinds} \subseteq Stages
  BY DEF Stages, VerifiedRun
<1> HIDE DEF Stages
<1> QED BY <1>1, <1>2, <1>3 DEF Reports

\* Misbehaviours are counted.
LEMMA MisbehaveTyped ==
  ASSUME failures \in Nat, NEW n \in Nat, Misbehave(n)
  PROVE  failures' \in Nat
BY DEF Misbehave

\* A stage is charged a number.
LEMMA ChargeTyped ==
  ASSUME NEW m, NEW a, NEW stage
  PROVE  Charge(m, a, stage) \in Nat
BY DEF Charge

\* A question to the client leaves it open or closed.
LEMMA AskTyped ==
  ASSUME failures \in Nat, client \in {"open", "closed"}, NEW right, NEW reply, Ask(right, reply)
  PROVE  failures' \in Nat /\ client' \in {"open", "closed"}
BY DEF Ask, Misbehave

\* A success of the helper is a true one: its answers are checked, and what is
\* not the right answer is an error or closes the client (_request).
LEMMA CompleteIsRight ==
  ASSUME NEW right, Ask(right, "complete")
  PROVE  right = "complete"
BY DEF Ask, FatalKinds, ClosedReply

\* Rows and first stages that are not there yet.
LEMMA NoRowsTyped == NoRows \in [Actions -> Rows] /\ NoFirsts \in [Actions -> Stages]
<1>1. NotRun \in Stages
  BY DEF NotRun, Stages
<1>2. NoRow \in Rows
  BY <1>1 DEF NoRow, Row, Rows, MergeStatuses, FatalKinds
<1> QED BY <1>1, <1>2 DEF NoRows, NoFirsts

\* Nothing is authorised before it is decided.
LEMMA NotAuthorized ==
  ASSUME NEW a \in Actions
  PROVE  ~ Authorized(NoRows, a)
BY DEF Authorized, NoRows, NoRow, Row

-----------------------------------------------------------------------------
\* The actions of the evaluator.

\* A run that ends with another action of the group, or with the last one.
LEMMA GiveUpSound ==
  ASSUME GroupInvariant, NEW d \in {"timeout", "round1_precondition_failed", "direct_merge_not_defined"},
         GiveUp(d), UNCHANGED <<study, members, firsts>>
  PROVE  /\ rows' \in [Actions -> Rows]
         /\ \A a \in members : ~ Authorized(rows', a)
         /\ verdict' = "group_precondition_unavailable" /\ step' = "reported"
<1>1. NoRow \in Rows /\ Unavailable(d) \in Rows
  BY DEF NoRow, Unavailable, Row, Rows, MergeStatuses, FatalKinds, NotRun, Stages, Directions
<1>2. rows' \in [Actions -> Rows]
  BY <1>1 DEF GiveUp
<1>3. members \subseteq Actions
  BY DEF GroupInvariant, TypeOK
<1>4. ASSUME NEW a \in members
      PROVE  ~ Authorized(rows', a)
  <2>1. rows'[a] = Unavailable(d)
    BY <1>3 DEF GiveUp
  <2> QED BY <2>1 DEF Authorized, Unavailable, Row
<1> QED BY <1>2, <1>4 DEF GiveUp

\* One lemma per step of the evaluation: it keeps the invariant.
LEMMA RunFirstSound ==
  ASSUME GroupInvariant, RunFirst, UNCHANGED studyVars
  PROVE  GroupInvariant'
<1> USE DEF GroupInvariant
<1>1. Next1(Unprofiled) \in members /\ members \subseteq Actions
  BY NextIsLeft DEF RunFirst, Unprofiled, TypeOK
<1>2. PICK stage \in Reports(Root, Next1(Unprofiled), VerifiedRun), lost \in {0, 1} :
        /\ Misbehave(lost + Charge(Root, Next1(Unprofiled), stage))
        /\ client' = IF lost = 1 THEN "closed" ELSE client
        /\ firsts' = [firsts EXCEPT ![Next1(Unprofiled)] = stage]
  BY DEF RunFirst
<1>3. stage \in Stages
  BY <1>1, ReportsTyped, StudyIsTyped, VerifiedRun \in SUBSET VerifiedRun DEF TypeOK
<1>4. failures' \in Nat
  <2>1. lost + Charge(Root, Next1(Unprofiled), stage) \in Nat
    BY ChargeTyped
  <2> QED BY <1>2, <2>1, MisbehaveTyped DEF TypeOK
<1>5. firsts' \in [Actions -> Stages]
  BY <1>2, <1>3 DEF TypeOK
<1>6. TypeOK'
  BY <1>2, <1>4, <1>5 DEF TypeOK, RunFirst
<1>7. StudyTyped'
  BY DEF StudyTyped, studyVars, RunFirst
<1>8. rows' = NoRows /\ patched' = {} /\ step' = "profile" /\ members' = members
  BY DEF RunFirst, EvaluationIsSound
<1>9. EvaluationIsSound'
  BY <1>1, <1>8, NotAuthorized DEF EvaluationIsSound, AuthorizationIsEarned
<1> QED BY <1>6, <1>7, <1>9

LEMMA RefuseFirstRoundSound ==
  ASSUME GroupInvariant, RefuseFirstRound, UNCHANGED studyVars
  PROVE  GroupInvariant'
<1>1. PICK d \in {"timeout", "round1_precondition_failed", "direct_merge_not_defined"} : GiveUp(d)
  BY DEF RefuseFirstRound
<1>2. /\ rows' \in [Actions -> Rows] /\ \A a \in members : ~ Authorized(rows', a)
      /\ verdict' = "group_precondition_unavailable" /\ step' = "reported"
  BY <1>1, GiveUpSound DEF RefuseFirstRound
<1>3. TypeOK'
  BY <1>2 DEF RefuseFirstRound, GroupInvariant, TypeOK
<1>4. StudyTyped'
  BY <1>2 DEF RefuseFirstRound, GroupInvariant, StudyTyped, studyVars
<1>5. EvaluationIsSound'
  BY <1>2 DEF RefuseFirstRound, EvaluationIsSound, AuthorizationIsEarned
<1> QED BY <1>3, <1>4, <1>5 DEF GroupInvariant

\* An authorisation stays earned as long as the group, its runs and rows stay.
LEMMA StaysEarned ==
  ASSUME AuthorizationIsEarned, UNCHANGED <<study, members, firsts, rows>>
  PROVE  AuthorizationIsEarned'
BY DEF AuthorizationIsEarned, Outputs, Root

LEMMA AcceptFirstRoundSound ==
  ASSUME GroupInvariant, AcceptFirstRound, UNCHANGED studyVars
  PROVE  GroupInvariant'
<1>1. TypeOK' /\ StudyTyped'
  BY DEF AcceptFirstRound, GroupInvariant, TypeOK, StudyTyped, studyVars
<1>2. rows' = NoRows /\ patched' = {} /\ step' = "inspect" /\ members' = members
  BY DEF AcceptFirstRound, GroupInvariant, EvaluationIsSound
<1>3. \A b \in members : firsts[b].status = "success" /\ firsts[b].output \in Modules
  BY SuccessHasModule DEF AcceptFirstRound, GroupInvariant, TypeOK
<1>4. FirstRoundSucceeded' /\ PatchesAreSound'
  BY <1>2, <1>3 DEF AcceptFirstRound, FirstRoundSucceeded, PatchesAreSound
<1>5. AuthorizationIsEarned'
  BY StaysEarned DEF AcceptFirstRound, GroupInvariant, EvaluationIsSound
<1>6. EvaluationIsSound'
  BY <1>2, <1>4, <1>5 DEF EvaluationIsSound
<1> QED BY <1>1, <1>6 DEF GroupInvariant

LEMMA InspectSound ==
  ASSUME GroupInvariant, Inspect, UNCHANGED studyVars
  PROVE  GroupInvariant'
<1> DEFINE a == Next1(members \ patched)
           right == InspectAnswer(Root, firsts[a].output)
<1>1. step = "inspect" /\ UNCHANGED <<study, members, firsts, merged, second>>
  BY DEF Inspect
<1>2. a \in members \ patched /\ members \subseteq Actions
  BY NextIsLeft DEF Inspect, GroupInvariant, TypeOK
<1>3. PICK reply \in MergeStatuses :
        /\ Ask(right, reply)
        /\ \/ /\ reply = "complete"
              /\ patched' = patched \cup {a}
              /\ UNCHANGED <<step, rows, verdict>>
           \/ /\ reply # "complete"
              /\ GiveUp(IF reply = "timeout" THEN "timeout" ELSE "direct_merge_not_defined")
              /\ UNCHANGED patched
  BY DEF Inspect
<1>4. failures' \in Nat /\ client' \in {"open", "closed"}
  BY <1>3, AskTyped DEF GroupInvariant, TypeOK
<1>5. CASE reply = "complete"
  <2>1. patched' = patched \cup {a} /\ UNCHANGED <<step, rows, verdict>>
    BY <1>3, <1>5
  <2>2. Patchable(Root, firsts[a].output)
    BY <1>3, <1>5, CompleteIsRight DEF InspectAnswer
  <2>3. TypeOK'
    BY <1>1, <1>2, <1>4, <2>1 DEF GroupInvariant, TypeOK
  <2>4. StudyTyped'
    BY <2>1 DEF GroupInvariant, StudyTyped, studyVars
  <2>5. FirstRoundSucceeded' /\ PatchesAreSound'
    BY <1>1, <2>1, <2>2 DEF GroupInvariant, EvaluationIsSound, FirstRoundSucceeded, PatchesAreSound, Root
  <2>6. AuthorizationIsEarned'
    BY <1>1, <2>1, StaysEarned DEF GroupInvariant, EvaluationIsSound
  <2>7. EvaluationIsSound'
    BY <1>1, <2>1, <2>5, <2>6 DEF GroupInvariant, EvaluationIsSound
  <2> QED BY <2>3, <2>4, <2>7 DEF GroupInvariant
<1>6. CASE reply # "complete"
  <2>1. PICK d \in {"timeout", "round1_precondition_failed", "direct_merge_not_defined"} : GiveUp(d)
    BY <1>3, <1>6
  <2>2. /\ rows' \in [Actions -> Rows] /\ \A b \in members : ~ Authorized(rows', b)
        /\ verdict' = "group_precondition_unavailable" /\ step' = "reported"
    BY <1>1, <2>1, GiveUpSound
  <2>3. TypeOK'
    BY <1>1, <1>3, <1>4, <1>6, <2>2 DEF GroupInvariant, TypeOK
  <2>4. StudyTyped'
    BY <2>2, <1>1 DEF GroupInvariant, StudyTyped, studyVars
  <2>5. EvaluationIsSound'
    BY <1>1, <2>2 DEF EvaluationIsSound, AuthorizationIsEarned
  <2> QED BY <2>3, <2>4, <2>5 DEF GroupInvariant
<1> QED BY <1>5, <1>6

LEMMA CheckOverlapSound ==
  ASSUME GroupInvariant, CheckOverlap, UNCHANGED studyVars
  PROVE  GroupInvariant'
<1>1. /\ step = "inspect" /\ patched = members
      /\ UNCHANGED <<study, failures, client, members, firsts, patched, merged, second>>
  BY DEF CheckOverlap
<1>2. CASE Overlap(Root, Outputs, members)
  <2>1. GiveUp("direct_merge_not_defined")
    BY <1>2 DEF CheckOverlap
  <2>2. /\ rows' \in [Actions -> Rows] /\ \A a \in members : ~ Authorized(rows', a)
        /\ verdict' = "group_precondition_unavailable" /\ step' = "reported"
    BY <1>1, <2>1, GiveUpSound
  <2>3. TypeOK'
    BY <1>1, <2>2 DEF GroupInvariant, TypeOK
  <2>4. StudyTyped'
    BY <1>1, <2>2 DEF GroupInvariant, StudyTyped, studyVars
  <2>5. EvaluationIsSound'
    BY <1>1, <2>2 DEF EvaluationIsSound, AuthorizationIsEarned
  <2> QED BY <2>3, <2>4, <2>5 DEF GroupInvariant
<1>3. CASE ~ Overlap(Root, Outputs, members)
  <2>1. step' = "merge" /\ UNCHANGED <<rows, verdict>>
    BY <1>3 DEF CheckOverlap
  <2>2. TypeOK'
    BY <1>1, <2>1 DEF GroupInvariant, TypeOK
  <2>3. StudyTyped'
    BY <1>1, <2>1 DEF GroupInvariant, StudyTyped, studyVars
  <2>4. PatchesAreDisjoint'
    BY <1>1, <1>3 DEF PatchesAreDisjoint, Outputs, Root
  <2>5. FirstRoundSucceeded' /\ PatchesAreSound'
    BY <1>1 DEF GroupInvariant, EvaluationIsSound, FirstRoundSucceeded, PatchesAreSound, Root
  <2>6. AuthorizationIsEarned'
    BY <1>1, <2>1, StaysEarned DEF GroupInvariant, EvaluationIsSound
  <2>7. EvaluationIsSound'
    BY <2>1, <2>4, <2>5, <2>6 DEF EvaluationIsSound
  <2> QED BY <2>2, <2>3, <2>7 DEF GroupInvariant
<1> QED BY <1>2, <1>3

\* The action whose turn it is, and what the others merge to.
LEMMA TurnIsTyped ==
  ASSUME GroupInvariant, step \in {"merge", "second", "compare"}, Undecided # {}
  PROVE  /\ Turn \in members /\ Turn \in Actions
         /\ \A b \in members : Outputs[b] = firsts[b].output /\ Outputs[b] \in Modules
         /\ OthersMerged \in Modules
<1>1. members \subseteq Actions /\ Undecided \subseteq members
  BY DEF GroupInvariant, TypeOK, Undecided
<1>2. Turn \in members /\ Turn \in Actions
  BY <1>1, NextIsLeft DEF Turn
<1>3. \A b \in members : Outputs[b] = firsts[b].output /\ Outputs[b] \in Modules
  BY DEF Outputs, GroupInvariant, EvaluationIsSound, FirstRoundSucceeded
<1>4. Root \in Modules
  BY StudyIsTyped DEF GroupInvariant, TypeOK
<1>5. \A b \in members \ {Turn} : Outputs[b] \in Modules
  BY <1>3
<1>6. OthersMerged \in Modules
  BY <1>4, <1>5, MergeTyped DEF OthersMerged
<1> QED BY <1>2, <1>3, <1>6

\* A row that authorises its action only when that is earned keeps the invariant.
LEMMA DecideSound ==
  ASSUME GroupInvariant, step \in {"merge", "second", "compare"}, Undecided # {},
         NEW row \in Rows, Decide(row),
         failures' \in Nat, client' \in {"open", "closed"},
         UNCHANGED <<study, members, firsts, patched, verdict, studyVars>>,
         row.direction = "authorized_all_others" =>
           /\ row.input = MergeOf(Root, Outputs, members \ {Turn})
           /\ row.run.output = MergeOf(Root, Outputs, members)
  PROVE  GroupInvariant'
<1>1. Turn \in members /\ Turn \in Actions
  BY TurnIsTyped
<1>2. /\ rows' = [rows EXCEPT ![Turn] = row] /\ step' = "merge"
      /\ merged' = NoModule /\ second' = NotRun
  BY DEF Decide
<1>3. NotRun \in Stages
  BY DEF NotRun, Stages
<1>4. rows' \in [Actions -> Rows]
  BY <1>2 DEF GroupInvariant, TypeOK
<1>5. TypeOK'
  BY <1>2, <1>3, <1>4 DEF GroupInvariant, TypeOK
<1>6. StudyTyped'
  BY <1>2 DEF GroupInvariant, StudyTyped, studyVars
<1>7. FirstRoundSucceeded' /\ PatchesAreSound' /\ PatchesAreDisjoint'
  BY DEF GroupInvariant, EvaluationIsSound, FirstRoundSucceeded, PatchesAreSound,
         PatchesAreDisjoint, Outputs, Root
<1>8. AuthorizationIsEarned'
  <2> SUFFICES ASSUME NEW a \in members, Authorized(rows', a)
               PROVE  /\ \A b \in members : firsts[b].status = "success" /\ Patchable(Root, firsts[b].output)
                      /\ ~ Overlap(Root, Outputs, members)
                      /\ rows'[a].input = MergeOf(Root, Outputs, members \ {a})
                      /\ rows'[a].run.output = MergeOf(Root, Outputs, members)
    BY DEF AuthorizationIsEarned, Outputs, Root
  <2>1. /\ \A b \in members : firsts[b].status = "success" /\ Patchable(Root, firsts[b].output)
        /\ ~ Overlap(Root, Outputs, members)
    BY DEF GroupInvariant, EvaluationIsSound, FirstRoundSucceeded, PatchesAreSound, PatchesAreDisjoint
  <2>2. a \in Actions
    BY DEF GroupInvariant, TypeOK
  <2>3. CASE a = Turn
    <3>1. rows'[a] = row
      BY <1>1, <1>2, <2>3 DEF GroupInvariant, TypeOK
    <3>2. row.direction = "authorized_all_others"
      BY <3>1 DEF Authorized
    <3> QED BY <2>1, <2>3, <3>1, <3>2
  <2>4. CASE a # Turn
    <3>1. rows'[a] = rows[a]
      BY <1>2, <2>2, <2>4 DEF GroupInvariant, TypeOK
    <3>2. Authorized(rows, a)
      BY <3>1 DEF Authorized
    <3> QED BY <2>1, <3>1, <3>2 DEF GroupInvariant, EvaluationIsSound, AuthorizationIsEarned
  <2> QED BY <2>3, <2>4
<1>9. EvaluationIsSound'
  BY <1>2, <1>7, <1>8 DEF EvaluationIsSound
<1> QED BY <1>5, <1>6, <1>9 DEF GroupInvariant

LEMMA MergeOthersSound ==
  ASSUME GroupInvariant, MergeOthers, UNCHANGED studyVars
  PROVE  GroupInvariant'
<1>1. step = "merge" /\ Undecided # {} /\ UNCHANGED <<study, members, firsts, patched, verdict>>
  BY DEF MergeOthers
<1>2. PICK reply \in MergeStatuses :
        /\ Ask(MergeAnswer(OthersMerged), reply)
        /\ \/ /\ reply = "complete"
              /\ merged' = OthersMerged
              /\ step' = "second"
              /\ UNCHANGED <<second, rows>>
           \/ /\ reply # "complete"
              /\ Decide(Row(reply, reply, NoModule, NotRun))
  BY DEF MergeOthers
<1>3. failures' \in Nat /\ client' \in {"open", "closed"}
  BY <1>2, AskTyped DEF GroupInvariant, TypeOK
<1>4. CASE reply = "complete"
  <2>1. merged' = OthersMerged /\ step' = "second" /\ UNCHANGED <<second, rows>>
    BY <1>2, <1>4
  <2>2. TypeOK'
    BY <1>1, <1>3, <2>1, TurnIsTyped DEF GroupInvariant, TypeOK
  <2>3. StudyTyped'
    BY <1>1, <2>1 DEF GroupInvariant, StudyTyped, studyVars
  <2>4. FirstRoundSucceeded' /\ PatchesAreSound' /\ PatchesAreDisjoint'
    BY <1>1 DEF GroupInvariant, EvaluationIsSound, FirstRoundSucceeded, PatchesAreSound,
                PatchesAreDisjoint, Outputs, Root
  <2>5. Undecided' # {} /\ merged' = OthersMerged'
    BY <1>1, <2>1 DEF Undecided, OthersMerged, Turn, Outputs, Root
  <2>6. AuthorizationIsEarned'
    BY <1>1, <2>1, StaysEarned DEF GroupInvariant, EvaluationIsSound
  <2>7. EvaluationIsSound'
    BY <2>1, <2>4, <2>5, <2>6 DEF EvaluationIsSound
  <2> QED BY <2>2, <2>3, <2>7 DEF GroupInvariant
<1>5. CASE reply # "complete"
  <2> DEFINE row == Row(reply, reply, NoModule, NotRun)
  <2>1. Decide(row)
    BY <1>2, <1>5
  <2>2. row \in Rows
    BY <1>5 DEF Row, Rows, MergeStatuses, FatalKinds, Directions, NotRun, Stages
  <2>3. row.direction # "authorized_all_others"
    BY DEF Row, MergeStatuses, FatalKinds
  <2> HIDE DEF row
  <2> QED BY <1>1, <1>3, <2>1, <2>2, <2>3, DecideSound
<1> QED BY <1>4, <1>5

LEMMA RunSecondSound ==
  ASSUME GroupInvariant, RunSecond, UNCHANGED studyVars
  PROVE  GroupInvariant'
<1>1. /\ step = "second" /\ Undecided # {} /\ merged = OthersMerged
      /\ UNCHANGED <<study, client, members, firsts, patched, verdict>>
  BY DEF RunSecond, GroupInvariant, EvaluationIsSound
<1>2. PICK stage \in Reports(merged, Turn, VerifiedRun) :
        /\ Misbehave(Charge(merged, Turn, stage))
        /\ \/ /\ stage.status = "success"
              /\ second' = stage
              /\ step' = "compare"
              /\ UNCHANGED <<merged, rows>>
           \/ /\ stage.status # "success"
              /\ Decide(Row(IF stage.status = "timeout" THEN "timeout" ELSE "second_round_failed",
                            "complete", merged, stage))
  BY DEF RunSecond
<1>3. Turn \in Actions /\ merged \in Modules
  BY <1>1, TurnIsTyped
<1>4. stage \in Stages
  BY <1>3, ReportsTyped, VerifiedRun \in SUBSET VerifiedRun DEF GroupInvariant, TypeOK
<1>5. failures' \in Nat
  BY <1>2, ChargeTyped, MisbehaveTyped DEF GroupInvariant, TypeOK
<1>6. CASE stage.status = "success"
  <2>1. second' = stage /\ step' = "compare" /\ UNCHANGED <<merged, rows>>
    BY <1>2, <1>6
  <2>2. TypeOK'
    BY <1>1, <1>4, <1>5, <2>1 DEF GroupInvariant, TypeOK
  <2>3. StudyTyped'
    BY <1>1, <2>1 DEF GroupInvariant, StudyTyped, studyVars
  <2>4. FirstRoundSucceeded' /\ PatchesAreSound' /\ PatchesAreDisjoint'
    BY <1>1 DEF GroupInvariant, EvaluationIsSound, FirstRoundSucceeded, PatchesAreSound,
                PatchesAreDisjoint, Outputs, Root
  <2>5. Undecided' # {} /\ merged' = OthersMerged'
    BY <1>1, <2>1 DEF Undecided, OthersMerged, Turn, Outputs, Root
  <2>6. AuthorizationIsEarned'
    BY <1>1, <2>1, StaysEarned DEF GroupInvariant, EvaluationIsSound
  <2>7. EvaluationIsSound'
    BY <1>6, <2>1, <2>4, <2>5, <2>6 DEF EvaluationIsSound
  <2> QED BY <2>2, <2>3, <2>7 DEF GroupInvariant
<1>7. CASE stage.status # "success"
  <2> DEFINE d == IF stage.status = "timeout" THEN "timeout" ELSE "second_round_failed"
             row == Row(d, "complete", merged, stage)
  <2>1. Decide(row)
    BY <1>2, <1>7
  <2>2. row \in Rows
    BY <1>3, <1>4 DEF Row, Rows, MergeStatuses, FatalKinds, Directions
  <2>3. row.direction # "authorized_all_others"
    BY DEF Row
  <2>4. client' \in {"open", "closed"}
    BY <1>1 DEF GroupInvariant, TypeOK
  <2> HIDE DEF row
  <2> QED BY <1>1, <1>5, <2>1, <2>2, <2>3, <2>4, DecideSound
<1> QED BY <1>6, <1>7

LEMMA CompareEffectSound ==
  ASSUME GroupInvariant, CompareEffect, UNCHANGED studyVars
  PROVE  GroupInvariant'
<1>1. /\ step = "compare" /\ Undecided # {} /\ merged = OthersMerged
      /\ second.status = "success" /\ second.output \in Modules /\ second \in Stages
      /\ UNCHANGED <<study, members, firsts, patched, verdict>>
  BY SuccessHasModule DEF CompareEffect, GroupInvariant, EvaluationIsSound, TypeOK
<1> DEFINE right == InspectAnswer(merged, second.output)
           row(reply) == Row(EffectDirection(reply), "complete", merged, second)
<1>2. PICK reply \in MergeStatuses : Ask(right, reply) /\ Decide(row(reply))
  BY DEF CompareEffect
<1>3. failures' \in Nat /\ client' \in {"open", "closed"}
  BY <1>2, AskTyped DEF GroupInvariant, TypeOK
<1>4. /\ Turn \in members /\ merged \in Modules
      /\ \A b \in members : Outputs[b] = firsts[b].output /\ Outputs[b] \in Modules
  BY <1>1, TurnIsTyped
<1>5. row(reply) \in Rows
  <2>1. EffectDirection(reply) \in Directions
    BY DEF EffectDirection, Directions
  <2> QED BY <1>1, <1>4, <2>1 DEF Row, Rows, MergeStatuses, FatalKinds
<1>6. ASSUME row(reply).direction = "authorized_all_others"
      PROVE  /\ row(reply).input = MergeOf(Root, Outputs, members \ {Turn})
             /\ row(reply).run.output = MergeOf(Root, Outputs, members)
  <2>1. reply = "complete" /\ SameEffect(Root, firsts[Turn].output, merged, second.output)
    BY <1>6 DEF Row, EffectDirection
  <2>2. Patchable(merged, second.output)
    BY <1>2, <2>1, CompleteIsRight DEF InspectAnswer
  <2>3. Root \in Modules
    BY StudyIsTyped DEF GroupInvariant, TypeOK
  <2>4. \A b \in members : Patchable(Root, Outputs[b])
    BY <1>1, <1>4 DEF GroupInvariant, EvaluationIsSound, PatchesAreSound, PatchesAreDisjoint
  <2>5. ~ Overlap(Root, Outputs, members)
    BY <1>1 DEF GroupInvariant, EvaluationIsSound, PatchesAreDisjoint
  <2>6. SameEffect(Root, Outputs[Turn], MergeOf(Root, Outputs, members \ {Turn}), second.output)
    BY <1>1, <1>4, <2>1 DEF OthersMerged
  <2>7. Patchable(MergeOf(Root, Outputs, members \ {Turn}), second.output)
    BY <1>1, <2>2 DEF OthersMerged
  <2>8. second.output = MergeOf(Root, Outputs, members)
    BY <1>1, <1>4, <2>3, <2>4, <2>5, <2>6, <2>7, SameEffectMakesTheMerge
  <2> QED BY <1>1, <2>8 DEF Row, OthersMerged
<1> HIDE DEF row
<1> QED BY <1>1, <1>2, <1>3, <1>5, <1>6, DecideSound

LEMMA FinishGroupSound ==
  ASSUME GroupInvariant, FinishGroup, UNCHANGED studyVars
  PROVE  GroupInvariant'
<1>1. /\ step' = "reported"
      /\ UNCHANGED <<study, failures, client, members, firsts, patched, merged, second, rows>>
  BY DEF FinishGroup
<1>2. verdict' \in {"authorized", "rejected", "unknown", "group_precondition_unavailable"}
  BY DEF FinishGroup, GroupVerdict
<1>3. TypeOK'
  BY <1>1, <1>2 DEF GroupInvariant, TypeOK
<1>4. StudyTyped'
  BY <1>1 DEF FinishGroup, GroupInvariant, StudyTyped, studyVars
<1>5. EvaluationIsSound'
  BY <1>1, StaysEarned DEF GroupInvariant, EvaluationIsSound
<1> QED BY <1>3, <1>4, <1>5 DEF GroupInvariant

-----------------------------------------------------------------------------
\* The actions of the study.

\* A step that leaves the evaluation alone.
LEMMA AsideSound ==
  ASSUME GroupInvariant, UNCHANGED <<study, client, evalVars>>, failures' \in Nat,
         UNCHANGED <<profiles, results>>,
         step # "idle" => phase' = phase \/ phase' \notin {"pairs", "groups"}
  PROVE  GroupInvariant'
<1>1. TypeOK'
  BY DEF GroupInvariant, TypeOK, evalVars
<1>2. StudyTyped'
  BY DEF GroupInvariant, StudyTyped, evalVars
<1>3. AuthorizationIsEarned'
  BY StaysEarned DEF GroupInvariant, EvaluationIsSound, evalVars
<1>4. EvaluationIsSound'
  BY <1>3 DEF GroupInvariant, EvaluationIsSound, evalVars, FirstRoundSucceeded, PatchesAreSound,
              PatchesAreDisjoint, Undecided, OthersMerged, Turn, Outputs, Root
<1> QED BY <1>1, <1>2, <1>4 DEF GroupInvariant

\* The evaluation is forgotten.
LEMMA NotEvaluatedSound ==
  ASSUME NotEvaluated, study' = study, study \in DOMAIN Studies, failures' \in Nat,
         client' \in {"open", "closed"}
  PROVE  TypeOK' /\ EvaluationIsSound' /\ step' = "idle"
<1>1. NotRun \in Stages
  BY DEF NotRun, Stages
<1>2. TypeOK'
  BY <1>1, NoRowsTyped DEF NotEvaluated, TypeOK
<1>3. EvaluationIsSound'
  BY DEF NotEvaluated, EvaluationIsSound, AuthorizationIsEarned
<1> QED BY <1>2, <1>3 DEF NotEvaluated

\* An evaluation begins.
LEMMA EvaluateSound ==
  ASSUME GroupInvariant, NEW A \in SUBSET Actions, NEW fs \in [Actions -> Stages],
         NEW s \in {"profile", "gate"}, Evaluate(A, fs, s),
         study' = study, failures' \in Nat, client' = client, UNCHANGED <<phase, profiles, results>>,
         phase = "groups" => Len(results) < Len(Groups), phase # "pairs"
  PROVE  GroupInvariant'
<1>1. NotRun \in Stages
  BY DEF NotRun, Stages
<1>2. TypeOK'
  BY <1>1, NoRowsTyped DEF Evaluate, GroupInvariant, TypeOK
<1>3. StudyTyped'
  BY DEF GroupInvariant, StudyTyped
<1>4. rows' = NoRows /\ patched' = {} /\ step' = s /\ members' = A
  BY DEF Evaluate
<1>5. AuthorizationIsEarned'
  BY <1>4, NotAuthorized DEF AuthorizationIsEarned
<1>6. EvaluationIsSound'
  BY <1>4, <1>5 DEF EvaluationIsSound
<1> QED BY <1>2, <1>3, <1>6 DEF GroupInvariant

\* One lemma per step of the study around it: it keeps the invariant.
LEMMA StartPairSound ==
  ASSUME GroupInvariant, StartPair
  PROVE  GroupInvariant'
<1>1. failures' \in Nat
  BY MisbehaveTyped, ChargeTyped DEF StartPair, GroupInvariant, TypeOK
<1> QED BY <1>1, AsideSound DEF StartPair

LEMMA SecondOrderSound ==
  ASSUME GroupInvariant, NEW p \in Pairs, SecondOrder(p)
  PROVE  GroupInvariant'
<1>1. failures' \in Nat
  BY MisbehaveTyped, ChargeTyped DEF SecondOrder, GroupInvariant, TypeOK
<1> QED BY <1>1, AsideSound DEF SecondOrder

LEMMA FinishPairSound ==
  ASSUME GroupInvariant, NEW p \in Pairs, FinishPair(p)
  PROVE  GroupInvariant'
<1>1. failures' \in Nat
  BY MisbehaveTyped DEF FinishPair, GroupInvariant, TypeOK
<1> QED BY <1>1, AsideSound DEF FinishPair

LEMMA PublishPairsSound ==
  ASSUME GroupInvariant, PublishPairs
  PROVE  GroupInvariant'
<1>1. failures' \in Nat /\ step = "idle"
  BY DEF PublishPairs, GroupInvariant, TypeOK, StudyTyped
<1> QED BY <1>1, AsideSound DEF PublishPairs

LEMMA StartProfilesSound ==
  ASSUME GroupInvariant, StartProfiles
  PROVE  GroupInvariant'
<1>1. Evaluate(Actions, NoFirsts, "profile") /\ phase = "profiles"
      /\ UNCHANGED <<study, failures, client, phase, profiles, results>>
  BY DEF StartProfiles, studyVars
<1>2. failures' \in Nat
  BY <1>1 DEF GroupInvariant, TypeOK
<1> QED BY <1>1, <1>2, NoRowsTyped, EvaluateSound, Actions \in SUBSET Actions

LEMMA PublishProfilesSound ==
  ASSUME GroupInvariant, PublishProfiles
  PROVE  GroupInvariant'
<1>1. /\ profiles' = firsts /\ phase' = "pairs" /\ NotEvaluated
      /\ UNCHANGED <<study, failures, client, results>>
  BY DEF PublishProfiles
<1>2. TypeOK' /\ EvaluationIsSound' /\ step' = "idle"
  BY <1>1, NotEvaluatedSound DEF GroupInvariant, TypeOK
<1>3. StudyTyped'
  BY <1>1, <1>2 DEF GroupInvariant, TypeOK, StudyTyped
<1> QED BY <1>2, <1>3 DEF GroupInvariant

LEMMA StartGroupSound ==
  ASSUME GroupInvariant, StartGroup
  PROVE  GroupInvariant'
<1> DEFINE A == Groups[Len(results) + 1]
           fs == Only(A, profiles)
<1>1. /\ phase = "groups" /\ Len(results) < Len(Groups) /\ Evaluate(A, fs, "gate")
      /\ UNCHANGED <<study, failures, client, phase, profiles, results>>
  BY DEF StartGroup, studyVars
<1>2. A \in SUBSET Actions
  BY <1>1, GroupsAssumption DEF GroupInvariant, StudyTyped
<1>3. fs \in [Actions -> Stages]
  BY DEF Only, NotRun, Stages, GroupInvariant, StudyTyped
<1>4. failures' \in Nat
  BY <1>1 DEF GroupInvariant, TypeOK
<1> HIDE DEF A, fs
<1> QED BY <1>1, <1>2, <1>3, <1>4, EvaluateSound

LEMMA PublishGroupSound ==
  ASSUME GroupInvariant, PublishGroup
  PROVE  GroupInvariant'
<1> DEFINE Result1 == [rows : [Actions -> Rows],
                       verdict : {"none", "authorized", "rejected", "unknown",
                                  "group_precondition_unavailable"}]
<1>1. /\ phase = "groups" /\ step = "reported" /\ NotEvaluated
      /\ results' = Append(results, [rows |-> rows, verdict |-> verdict])
      /\ phase' = IF Len(results) + 1 = Len(Groups) THEN "replay" ELSE "groups"
      /\ UNCHANGED <<study, failures, client, profiles>>
  BY DEF PublishGroup
<1>2. TypeOK' /\ EvaluationIsSound' /\ step' = "idle"
  BY <1>1, NotEvaluatedSound DEF GroupInvariant, TypeOK
<1>3. [rows |-> rows, verdict |-> verdict] \in Result1
  BY DEF GroupInvariant, TypeOK
<1>4. results \in Seq(Result1) /\ Len(results) < Len(Groups) /\ Len(Groups) \in Nat
  BY <1>1, GroupsAssumption DEF GroupInvariant, StudyTyped
<1>5. results' \in Seq(Result1) /\ Len(results') = Len(results) + 1
  <2> HIDE DEF Result1
  <2> QED BY <1>1, <1>3, <1>4
<1>6. StudyTyped'
  BY <1>1, <1>2, <1>4, <1>5 DEF GroupInvariant, StudyTyped
<1> QED BY <1>2, <1>6 DEF GroupInvariant

\* The case under way is of a group, an action of it and a pair.
LEMMA CaseIsTyped ==
  ASSUME GroupInvariant, OpenCases # {}
  PROVE  Groups[Case1[1]] \in SUBSET Actions
<1>1. \A c \in Cases : c \in Nat \X Nat \X Nat \X Nat /\ c[1] \in DOMAIN results
  <2> SUFFICES ASSUME NEW x \in FalseAuthorizations, NEW c \in CasesOf(x[1], x[2])
               PROVE  c \in Nat \X Nat \X Nat \X Nat /\ c[1] \in DOMAIN results
    BY DEF Cases
  <2>1. x[1] \in DOMAIN results /\ x[2] \in Pairs
    BY DEF FalseAuthorizations
  <2>2. DOMAIN results \subseteq Nat
    BY DEF GroupInvariant, StudyTyped
  <2>3. x[2][1] \in Nat /\ x[2][2] \in Nat
    BY <2>1, StudyAssumption DEF Pairs
  <2>4. PICK d \in {x[2][1], x[2][2]} : c = <<x[1], x[2][1], x[2][2], d>>
    BY DEF CasesOf
  <2> QED BY <2>1, <2>2, <2>3, <2>4
<1>2. OpenCases \in SUBSET (Nat \X Nat \X Nat \X Nat)
  BY <1>1 DEF OpenCases
<1>3. Case1 \in OpenCases
  BY <1>2, FirstIsLeft DEF Case1
<1>4. Case1[1] \in DOMAIN results
  BY <1>1, <1>3 DEF OpenCases
<1>5. DOMAIN results \subseteq 1 .. Len(Groups)
  BY GroupsAssumption DEF GroupInvariant, StudyTyped
<1> QED BY <1>4, <1>5, GroupsAssumption

LEMMA ReplayPairSound ==
  ASSUME GroupInvariant, ReplayPair
  PROVE  GroupInvariant'
<1>1. /\ phase = "replay" /\ OpenCases # {}
      /\ UNCHANGED <<study, client, phase, profiles, results>>
  BY DEF ReplayPair
<1>2. PICK n \in Nat : Misbehave(n)
  <2>1. PICK sa, sb, sab, sba :
          Misbehave(Charge(Root, Case1[2], sa) + Charge(Root, Case1[3], sb)
                      + OnwardCharge(sa, Case1[3], sab) + OnwardCharge(sb, Case1[2], sba))
    BY DEF ReplayPair
  <2>2. /\ Charge(Root, Case1[2], sa) \in Nat /\ Charge(Root, Case1[3], sb) \in Nat
        /\ OnwardCharge(sa, Case1[3], sab) \in Nat /\ OnwardCharge(sb, Case1[2], sba) \in Nat
    BY ChargeTyped DEF OnwardCharge
  <2> QED BY <2>1, <2>2
<1>3. failures' \in Nat
  BY <1>2, MisbehaveTyped DEF GroupInvariant, TypeOK
<1>4. UNCHANGED evalVars \/ Evaluate(Groups[Case1[1]], NoFirsts, "profile")
  BY DEF ReplayPair
<1>5. CASE UNCHANGED evalVars
  BY <1>1, <1>3, <1>5, AsideSound
<1>6. CASE Evaluate(Groups[Case1[1]], NoFirsts, "profile")
  BY <1>1, <1>3, <1>6, CaseIsTyped, NoRowsTyped, EvaluateSound
<1> QED BY <1>4, <1>5, <1>6

LEMMA ReplayRuleSound ==
  ASSUME GroupInvariant, ReplayRule
  PROVE  GroupInvariant'
<1>1. /\ phase = "replay" /\ step = "profile" /\ step' = "gate"
      /\ UNCHANGED <<study, failures, client, members, firsts, patched, merged, second, rows,
                     verdict, phase, profiles, results>>
  BY DEF ReplayRule, studyVars
<1>2. TypeOK' /\ StudyTyped'
  BY <1>1 DEF GroupInvariant, TypeOK, StudyTyped
<1>3. AuthorizationIsEarned'
  BY <1>1, StaysEarned DEF GroupInvariant, EvaluationIsSound
<1>4. EvaluationIsSound'
  BY <1>1, <1>3 DEF GroupInvariant, EvaluationIsSound
<1> QED BY <1>2, <1>4 DEF GroupInvariant

LEMMA FinishReplaySound ==
  ASSUME GroupInvariant, FinishReplay
  PROVE  GroupInvariant'
<1>1. NotEvaluated /\ UNCHANGED <<study, failures, client, phase, profiles, results>>
  BY DEF FinishReplay
<1>2. TypeOK' /\ EvaluationIsSound' /\ step' = "idle"
  BY <1>1, NotEvaluatedSound DEF GroupInvariant, TypeOK
<1>3. StudyTyped'
  BY <1>1, <1>2 DEF GroupInvariant, StudyTyped
<1> QED BY <1>2, <1>3 DEF GroupInvariant

LEMMA PublishReplaySound ==
  ASSUME GroupInvariant, PublishReplay
  PROVE  GroupInvariant'
<1>1. failures' \in Nat
  BY DEF PublishReplay, GroupInvariant, TypeOK
<1> QED BY <1>1, AsideSound DEF PublishReplay

LEMMA FinishSound ==
  ASSUME GroupInvariant, Finish
  PROVE  GroupInvariant'
<1>1. failures' \in Nat
  BY DEF Finish, GroupInvariant, TypeOK
<1> QED BY <1>1, AsideSound DEF Finish

LEMMA RestartSound ==
  ASSUME GroupInvariant, Restart
  PROVE  GroupInvariant'
<1>1. /\ Misbehave(1) /\ client' = "open" /\ NotEvaluated
      /\ UNCHANGED <<study, phase, profiles, results>>
  BY DEF Restart
<1>2. failures' \in Nat
  BY <1>1, MisbehaveTyped DEF GroupInvariant, TypeOK
<1>3. TypeOK' /\ EvaluationIsSound' /\ step' = "idle"
  BY <1>1, <1>2, NotEvaluatedSound DEF GroupInvariant, TypeOK
<1>4. StudyTyped'
  BY <1>1, <1>3 DEF GroupInvariant, StudyTyped
<1> QED BY <1>3, <1>4 DEF GroupInvariant

-----------------------------------------------------------------------------
\* The theorems.

\* The invariant holds of a study that has not begun.
LEMMA GroupInit ==
  ASSUME Init
  PROVE  GroupInvariant
<1>1. NotRun \in Stages
  BY DEF NotRun, Stages
<1>2. TypeOK
  BY <1>1, NoRowsTyped DEF Init, TypeOK
<1>3. StudyTyped
  BY NoRowsTyped, GroupsAssumption DEF Init, StudyTyped
<1>4. EvaluationIsSound
  BY DEF Init, EvaluationIsSound, AuthorizationIsEarned
<1> QED BY <1>2, <1>3, <1>4 DEF GroupInvariant

\* Every step of the study keeps the invariant, one case per action.
LEMMA GroupStep ==
  ASSUME GroupInvariant, [Next]_vars
  PROVE  GroupInvariant'
<1>1. CASE EvaluationStep /\ UNCHANGED studyVars
  BY <1>1, RunFirstSound, RefuseFirstRoundSound, AcceptFirstRoundSound, InspectSound,
     CheckOverlapSound, MergeOthersSound, RunSecondSound, CompareEffectSound, FinishGroupSound
     DEF EvaluationStep
<1>2. CASE StartProfiles \/ PublishProfiles \/ StartGroup \/ PublishGroup
  BY <1>2, StartProfilesSound, PublishProfilesSound, StartGroupSound, PublishGroupSound
<1>3. CASE StartPair \/ \E p \in Pairs : SecondOrder(p) \/ FinishPair(p)
  BY <1>3, StartPairSound, SecondOrderSound, FinishPairSound
<1>4. CASE PublishPairs \/ Finish \/ Restart
  BY <1>4, PublishPairsSound, FinishSound, RestartSound
<1>5. CASE ReplayPair \/ ReplayRule \/ FinishReplay \/ PublishReplay
  BY <1>5, ReplayPairSound, ReplayRuleSound, FinishReplaySound, PublishReplaySound
<1>6. CASE UNCHANGED vars
  <2>1. failures' \in Nat
    BY <1>6 DEF vars, GroupInvariant, TypeOK
  <2> QED BY <1>6, <2>1, AsideSound DEF vars, studyVars
<1> QED BY <1>1, <1>2, <1>3, <1>4, <1>5, <1>6 DEF Next, Done

\* The invariant of every step of every evaluation, and the types.
THEOREM GroupInvariantHolds == Spec => []GroupInvariant
<1>1. Init => GroupInvariant
  BY GroupInit
<1>2. GroupInvariant /\ [Next]_vars => GroupInvariant'
  BY GroupStep
<1> QED BY <1>1, <1>2, PTL DEF Spec

\* Every variable of the study keeps its type, whatever misbehaves (study.py,
\* group_direct_2n.py).
THEOREM GroupTypeCorrect == Spec => []TypeOK
<1>1. GroupInvariant => TypeOK
  BY DEF GroupInvariant
<1> QED BY <1>1, GroupInvariantHolds, PTL

\* Whatever misbehaves and however often: an action is authorised only when it
\* made the merge of the group of the merge of the others (evaluate_group_2n).
THEOREM AuthorizationsAreEarned == Spec => []AuthorizationIsEarned
<1>1. GroupInvariant => AuthorizationIsEarned
  BY DEF GroupInvariant, EvaluationIsSound
<1> QED BY <1>1, GroupInvariantHolds, PTL

\* In a group of two, two authorised actions commute on the root as they ran.
LEMMA EarnedPairsCommute ==
  ASSUME TypeOK, AuthorizationIsEarned
  PROVE  PairsOfTwoCommute
<1> SUFFICES ASSUME NEW a \in members, NEW b \in members, a # b, members = {a, b},
                    Authorized(rows, a), Authorized(rows, b)
             PROVE  /\ rows[a].input = firsts[b].output
                    /\ rows[b].input = firsts[a].output
                    /\ rows[a].run.output = rows[b].run.output
  BY DEF PairsOfTwoCommute
<1>1. Root \in Modules
  BY StudyIsTyped DEF TypeOK
<1>2. \A c \in members : /\ Outputs[c] = firsts[c].output /\ Outputs[c] \in Modules
                         /\ Patchable(Root, Outputs[c])
  <2>1. \A c \in members : firsts[c].status = "success" /\ Patchable(Root, firsts[c].output)
    BY DEF AuthorizationIsEarned
  <2>2. \A c \in members : firsts[c] \in Stages
    BY DEF TypeOK
  <2> QED BY <2>1, <2>2, SuccessHasModule DEF Outputs
<1>3. members \ {a} = {b} /\ members \ {b} = {a}
  OBVIOUS
<1>4. rows[a].input = MergeOf(Root, Outputs, {b}) /\ rows[b].input = MergeOf(Root, Outputs, {a})
  BY <1>3 DEF AuthorizationIsEarned
<1>5. rows[a].run.output = rows[b].run.output
  BY DEF AuthorizationIsEarned
<1>6. MergeOf(Root, Outputs, {b}) = firsts[b].output
  <2>1. Outputs[b] \in Modules /\ Patchable(Root, Outputs[b])
    BY <1>2
  <2>2. MergeOf(Root, Outputs, {b}) = Outputs[b]
    BY <1>1, <2>1, MergeOfOne
  <2> QED BY <1>2, <2>2
<1>7. MergeOf(Root, Outputs, {a}) = firsts[a].output
  <2>1. Outputs[a] \in Modules /\ Patchable(Root, Outputs[a])
    BY <1>2
  <2>2. MergeOf(Root, Outputs, {a}) = Outputs[a]
    BY <1>1, <2>1, MergeOfOne
  <2> QED BY <1>2, <2>2
<1> QED BY <1>4, <1>5, <1>6, <1>7

\* Two actions that are authorised in a group of two gave one module in both
\* orders, on the root as they ran (evaluate_group_2n).
THEOREM AuthorizedPairsCommute == Spec => []PairsOfTwoCommute
<1>1. GroupInvariant => PairsOfTwoCommute
  BY EarnedPairsCommute DEF GroupInvariant, EvaluationIsSound
<1> QED BY <1>1, GroupInvariantHolds, PTL

-----------------------------------------------------------------------------
\* The inductive invariant of the study: where its stages stand.

\* Each phase and the evaluation it may have under way.
PhaseIsOrdered ==
  /\ phase \in {"profiles", "pairs", "groups", "replay", "done"}
  /\ phase = "profiles" => /\ step \in {"idle", "profile"}
                           /\ step = "profile" => members = Actions
                           /\ pairs = NoPairs
  /\ phase \in {"profiles", "pairs"} => results = <<>>
  /\ phase \in {"profiles", "pairs", "groups"} => replays = <<>> /\ records = <<>>
  /\ phase \notin {"profiles", "pairs"} => \A p \in Pairs : pairs[p].dynamic # "open"
  /\ phase # "profiles" => \A a \in Actions : profiles[a] # NotRun
  /\ phase = "groups" /\ step # "idle" =>
       /\ step # "profile"
       /\ members = Groups[Len(results) + 1] /\ firsts = Only(members, profiles)
  /\ phase = "replay" /\ step # "idle" =>
       /\ OpenCases # {} /\ members = Groups[Case1[1]]
       /\ Len(records) \in {4, 5}
       /\ step # "profile" => Unprofiled = {}
  /\ records # <<>> => OpenCases # {}
  /\ phase = "done" => OpenCases = {} /\ step = "idle"

\* A row of the matrix waits, runs or has its result.
PairIsOrdered(p) ==
  \/ Waiting(p)
  \/ /\ Profiled(p) /\ pairs[p].ab # NotRun
     /\ \/ pairs[p].dynamic = "open"
        \/ /\ pairs[p].ba # NotRun
           /\ pairs[p].dynamic \in
                {"unknown", Classify(pairs[p].ab, pairs[p].ba, pairs[p].ab.output = pairs[p].ba.output)}
  \/ /\ ~ Profiled(p) /\ pairs[p].ab = NotRun /\ pairs[p].ba = NotRun
     /\ pairs[p].dynamic = Classify(profiles[p[1]], profiles[p[2]], TRUE)

MatrixIsOrdered ==
  /\ DOMAIN pairs = Pairs
  /\ \A p \in Pairs : pairs[p] = Pair(pairs[p].ab, pairs[p].ba, pairs[p].dynamic)
  /\ \A p \in Pairs : PairIsOrdered(p)

\* An authorisation is of a group all of whose actions succeeded, and of a
\* merge that the verifier accepts.
AuthorizedAfterSuccess ==
  \A g \in DOMAIN results : \A a \in Groups[g] :
    Authorized(results[g].rows, a) => \A b \in Groups[g] : profiles[b].status = "success"

MergesAreValid ==
  /\ step \in {"second", "compare"} => merged \notin Studies[study].broken
  /\ \A a \in members : Authorized(rows, a) => rows[a].input \notin Studies[study].broken

ReplaysAreOrdered ==
  /\ \E S : records \in Seq(S)
  /\ Len(records) <= Len(Schedule)
  /\ \A c \in DOMAIN replays : DOMAIN replays[c] = {"worker", "external_opt", "two_n"}

StudyIsOrdered ==
  PhaseIsOrdered /\ MatrixIsOrdered /\ AuthorizedAfterSuccess /\ MergesAreValid /\ ReplaysAreOrdered

-----------------------------------------------------------------------------
\* How often something must have misbehaved.

\* What a runs on the root, and then b, come to.
TrueOrder(a, b) ==
  IF Result(Root, a).status = "success" THEN Result(Result(Root, a).output, b) ELSE NotRun
TrueStages(c) == <<Result(Root, c[2]), Result(Root, c[3]), TrueOrder(c[2], c[3]), TrueOrder(c[3], c[2])>>

\* No run of the evaluation reported anything but its result.
RunsAreHonest ==
  /\ \A a \in members : firsts[a] \in {NotRun, Result(Root, a)}
  /\ step = "compare" => second = Result(merged, Turn)
  /\ \A a \in members : Authorized(rows, a) => rows[a].run = Result(rows[a].input, a)

PairIsHonest(p) ==
  Profiled(p) =>
    /\ pairs[p].ab \in {NotRun, Result(profiles[p[1]].output, p[2])}
    /\ pairs[p].ba \in {NotRun, Result(profiles[p[2]].output, p[1])}

\* Nothing that is published is wrong, but for what was refused.
PublishedIsHonest ==
  /\ phase # "profiles" => \A a \in Actions : profiles[a] = Result(Root, a)
  /\ \A p \in Pairs : PairIsHonest(p)
  /\ \A g \in DOMAIN results : \A a \in Groups[g] :
       Authorized(results[g].rows, a) => TrulyAuthorized(Groups[g], a)

\* A two_n replay that agrees with the group is one of true runs.
ReplayIsHonest(i) ==
  Len(records) >= i /\ records[i].status = "success" =>
    /\ records[i].stages = TrueStages(Case1)
    /\ TrulyAuthorized(Groups[Case1[1]], Case1[4])

StageIsHonest == PublishedIsHonest /\ (phase \notin {"replay", "done"} => RunsAreHonest)
RuleIsHonest == phase = "replay" /\ step # "idle" => orders = TrueStages(Case1) /\ RunsAreHonest

Blame(honest) == IF honest THEN 0 ELSE 1

\* The published stages, each of the two replays of the rule and the one under
\* way are wrong only by a misbehaviour of their own.
MisbehaviourIsCharged ==
  failures >= Blame(StageIsHonest) + Blame(ReplayIsHonest(5)) + Blame(ReplayIsHonest(6))
                + Blame(RuleIsHonest)

CaseIsReal(c) ==
  /\ pairs[<<c[2], c[3]>>].dynamic = TrueDynamic(<<c[2], c[3]>>)
  /\ TrulyAuthorized(Groups[c[1]], c[4])

StableReplaysAreReal ==
  \A c \in DOMAIN replays :
    c \in Cases /\ (failures < 3 /\ replays[c].two_n = "stable" => CaseIsReal(c))

BlameInvariant == StudyIsOrdered /\ MisbehaviourIsCharged /\ StableReplaysAreReal

-----------------------------------------------------------------------------
\* When nothing misbehaved.

\* The row of action a when nothing misbehaves.
TrueRow(A, a) ==
  LET output == [b \in A |-> Applied(b)[Root]]
      others == MergeOf(Root, output, A \ {a})
      run == Result(others, a)
  IN CASE \E b \in A : output[b] = NoModule -> Unavailable("round1_precondition_failed")
       [] /\ \A b \in A : output[b] # NoModule
          /\ (\E b \in A : ~ Patchable(Root, output[b])) \/ Overlap(Root, output, A) ->
            Unavailable("direct_merge_not_defined")
       [] OTHER ->
            IF others \in Studies[study].broken
              THEN Row("merge_invalid", "merge_invalid", NoModule, NotRun)
            ELSE IF run.status # "success" THEN Row("second_round_failed", "complete", others, run)
            ELSE Row(IF ~ Patchable(others, run.output) THEN "unknown"
                     ELSE IF SameEffect(Root, output[a], others, run.output)
                            THEN "authorized_all_others" ELSE "rejected_effect_changed",
                     "complete", others, run)

EvaluationIsTrue ==
  /\ \A a \in members : rows[a] \in {NoRow, TrueRow(members, a)}
  /\ step = "reported" => \A a \in members : rows[a] # NoRow

ResultsAreTrue ==
  \A g \in DOMAIN results : \A a \in Groups[g] : results[g].rows[a] = TrueRow(Groups[g], a)

RecordsAreTrue ==
  \A i \in 1 .. Len(records) :
    records[i] = Record("success", Expected(Case1),
                        IF i <= 4 THEN NoRule ELSE RuleOf(profiles, results[Case1[1]].rows, Case1))

ReplaysAreStable == \A c \in DOMAIN replays : \A f \in DOMAIN replays[c] : replays[c][f] = "stable"

AllIsTrue ==
  /\ client = "open"
  /\ \A p \in Pairs : pairs[p].dynamic # "unknown"
  /\ EvaluationIsTrue /\ ResultsAreTrue /\ RecordsAreTrue /\ ReplaysAreStable

NothingMisbehaved == failures = 0 => AllIsTrue

\* The converse of SameEffectMakesTheMerge: in the merge of the whole group an
\* action has done to the merge of the others what it did to the root.
LEMMA MergeHasTheEffect ==
  ASSUME NEW root \in Modules, NEW A, NEW output, NEW a \in A,
         \A b \in A : output[b] \in Modules /\ Patchable(root, output[b]),
         ~ Overlap(root, output, A)
  PROVE  /\ Patchable(MergeOf(root, output, A \ {a}), MergeOf(root, output, A))
         /\ SameEffect(root, output[a], MergeOf(root, output, A \ {a}), MergeOf(root, output, A))
<1> DEFINE others == MergeOf(root, output, A \ {a})
           all == MergeOf(root, output, A)
<1>1. Patchable(others, all)
  BY DEF MergeOf, Patchable
<1>2. ASSUME NEW f \in Functions, f \in Changed(root, output[a])
      PROVE  others.body[f] = root.body[f] /\ all.body[f] = output[a].body[f]
  <2>1. \A b \in A \ {a} : f \notin Changed(root, output[b])
    BY <1>2, OneChanger
  <2>2. others.body[f] = root.body[f]
    BY <2>1, MergedRest
  <2>3. all.body[f] = output[a].body[f]
    BY <1>2, MergedChange, A \in SUBSET A
  <2> QED BY <2>2, <2>3
<1>3. ASSUME NEW f \in Functions, f \notin Changed(root, output[a])
      PROVE  all.body[f] = others.body[f]
  <2>1. CASE \E b \in A : f \in Changed(root, output[b])
    <3>1. PICK b \in A : f \in Changed(root, output[b])
      BY <2>1
    <3>2. b \in A \ {a} /\ A \ {a} \in SUBSET A
      BY <1>3, <3>1
    <3>3. others.body[f] = output[b].body[f]
      BY <3>1, <3>2, MergedChange
    <3>4. all.body[f] = output[b].body[f]
      BY <3>1, MergedChange, A \in SUBSET A
    <3> QED BY <3>3, <3>4
  <2>2. CASE \A b \in A : f \notin Changed(root, output[b])
    <3>1. others.body[f] = root.body[f]
      BY <2>2, MergedRest, \A b \in A \ {a} : f \notin Changed(root, output[b])
    <3>2. all.body[f] = root.body[f]
      BY <2>2, MergedRest
    <3> QED BY <3>1, <3>2
  <2> QED BY <2>1, <2>2
<1>4. Changed(root, output[a]) = Changed(others, all)
  <2>1. \A f \in Functions : f \in Changed(root, output[a]) <=> others.body[f] # all.body[f]
    BY <1>2, <1>3 DEF Changed
  <2> QED BY <2>1 DEF Changed
<1>5. Patch(root, output[a]) = Patch(others, all)
  <2>1. \A f \in Changed(root, output[a]) :
          <<root.body[f], output[a].body[f]>> = <<others.body[f], all.body[f]>>
    BY <1>2 DEF Changed
  <2> HIDE DEF others, all
  <2> QED BY <1>4, <2>1 DEF Patch
<1>6. ProtectedPreserved(root, others, all)
  <2> SUFFICES ASSUME NEW f \in Functions, root.body[f] # others.body[f]
               PROVE  all.body[f] = others.body[f]
    BY DEF ProtectedPreserved, Changed
  <2> QED BY <1>2, <1>3
<1> HIDE DEF others, all
<1>7. SameEffect(root, output[a], others, all)
  BY <1>5, <1>6 DEF SameEffect
<1> QED BY <1>1, <1>7 DEF others, all

\* What the compiler makes of a module is a success or an error.
LEMMA ResultTyped ==
  ASSUME study \in DOMAIN Studies, NEW m \in Modules, NEW a \in Actions
  PROVE  /\ Result(m, a) \in Stages /\ Result(m, a) # NotRun
         /\ Result(m, a).status \in {"success", "error"}
         /\ Result(m, a).status = "success" <=> Applied(a)[m] # NoModule
         /\ Result(m, a).status = "success" => Result(m, a).output = Applied(a)[m]
         /\ Applied(a)[m] = NoModule => Result(m, a) = Stage("error", NoModule)
         /\ Applied(a)[m] \in Modules \cup {NoModule}
<1>1. Applied(a)[m] \in Modules \cup {NoModule}
  BY StudyIsTyped DEF Applied
<1>2. CASE Applied(a)[m] = NoModule
  <2>1. Result(m, a) = Stage("error", NoModule)
    BY <1>2 DEF Result, Applied
  <2> QED BY <1>1, <1>2, <2>1 DEF Stage, Stages, NotRun
<1>3. CASE Applied(a)[m] # NoModule
  <2>1. Result(m, a) = Stage("success", Applied(a)[m]) /\ Applied(a)[m] \in Modules
    BY <1>1, <1>3 DEF Result, Applied
  <2> QED BY <1>1, <1>3, <2>1 DEF Stage, Stages, Successes, NotRun
<1> QED BY <1>2, <1>3

\* The outputs of honest first runs that succeeded are what the passes make.
LEMMA HonestOutputs ==
  ASSUME TypeOK, NEW A \in SUBSET Actions, NEW fs \in [Actions -> Stages],
         \A b \in A : fs[b] = Result(Root, b) /\ fs[b].status = "success"
  PROVE  /\ [b \in A |-> fs[b].output] = [b \in A |-> Applied(b)[Root]]
         /\ \A b \in A : Applied(b)[Root] \in Modules /\ Applied(b)[Root] = fs[b].output
<1>1. study \in DOMAIN Studies /\ Root \in Modules
  BY StudyIsTyped DEF TypeOK
<1>2. ASSUME NEW b \in A
      PROVE  Applied(b)[Root] \in Modules /\ Applied(b)[Root] = fs[b].output
  <2>1. fs[b].status = "success" /\ fs[b] = Result(Root, b)
    OBVIOUS
  <2> QED BY <1>1, <2>1, ResultTyped
<1> QED BY <1>2

\* An authorisation in an evaluation of true runs is a true one.
LEMMA HonestAuthorization ==
  ASSUME GroupInvariant, MergesAreValid, RunsAreHonest, NEW a \in members, Authorized(rows, a)
  PROVE  TrulyAuthorized(members, a)
<1>1. TypeOK /\ study \in DOMAIN Studies /\ Root \in Modules /\ members \in SUBSET Actions /\ a \in Actions
      /\ firsts \in [Actions -> Stages]
  BY StudyIsTyped DEF GroupInvariant, TypeOK
<1>2. /\ \A b \in members : firsts[b].status = "success" /\ Patchable(Root, firsts[b].output)
      /\ ~ Overlap(Root, Outputs, members)
      /\ rows[a].input = MergeOf(Root, Outputs, members \ {a})
      /\ rows[a].run.output = MergeOf(Root, Outputs, members)
  BY DEF GroupInvariant, EvaluationIsSound, AuthorizationIsEarned
<1>3. \A b \in members : firsts[b] = Result(Root, b)
  BY <1>2 DEF RunsAreHonest, NotRun, Stage
<1> DEFINE output == [b \in members |-> Applied(b)[Root]]
           others == MergeOf(Root, output, members \ {a})
           all == MergeOf(Root, output, members)
<1>4. Outputs = output /\ \A b \in members : Applied(b)[Root] \in Modules /\ Applied(b)[Root] = firsts[b].output
  BY <1>1, <1>2, <1>3, HonestOutputs DEF Outputs
<1>5. \A b \in members : output[b] \in Modules
  BY <1>4
<1> HIDE DEF output
<1>6. others \in Modules /\ all \in Modules
  BY <1>1, <1>5, MergeTyped, \A b \in members \ {a} : output[b] \in Modules
<1>7. rows[a].input = others /\ rows[a].run.output = all
  BY <1>2, <1>4
<1>8. rows[a].run = Result(others, a) /\ others \notin Studies[study].broken
  BY <1>7 DEF RunsAreHonest, MergesAreValid
<1>9. Applied(a)[others] = all
  <2>1. all # NoModule
    BY <1>6, StudyAssumption
  <2>2. Applied(a)[others] # NoModule
    BY <1>1, <1>6, <1>7, <1>8, <2>1, ResultTyped DEF Stage
  <2> QED BY <1>1, <1>6, <1>7, <1>8, <2>2, ResultTyped
<1>10. \A b \in members : output[b] # NoModule /\ Patchable(Root, output[b])
  BY <1>2, <1>4, <1>5, StudyAssumption DEF Outputs
<1>11. ~ Overlap(Root, output, members)
  BY <1>2, <1>4
<1> QED BY <1>8, <1>9, <1>10, <1>11 DEF TrulyAuthorized, output

\* The row of an action when nothing misbehaves authorises it just if it makes
\* the merge of the group.
LEMMA TrueRowIsRight ==
  ASSUME TypeOK, NEW A \in SUBSET Actions, NEW a \in A
  PROVE  TrueRow(A, a).direction = "authorized_all_others" <=> TrulyAuthorized(A, a)
<1> DEFINE output == [b \in A |-> Applied(b)[Root]]
           others == MergeOf(Root, output, A \ {a})
           all == MergeOf(Root, output, A)
           run == Result(others, a)
<1>1. study \in DOMAIN Studies /\ Root \in Modules /\ a \in Actions
  BY StudyIsTyped DEF TypeOK
<1>2. \A b \in A : output[b] = Applied(b)[Root] /\ output[b] \in Modules \cup {NoModule}
  BY <1>1, StudyIsTyped DEF Applied
<1>3. CASE \E b \in A : output[b] = NoModule
  <2>1. TrueRow(A, a) = Unavailable("round1_precondition_failed")
    BY <1>3 DEF TrueRow
  <2>2. ~ TrulyAuthorized(A, a)
    BY <1>3 DEF TrulyAuthorized
  <2> QED BY <2>1, <2>2 DEF Unavailable, Row
<1>4. CASE /\ \A b \in A : output[b] # NoModule
           /\ (\E b \in A : ~ Patchable(Root, output[b])) \/ Overlap(Root, output, A)
  <2>1. TrueRow(A, a) = Unavailable("direct_merge_not_defined")
    BY <1>4 DEF TrueRow
  <2>2. ~ TrulyAuthorized(A, a)
    BY <1>4 DEF TrulyAuthorized
  <2> QED BY <2>1, <2>2 DEF Unavailable, Row
<1>5. CASE /\ \A b \in A : output[b] # NoModule /\ Patchable(Root, output[b])
           /\ ~ Overlap(Root, output, A)
  <2>1. TrueRow(A, a) =
          IF others \in Studies[study].broken
            THEN Row("merge_invalid", "merge_invalid", NoModule, NotRun)
          ELSE IF run.status # "success" THEN Row("second_round_failed", "complete", others, run)
          ELSE Row(IF ~ Patchable(others, run.output) THEN "unknown"
                   ELSE IF SameEffect(Root, output[a], others, run.output)
                          THEN "authorized_all_others" ELSE "rejected_effect_changed",
                   "complete", others, run)
    BY <1>5 DEF TrueRow
  <2>2. TrulyAuthorized(A, a) <=> others \notin Studies[study].broken /\ Applied(a)[others] = all
    BY <1>5 DEF TrulyAuthorized
  <2>3. \A b \in A : output[b] \in Modules /\ Patchable(Root, output[b])
    BY <1>2, <1>5
  <2> HIDE DEF output
  <2>4. others \in Modules /\ all \in Modules
    BY <1>1, <2>3, MergeTyped, \A b \in A \ {a} : output[b] \in Modules
  <2>5. Applied(a)[others] \in Modules \cup {NoModule} /\ all # NoModule
        /\ (run.status = "success" <=> Applied(a)[others] # NoModule)
        /\ (run.status = "success" => run.output = Applied(a)[others])
    BY <1>1, <2>4, ResultTyped, StudyAssumption
  <2> HIDE DEF run
  <2>6. CASE others \in Studies[study].broken
    BY <2>1, <2>2, <2>6 DEF Row
  <2>7. CASE others \notin Studies[study].broken /\ run.status # "success"
    <3>1. TrueRow(A, a).direction = "second_round_failed"
      BY <2>1, <2>7 DEF Row
    <3> QED BY <2>2, <2>5, <2>7, <3>1
  <2>8. CASE others \notin Studies[study].broken /\ run.status = "success"
    <3>1. run.output \in Modules /\ run.output = Applied(a)[others]
      BY <2>5, <2>8
    <3>2. TrueRow(A, a).direction =
            IF ~ Patchable(others, run.output) THEN "unknown"
            ELSE IF SameEffect(Root, output[a], others, run.output)
                   THEN "authorized_all_others" ELSE "rejected_effect_changed"
      BY <2>1, <2>8 DEF Row
    <3>3. ASSUME Patchable(others, run.output), SameEffect(Root, output[a], others, run.output)
          PROVE  run.output = all
      BY <1>1, <1>5, <2>3, <3>1, <3>3, SameEffectMakesTheMerge
    <3>4. ASSUME run.output = all
          PROVE  Patchable(others, run.output) /\ SameEffect(Root, output[a], others, run.output)
      BY <1>1, <1>5, <2>3, <3>4, MergeHasTheEffect
    <3> HIDE DEF others, all
    <3> QED BY <2>2, <2>8, <3>1, <3>2, <3>3, <3>4
  <2> QED BY <2>6, <2>7, <2>8
<1> QED BY <1>3, <1>4, <1>5

-----------------------------------------------------------------------------
\* The evaluator: what its steps leave alone, merges that are valid, runs that
\* are honest as long as nothing is charged.

\* A charge of nothing is for a result.
LEMMA ChargeOfNothing ==
  ASSUME failures \in Nat, NEW n \in Nat, Misbehave(n)
  PROVE  failures' = failures + n /\ failures' >= failures /\ (failures' = failures => n = 0)
BY DEF Misbehave

\* A question to the client may be charged.
LEMMA AskCharges ==
  ASSUME failures \in Nat, NEW right, NEW reply, Ask(right, reply)
  PROVE  failures' >= failures
BY DEF Ask, Misbehave

\* A study does not change.
LEMMA SameStudy ==
  ASSUME study' = study
  PROVE  /\ Root' = Root
         /\ \A m, a : Result(m, a)' = Result(m, a)
         /\ \A a : Applied(a)' = Applied(a)
BY DEF Root, Result, Applied

\* The runs and the merges stay as they are.
LEMMA StaysHonest ==
  ASSUME MergesAreValid, UNCHANGED <<study, members, firsts, merged, second, rows>>,
         step' \in {"second", "compare"} => step' = step
  PROVE  MergesAreValid' /\ (RunsAreHonest => RunsAreHonest')
<1>1. MergesAreValid'
  BY DEF MergesAreValid, Authorized
<1>2. ASSUME RunsAreHonest
      PROVE  RunsAreHonest'
  <2>1. \A a \in members' : firsts'[a] \in {NotRun, Result(Root, a)'}
    BY <1>2, SameStudy DEF RunsAreHonest
  <2>2. step' = "compare" => second' = Result(merged, Turn)'
    <3>1. Turn' = Turn
      BY DEF Turn, Undecided
    <3> QED BY <1>2, <3>1, SameStudy DEF RunsAreHonest, Result
  <2>3. \A a \in members' : Authorized(rows, a)' => rows'[a].run = Result(rows[a].input, a)'
    BY <1>2, SameStudy DEF RunsAreHonest, Result, Authorized
  <2> QED BY <2>1, <2>2, <2>3, SameStudy DEF RunsAreHonest
<1> QED BY <1>1, <1>2

\* Nobody is authorised.
LEMMA NobodyHonest ==
  ASSUME UNCHANGED <<study, members, firsts>>, \A a \in members : ~ Authorized(rows', a),
         step' \notin {"second", "compare"}
  PROVE  MergesAreValid' /\ (RunsAreHonest => RunsAreHonest')
<1>1. MergesAreValid'
  BY DEF MergesAreValid, Authorized
<1>2. ASSUME RunsAreHonest
      PROVE  RunsAreHonest'
  BY <1>2, SameStudy DEF RunsAreHonest, Authorized
<1> QED BY <1>1, <1>2

\* A row is decided.
LEMMA DecideHonest ==
  ASSUME GroupInvariant, step \in {"merge", "second", "compare"}, Undecided # {},
         NEW row, Decide(row), UNCHANGED <<study, members, firsts>>, MergesAreValid,
         row.direction = "authorized_all_others" => row.input \notin Studies[study].broken
  PROVE  /\ MergesAreValid'
         /\ RunsAreHonest
            /\ (row.direction = "authorized_all_others" => row.run = Result(row.input, Turn))
              => RunsAreHonest'
<1>1. /\ Turn \in Actions /\ rows' = [rows EXCEPT ![Turn] = row] /\ step' = "merge"
      /\ rows \in [Actions -> Rows] /\ members \subseteq Actions
  BY TurnIsTyped DEF Decide, GroupInvariant, TypeOK
<1>2. \A a \in members : rows'[a] = IF a = Turn THEN row ELSE rows[a]
  BY <1>1
<1>3. MergesAreValid'
  BY <1>1, <1>2 DEF MergesAreValid, Authorized
<1>4. ASSUME RunsAreHonest, row.direction = "authorized_all_others" => row.run = Result(row.input, Turn)
      PROVE  RunsAreHonest'
  <2>1. \A a \in members' : firsts'[a] \in {NotRun, Result(Root, a)'}
    BY <1>4, SameStudy DEF RunsAreHonest
  <2>2. ASSUME NEW a \in members, Authorized(rows', a)
        PROVE  rows'[a].run = Result(rows'[a].input, a)
    <3>1. CASE a = Turn
      BY <1>2, <1>4, <2>2, <3>1 DEF Authorized
    <3>2. CASE a # Turn
      BY <1>2, <1>4, <2>2, <3>2 DEF Authorized, RunsAreHonest
    <3> QED BY <3>1, <3>2
  <2>3. \A a \in members' : Authorized(rows, a)' => rows'[a].run = Result(rows[a].input, a)'
    BY <2>2 DEF Result, Authorized
  <2> QED BY <1>1, <2>1, <2>3, SameStudy DEF RunsAreHonest
<1> QED BY <1>3, <1>4

\* One lemma per step of the evaluation: what it charges, the merges it keeps
\* valid and, when it charges nothing, the runs it keeps honest.
LEMMA RunFirstHonest ==
  ASSUME GroupInvariant, MergesAreValid, RunFirst
  PROVE  /\ failures' >= failures /\ MergesAreValid'
         /\ RunsAreHonest /\ failures' = failures => RunsAreHonest'
<1> DEFINE a == Next1(Unprofiled)
<1>1. a \in members /\ members \subseteq Actions /\ failures \in Nat
      /\ firsts \in [Actions -> Stages] /\ study' = study /\ members' = members
      /\ rows' = rows /\ rows = NoRows /\ step' = "profile"
  BY NextIsLeft DEF RunFirst, Unprofiled, GroupInvariant, TypeOK, EvaluationIsSound
<1>2. PICK stage \in Reports(Root, a, VerifiedRun), lost \in {0, 1} :
        /\ Misbehave(lost + Charge(Root, a, stage))
        /\ firsts' = [firsts EXCEPT ![a] = stage]
  BY DEF RunFirst
<1> HIDE DEF a
<1>3. lost + Charge(Root, a, stage) \in Nat /\ Charge(Root, a, stage) \in Nat
  BY ChargeTyped
<1>4. failures' >= failures /\ (failures' = failures => stage = Result(Root, a))
  BY <1>1, <1>2, <1>3, ChargeOfNothing DEF Charge
<1>5. \A b \in members : ~ Authorized(rows', b)
  BY <1>1, NotAuthorized
<1>6. MergesAreValid'
  BY <1>1, <1>5 DEF MergesAreValid, Authorized
<1>7. ASSUME RunsAreHonest, failures' = failures
      PROVE  RunsAreHonest'
  <2>1. \A b \in members : firsts'[b] \in {NotRun, Result(Root, b)}
    BY <1>1, <1>2, <1>4, <1>7 DEF RunsAreHonest
  <2> QED BY <1>1, <1>5, <2>1, SameStudy DEF RunsAreHonest, Authorized
<1> QED BY <1>4, <1>6, <1>7

\* The steps that run nothing.
LEMMA GateHonest ==
  ASSUME GroupInvariant, MergesAreValid, RefuseFirstRound \/ AcceptFirstRound \/ CheckOverlap \/ FinishGroup
  PROVE  /\ failures' >= failures /\ MergesAreValid'
         /\ RunsAreHonest /\ failures' = failures => RunsAreHonest'
<1>1. /\ failures \in Nat /\ failures' = failures
      /\ UNCHANGED <<study, members, firsts, merged, second>>
      /\ step' \notin {"second", "compare"}
  BY DEF RefuseFirstRound, AcceptFirstRound, CheckOverlap, FinishGroup, GiveUp, GroupInvariant, TypeOK
<1>2. rows' = rows \/ \E d \in {"timeout", "round1_precondition_failed", "direct_merge_not_defined"} : GiveUp(d)
  BY DEF RefuseFirstRound, AcceptFirstRound, CheckOverlap, FinishGroup
<1>3. CASE rows' = rows
  BY <1>1, <1>3, StaysHonest
<1>4. CASE \E d \in {"timeout", "round1_precondition_failed", "direct_merge_not_defined"} : GiveUp(d)
  <2>1. \A a \in members : ~ Authorized(rows', a)
    BY <1>1, <1>4, GiveUpSound
  <2> QED BY <1>1, <2>1, NobodyHonest
<1> QED BY <1>2, <1>3, <1>4

LEMMA InspectHonest ==
  ASSUME GroupInvariant, MergesAreValid, Inspect
  PROVE  /\ failures' >= failures /\ MergesAreValid'
         /\ RunsAreHonest /\ failures' = failures => RunsAreHonest'
<1>1. /\ failures \in Nat /\ UNCHANGED <<study, members, firsts, merged, second>> /\ step = "inspect"
      /\ step' \in {"inspect", "reported"}
  BY DEF Inspect, GiveUp, GroupInvariant, TypeOK
<1>2. failures' >= failures
  BY <1>1, AskCharges DEF Inspect
<1>3. rows' = rows \/ \E d \in {"timeout", "round1_precondition_failed", "direct_merge_not_defined"} : GiveUp(d)
  BY DEF Inspect
<1>4. CASE rows' = rows
  BY <1>1, <1>2, <1>4, StaysHonest
<1>5. CASE \E d \in {"timeout", "round1_precondition_failed", "direct_merge_not_defined"} : GiveUp(d)
  <2>1. \A a \in members : ~ Authorized(rows', a)
    BY <1>1, <1>5, GiveUpSound
  <2> QED BY <1>1, <1>2, <2>1, NobodyHonest
<1> QED BY <1>3, <1>4, <1>5

LEMMA MergeOthersHonest ==
  ASSUME GroupInvariant, MergesAreValid, MergeOthers
  PROVE  /\ failures' >= failures /\ MergesAreValid'
         /\ RunsAreHonest /\ failures' = failures => RunsAreHonest'
<1>1. /\ failures \in Nat /\ UNCHANGED <<study, members, firsts>> /\ step = "merge" /\ Undecided # {}
  BY DEF MergeOthers, GroupInvariant, TypeOK
<1>2. PICK reply \in MergeStatuses :
        /\ Ask(MergeAnswer(OthersMerged), reply)
        /\ \/ /\ reply = "complete"
              /\ merged' = OthersMerged
              /\ step' = "second"
              /\ UNCHANGED <<second, rows>>
           \/ /\ reply # "complete"
              /\ Decide(Row(reply, reply, NoModule, NotRun))
  BY DEF MergeOthers
<1>3. failures' >= failures
  BY <1>1, <1>2, AskCharges
<1>4. CASE reply = "complete"
  <2>1. merged' \notin Studies[study].broken /\ step' = "second" /\ rows' = rows
    BY <1>2, <1>4, CompleteIsRight DEF MergeAnswer
  <2>2. MergesAreValid'
    BY <1>1, <2>1 DEF MergesAreValid, Authorized
  <2>3. ASSUME RunsAreHonest
        PROVE  RunsAreHonest'
    <3>1. \A a \in members' : firsts'[a] \in {NotRun, Result(Root, a)'}
      BY <1>1, <2>3, SameStudy DEF RunsAreHonest
    <3>2. \A a \in members' : Authorized(rows, a)' => rows'[a].run = Result(rows[a].input, a)'
      BY <1>1, <2>1, <2>3 DEF RunsAreHonest, Result, Authorized
    <3> QED BY <2>1, <3>1, <3>2, SameStudy, <1>1 DEF RunsAreHonest
  <2> QED BY <1>3, <2>2, <2>3
<1>5. CASE reply # "complete"
  <2> DEFINE row == Row(reply, reply, NoModule, NotRun)
  <2>1. Decide(row) /\ row.direction # "authorized_all_others"
    BY <1>2, <1>5 DEF Row, MergeStatuses, FatalKinds
  <2> HIDE DEF row
  <2> QED BY <1>1, <1>3, <2>1, DecideHonest
<1> QED BY <1>4, <1>5

LEMMA RunSecondHonest ==
  ASSUME GroupInvariant, MergesAreValid, RunSecond
  PROVE  /\ failures' >= failures /\ MergesAreValid'
         /\ RunsAreHonest /\ failures' = failures => RunsAreHonest'
<1>1. /\ failures \in Nat /\ UNCHANGED <<study, members, firsts>> /\ step = "second" /\ Undecided # {}
  BY DEF RunSecond, GroupInvariant, TypeOK, EvaluationIsSound
<1>2. PICK stage \in Reports(merged, Turn, VerifiedRun) :
        /\ Misbehave(Charge(merged, Turn, stage))
        /\ \/ /\ stage.status = "success"
              /\ second' = stage
              /\ step' = "compare"
              /\ UNCHANGED <<merged, rows>>
           \/ /\ stage.status # "success"
              /\ Decide(Row(IF stage.status = "timeout" THEN "timeout" ELSE "second_round_failed",
                            "complete", merged, stage))
  BY DEF RunSecond
<1>3. failures' >= failures /\ (failures' = failures => stage = Result(merged, Turn))
  BY <1>1, <1>2, ChargeOfNothing, ChargeTyped DEF Charge
<1>4. CASE stage.status = "success"
  <2>1. second' = stage /\ step' = "compare" /\ merged' = merged /\ rows' = rows
    BY <1>2, <1>4
  <2>2. MergesAreValid'
    BY <1>1, <2>1 DEF MergesAreValid, Authorized
  <2>3. ASSUME RunsAreHonest, failures' = failures
        PROVE  RunsAreHonest'
    <3>1. \A a \in members' : firsts'[a] \in {NotRun, Result(Root, a)'}
      BY <1>1, <2>3, SameStudy DEF RunsAreHonest
    <3>2. \A a \in members' : Authorized(rows, a)' => rows'[a].run = Result(rows[a].input, a)'
      BY <1>1, <2>1, <2>3 DEF RunsAreHonest, Result, Authorized
    <3>3. Turn' = Turn
      BY <1>1, <2>1 DEF Turn, Undecided
    <3>4. second' = Result(merged, Turn)'
      BY <1>1, <1>3, <2>1, <2>3, <3>3 DEF Result
    <3> QED BY <3>1, <3>2, <3>4, SameStudy, <1>1 DEF RunsAreHonest
  <2> QED BY <1>3, <2>2, <2>3
<1>5. CASE stage.status # "success"
  <2> DEFINE row == Row(IF stage.status = "timeout" THEN "timeout" ELSE "second_round_failed",
                        "complete", merged, stage)
  <2>1. Decide(row) /\ row.direction # "authorized_all_others"
    BY <1>2, <1>5 DEF Row
  <2> HIDE DEF row
  <2> QED BY <1>1, <1>3, <2>1, DecideHonest
<1> QED BY <1>4, <1>5

LEMMA CompareEffectHonest ==
  ASSUME GroupInvariant, MergesAreValid, CompareEffect
  PROVE  /\ failures' >= failures /\ MergesAreValid'
         /\ RunsAreHonest /\ failures' = failures => RunsAreHonest'
<1>1. /\ failures \in Nat /\ UNCHANGED <<study, members, firsts>> /\ step = "compare" /\ Undecided # {}
  BY DEF CompareEffect, GroupInvariant, TypeOK, EvaluationIsSound
<1> DEFINE row(reply) == Row(EffectDirection(reply), "complete", merged, second)
<1>2. PICK reply \in MergeStatuses : Ask(InspectAnswer(merged, second.output), reply) /\ Decide(row(reply))
  BY DEF CompareEffect
<1>3. failures' >= failures
  BY <1>1, <1>2, AskCharges
<1>4. row(reply).input = merged /\ row(reply).run = second
  BY DEF Row
<1>5. merged \notin Studies[study].broken /\ (RunsAreHonest => second = Result(merged, Turn))
  BY <1>1 DEF MergesAreValid, RunsAreHonest
<1> HIDE DEF row
<1> QED BY <1>1, <1>2, <1>3, <1>4, <1>5, DecideHonest

\* Every step of the evaluator.
LEMMA EvaluatorHonest ==
  ASSUME GroupInvariant, MergesAreValid, EvaluationStep
  PROVE  /\ failures' >= failures /\ MergesAreValid'
         /\ RunsAreHonest /\ failures' = failures => RunsAreHonest'
BY RunFirstHonest, GateHonest, InspectHonest, MergeOthersHonest, RunSecondHonest, CompareEffectHonest
   DEF EvaluationStep

\* What it leaves alone.
LEMMA EvaluatorFrame ==
  ASSUME EvaluationStep
  PROVE  /\ UNCHANGED <<study, members>> /\ step # "idle" /\ step' # "idle"
         /\ step = "profile" => step' = "profile" /\ RunFirst
         /\ step # "profile" => step' # "profile" /\ firsts' = firsts
<1>1. CASE RunFirst
  BY <1>1 DEF RunFirst
<1>2. CASE RefuseFirstRound \/ AcceptFirstRound \/ CheckOverlap \/ FinishGroup
  BY <1>2 DEF RefuseFirstRound, AcceptFirstRound, CheckOverlap, FinishGroup, GiveUp
<1>3. CASE Inspect \/ MergeOthers
  BY <1>3 DEF Inspect, MergeOthers, GiveUp, Decide
<1>4. CASE RunSecond \/ CompareEffect
  BY <1>4 DEF RunSecond, CompareEffect, Decide
<1> QED BY <1>1, <1>2, <1>3, <1>4 DEF EvaluationStep

-----------------------------------------------------------------------------
\* Cases.

\* The cases depend on the matrix, the groups and the replays alone.
LEMMA SameCases ==
  ASSUME UNCHANGED <<results, pairs, replays>>
  PROVE  Cases' = Cases /\ OpenCases' = OpenCases /\ Case1' = Case1
<1>1. Cases' = Cases
  BY DEF Cases, FalseAuthorizations, CasesOf, FalseAuthorization, Authorized
<1>2. OpenCases' = OpenCases
  BY <1>1 DEF OpenCases
<1> QED BY <1>1, <1>2 DEF Case1

\* A case names a group, a pair of it and an action of the pair that the rule
\* authorised (derive_two_n_pair_fields).
LEMMA CaseShape ==
  ASSUME GroupInvariant, NEW c \in Cases
  PROVE  /\ c[1] \in DOMAIN results /\ c[1] \in 1 .. Len(Groups) /\ Groups[c[1]] \in SUBSET Actions
         /\ c[2] \in Groups[c[1]] /\ c[3] \in Groups[c[1]] /\ c[4] \in {c[2], c[3]}
         /\ <<c[2], c[3]>> \in Pairs
         /\ Authorized(results[c[1]].rows, c[4])
         /\ pairs[<<c[2], c[3]>>].dynamic \in {"order_sensitive", "failed"}
         /\ c \in Nat \X Nat \X Nat \X Nat
<1>1. PICK x \in FalseAuthorizations : c \in CasesOf(x[1], x[2])
  BY DEF Cases
<1>2. x[1] \in DOMAIN results /\ x[2] \in Pairs /\ x[2] \in PairsOfGroup(x[1])
      /\ FalseAuthorization(x[1], x[2])
  BY DEF FalseAuthorizations
<1>3. PICK d \in {x[2][1], x[2][2]} :
        c = <<x[1], x[2][1], x[2][2], d>> /\ Authorized(results[x[1]].rows, d)
  BY <1>1 DEF CasesOf
<1>4. x[2] = <<x[2][1], x[2][2]>> /\ x[2][1] \in Nat /\ x[2][2] \in Nat
  BY <1>2, StudyAssumption DEF Pairs
<1>5. x[2][1] \in Groups[x[1]] /\ x[2][2] \in Groups[x[1]]
      /\ pairs[x[2]].dynamic \in {"order_sensitive", "failed"}
  BY <1>2 DEF PairsOfGroup, FalseAuthorization
<1>6. x[1] \in 1 .. Len(Groups) /\ x[1] \in Nat
  BY <1>2, GroupsAssumption DEF GroupInvariant, StudyTyped
<1>7. Groups[x[1]] \in SUBSET Actions
  BY <1>6, GroupsAssumption
<1> QED BY <1>2, <1>3, <1>4, <1>5, <1>6, <1>7

\* The case that is replayed is one of the open ones.
LEMMA FirstCase ==
  ASSUME GroupInvariant, OpenCases # {}
  PROVE  Case1 \in OpenCases /\ Case1 \in Cases
<1>1. OpenCases \in SUBSET (Nat \X Nat \X Nat \X Nat)
  BY CaseShape DEF OpenCases
<1> QED BY <1>1, FirstIsLeft DEF Case1, OpenCases

\* Two replays of each family, those of the rule last (replay_false_authorization).
LEMMA ScheduleLength == Len(Schedule) = 6 /\ \A i \in 1 .. 6 : Schedule[i] = "two_n" <=> i > 4
BY DEF Schedule

\* The replays before the next one.
LEMMA BelowSix ==
  ASSUME NEW n \in Nat, n < 6
  PROVE  n + 1 \in 1 .. 6 /\ n + 1 <= 6 /\ (n + 1 > 4 => n \in {4, 5})
OBVIOUS

\* The replay under way of the rule is the fifth or the sixth.
LEMMA FourOrFive ==
  ASSUME NEW n \in {4, 5}
  PROVE  n \in Nat /\ n < 6 /\ n + 1 \in {5, 6} /\ n + 1 <= 6
OBVIOUS

-----------------------------------------------------------------------------
\* Parts of the invariant that a step leaves alone.

\* Parts of the order that a step leaves alone.
LEMMA MatrixKept ==
  ASSUME MatrixIsOrdered, UNCHANGED <<pairs, profiles>>
  PROVE  MatrixIsOrdered'
BY DEF MatrixIsOrdered, PairIsOrdered, Waiting, Profiled

LEMMA AuthorizedKept ==
  ASSUME AuthorizedAfterSuccess, UNCHANGED <<results, profiles>>
  PROVE  AuthorizedAfterSuccess'
BY DEF AuthorizedAfterSuccess, Authorized

LEMMA ReplaysKept ==
  ASSUME ReplaysAreOrdered, UNCHANGED <<records, replays>>
  PROVE  ReplaysAreOrdered'
BY DEF ReplaysAreOrdered

\* An evaluation begins, or is forgotten.
LEMMA BeginsValid ==
  ASSUME NEW A \in SUBSET Actions, NEW fs, NEW s \in {"profile", "gate"}, Evaluate(A, fs, s)
  PROVE  MergesAreValid'
<1>1. rows' = NoRows /\ members' = A /\ step' = s
  BY DEF Evaluate
<1>2. \A a \in members' : ~ Authorized(rows', a)
  BY <1>1, NotAuthorized
<1> QED BY <1>1, <1>2 DEF MergesAreValid, Authorized

\* An evaluation that is over holds no merge.
LEMMA ForgottenValid ==
  ASSUME NotEvaluated
  PROVE  MergesAreValid' /\ RunsAreHonest' /\ step' = "idle"
BY DEF NotEvaluated, MergesAreValid, RunsAreHonest

\* A step beside the evaluation leaves its merges and runs as they are.
LEMMA AsideValid ==
  ASSUME MergesAreValid, UNCHANGED <<study, evalVars>>
  PROVE  MergesAreValid' /\ (RunsAreHonest => RunsAreHonest')
BY StaysHonest DEF evalVars

\* No replay is a sequence of replays.
LEMMA NoRecords ==
  ASSUME NEW s, s = <<>>
  PROVE  (\E S : s \in Seq(S)) /\ Len(s) = 0
<1>1. s \in Seq({}) /\ Len(s) = 0
  OBVIOUS
<1> QED BY <1>1

\* One replay more is a sequence of replays.
LEMMA OneMore ==
  ASSUME NEW s, \E S : s \in Seq(S), NEW e
  PROVE  /\ \E S : Append(s, e) \in Seq(S)
         /\ Len(s) \in Nat /\ Len(Append(s, e)) = Len(s) + 1
         /\ \A i \in 1 .. Len(s) : Append(s, e)[i] = s[i]
         /\ Append(s, e)[Len(s) + 1] = e
<1>1. PICK S : s \in Seq(S)
  OBVIOUS
<1> DEFINE T == S \cup {e}
<1>2. s \in Seq(T) /\ e \in T
  BY <1>1
<1> HIDE DEF T
<1>3. Append(s, e) \in Seq(T)
  BY <1>2
<1> QED BY <1>2, <1>3

\* A run reports something, and is never not run.
LEMMA ReportsRan ==
  ASSUME study \in DOMAIN Studies, NEW m \in Modules, NEW a \in Actions,
         NEW kinds \in SUBSET VerifiedRun
  PROVE  NotRun \notin Reports(m, a, kinds)
<1>1. Result(m, a) # NotRun
  BY ResultTyped
<1>2. NotRun \notin {Stage("success", s) : s \in Studies[study].strays}
  BY DEF NotRun, Stage
<1>3. NotRun \notin {Stage(k, NoModule) : k \in kinds}
  BY DEF NotRun, Stage, VerifiedRun
<1> QED BY <1>1, <1>2, <1>3 DEF Reports

\* Both actions of a profiled pair left a module.
LEMMA ProfiledOutputs ==
  ASSUME GroupInvariant, NEW p \in Pairs, Profiled(p)
  PROVE  /\ profiles[p[1]].output \in Modules /\ profiles[p[2]].output \in Modules
         /\ p[1] \in Actions /\ p[2] \in Actions
<1>1. p[1] \in Actions /\ p[2] \in Actions
  BY DEF Pairs
<1>2. profiles[p[1]] \in Stages /\ profiles[p[2]] \in Stages
  BY <1>1 DEF GroupInvariant, StudyTyped
<1> QED BY <1>1, <1>2, SuccessHasModule DEF Profiled

\* The first of the pairs that wait.
LEMMA FirstPair ==
  ASSUME NEW S \in SUBSET Pairs, S # {}
  PROVE  First(S) \in S
<1>1. \A s \in S : s \in Nat \X Nat
  BY StudyAssumption DEF Pairs
<1>2. PICK s1 \in S : \A t \in S : s1[1] <= t[1]
  <2>1. {s[1] : s \in S} \in SUBSET Nat /\ {s[1] : s \in S} # {}
    BY <1>1
  <2>2. PICK x \in {s[1] : s \in S} : \A y \in {s[1] : s \in S} : x <= y
    BY <2>1, LeastExists
  <2> QED BY <2>2
<1> DEFINE S1 == {s \in S : s[1] = s1[1]}
<1>3. PICK s2 \in S1 : \A t \in S1 : s2[2] <= t[2]
  <2>1. {s[2] : s \in S1} \in SUBSET Nat /\ {s[2] : s \in S1} # {}
    BY <1>1
  <2>2. PICK x \in {s[2] : s \in S1} : \A y \in {s[2] : s \in S1} : x <= y
    BY <2>1, LeastExists
  <2> QED BY <2>2
<1>4. ASSUME NEW t \in S \ {s2}
      PROVE  Before(s2, t)
  <2>1. DOMAIN s2 = 1 .. 2 /\ s2[1] \in Nat /\ s2[2] \in Nat /\ t[1] \in Nat /\ t[2] \in Nat
        /\ s2 = <<s2[1], s2[2]>> /\ t = <<t[1], t[2]>>
    BY <1>1
  <2>2. CASE t \notin S1
    <3>1. s2[1] < t[1]
      BY <1>2, <2>1, <2>2
    <3> QED BY <2>1, <3>1 DEF Before
  <2>3. CASE t \in S1
    <3>1. s2[1] = t[1] /\ s2[2] <= t[2]
      BY <1>3, <2>3
    <3>2. s2[2] < t[2]
      BY <2>1, <3>1
    <3>3. 2 \in DOMAIN s2 /\ \A j \in 1 .. 2 - 1 : s2[j] = t[j]
      BY <2>1, <3>1
    <3> QED BY <3>2, <3>3 DEF Before
  <2> QED BY <2>2, <2>3
<1> QED BY <1>4 DEF First

\* One row of the matrix changes.
LEMMA PairChanged ==
  ASSUME MatrixIsOrdered, profiles' = profiles, NEW p \in Pairs, NEW ab, NEW ba, NEW d,
         DOMAIN pairs' = Pairs, \A r \in Pairs \ {p} : pairs'[r] = pairs[r],
         pairs'[p] = Pair(ab, ba, d),
         PairIsOrdered(p)'
  PROVE  MatrixIsOrdered'
<1>1. \A r \in Pairs : r # p => pairs'[r] = pairs[r]
  OBVIOUS
<1>2. ASSUME NEW r \in Pairs
      PROVE  pairs'[r] = Pair(pairs'[r].ab, pairs'[r].ba, pairs'[r].dynamic)
  <2>1. CASE r = p
    BY <2>1 DEF Pair
  <2>2. CASE r # p
    BY <1>1, <2>2 DEF MatrixIsOrdered
  <2> QED BY <2>1, <2>2
<1>3. ASSUME NEW r \in Pairs
      PROVE  PairIsOrdered(r)'
  <2>1. CASE r = p
    BY <2>1
  <2>2. CASE r # p
    <3>1. pairs'[r] = pairs[r] /\ PairIsOrdered(r)
      BY <1>1, <2>2 DEF MatrixIsOrdered
    <3> QED BY <3>1 DEF PairIsOrdered, Waiting, Profiled
  <2> QED BY <2>1, <2>2
<1> QED BY <1>2, <1>3 DEF MatrixIsOrdered

-----------------------------------------------------------------------------
\* The stages stay in order.

\* The evaluation keeps the order of the stages it runs in.
LEMMA EvaluatorOrdered ==
  ASSUME GroupInvariant, StudyIsOrdered, EvaluationStep, UNCHANGED studyVars
  PROVE  StudyIsOrdered'
<1>1. MatrixIsOrdered' /\ AuthorizedAfterSuccess' /\ ReplaysAreOrdered'
  BY MatrixKept, AuthorizedKept, ReplaysKept DEF StudyIsOrdered, studyVars
<1>2. MergesAreValid'
  BY EvaluatorHonest DEF StudyIsOrdered
<1>3. /\ UNCHANGED <<study, members>> /\ step # "idle" /\ step' # "idle"
      /\ step = "profile" => step' = "profile"
      /\ step # "profile" => step' # "profile" /\ firsts' = firsts
  BY EvaluatorFrame
<1>4. OpenCases' = OpenCases /\ Case1' = Case1
  BY SameCases DEF studyVars
<1>5. phase' = "replay" /\ step' # "profile" => Unprofiled' = {}
  BY <1>3 DEF StudyIsOrdered, PhaseIsOrdered, Unprofiled, studyVars
<1>6. /\ phase' = phase /\ results' = results /\ pairs' = pairs /\ profiles' = profiles
      /\ records' = records /\ replays' = replays
  BY DEF studyVars
<1>7. phase = "profiles" => step' \in {"idle", "profile"}
  BY <1>3 DEF StudyIsOrdered, PhaseIsOrdered
<1>8. phase = "groups" => /\ step' # "profile" /\ members' = Groups[Len(results) + 1]
                          /\ firsts' = Only(members, profiles)
  BY <1>3 DEF StudyIsOrdered, PhaseIsOrdered
<1>9. PhaseIsOrdered'
  BY <1>3, <1>4, <1>5, <1>6, <1>7, <1>8 DEF StudyIsOrdered, PhaseIsOrdered, Only
<1> QED BY <1>1, <1>2, <1>9 DEF StudyIsOrdered

\* One lemma per step of the study: it keeps the order of the stages.
LEMMA StartProfilesOrdered ==
  ASSUME GroupInvariant, StudyIsOrdered, StartProfiles
  PROVE  StudyIsOrdered'
<1>1. Evaluate(Actions, NoFirsts, "profile") /\ phase = "profiles" /\ UNCHANGED studyVars
      /\ UNCHANGED <<study, failures, client>>
  BY DEF StartProfiles
<1>2. MatrixIsOrdered' /\ AuthorizedAfterSuccess' /\ ReplaysAreOrdered'
  BY <1>1, MatrixKept, AuthorizedKept, ReplaysKept DEF StudyIsOrdered, studyVars
<1>3. MergesAreValid'
  BY <1>1, BeginsValid, Actions \in SUBSET Actions
<1>4. PhaseIsOrdered'
  BY <1>1 DEF StudyIsOrdered, PhaseIsOrdered, Evaluate, studyVars
<1> QED BY <1>2, <1>3, <1>4 DEF StudyIsOrdered

LEMMA PublishProfilesOrdered ==
  ASSUME GroupInvariant, StudyIsOrdered, PublishProfiles
  PROVE  StudyIsOrdered'
<1>1. /\ phase = "profiles" /\ step = "profile" /\ Unprofiled = {}
      /\ profiles' = firsts /\ phase' = "pairs" /\ NotEvaluated
      /\ UNCHANGED <<study, failures, client, pairs, results, orders, records, replays>>
  BY DEF PublishProfiles
<1>2. pairs = NoPairs /\ results = <<>> /\ replays = <<>> /\ records = <<>> /\ members = Actions
  BY <1>1 DEF StudyIsOrdered, PhaseIsOrdered
<1>3. MatrixIsOrdered'
  <2>1. \A p \in Pairs : pairs'[p] = Pair(NotRun, NotRun, "open") /\ PairIsOrdered(p)'
    BY <1>1, <1>2 DEF NoPairs, PairIsOrdered, Waiting
  <2>2. \A p \in Pairs : pairs'[p] = Pair(pairs'[p].ab, pairs'[p].ba, pairs'[p].dynamic)
    BY <2>1 DEF Pair
  <2> QED BY <1>1, <1>2, <2>1, <2>2 DEF MatrixIsOrdered, NoPairs
<1>4. AuthorizedAfterSuccess'
  BY <1>1, <1>2 DEF AuthorizedAfterSuccess
<1>5. MergesAreValid' /\ step' = "idle"
  BY <1>1, ForgottenValid
<1>6. ReplaysAreOrdered'
  BY <1>1, ReplaysKept DEF StudyIsOrdered
<1>7. \A a \in Actions : profiles'[a] # NotRun
  BY <1>1, <1>2 DEF Unprofiled
<1>8. PhaseIsOrdered'
  BY <1>1, <1>2, <1>5, <1>7 DEF PhaseIsOrdered
<1> QED BY <1>3, <1>4, <1>5, <1>6, <1>8 DEF StudyIsOrdered

\* A step that may change the matrix, and no more than that.
LEMMA MatrixStepOrdered ==
  ASSUME StudyIsOrdered, UNCHANGED <<study, evalVars, phase, profiles, results, orders, records, replays>>,
         MatrixIsOrdered', phase = "pairs"
  PROVE  StudyIsOrdered'
<1>1. AuthorizedAfterSuccess' /\ ReplaysAreOrdered' /\ MergesAreValid'
  BY AuthorizedKept, ReplaysKept, AsideValid DEF StudyIsOrdered
<1>2. PhaseIsOrdered'
  BY DEF StudyIsOrdered, PhaseIsOrdered, evalVars
<1> QED BY <1>1, <1>2 DEF StudyIsOrdered

LEMMA StartPairOrdered ==
  ASSUME GroupInvariant, StudyIsOrdered, StartPair
  PROVE  StudyIsOrdered'
<1>1. PICK p \in Pairs : p = First({q \in Pairs : Waiting(q)}) /\ Waiting(p)
  BY FirstPair DEF StartPair
<1>2. /\ phase = "pairs"
      /\ UNCHANGED <<study, client, evalVars, phase, profiles, results, orders, records, replays>>
      /\ \/ /\ Profiled(p)
            /\ \E stage \in Reports(profiles[p[1]].output, p[2], VerifiedRun) :
                 pairs' = [pairs EXCEPT ![p].ab = stage]
         \/ /\ ~ Profiled(p)
            /\ pairs' = [pairs EXCEPT ![p].dynamic = Classify(profiles[p[1]], profiles[p[2]], TRUE)]
  BY <1>1 DEF StartPair
<1>3. pairs[p] = Pair(NotRun, NotRun, "open") /\ DOMAIN pairs = Pairs
  BY <1>1 DEF Waiting, NoPairs, StudyIsOrdered, MatrixIsOrdered
<1>4. CASE Profiled(p)
  <2>1. PICK stage \in Reports(profiles[p[1]].output, p[2], VerifiedRun) :
          pairs' = [pairs EXCEPT ![p].ab = stage]
    BY <1>2, <1>4
  <2>2. stage # NotRun
    BY <1>4, ProfiledOutputs, ReportsRan, VerifiedRun \in SUBSET VerifiedRun DEF GroupInvariant, TypeOK
  <2>3. /\ DOMAIN pairs' = Pairs /\ pairs'[p] = Pair(stage, NotRun, "open")
        /\ \A r \in Pairs \ {p} : pairs'[r] = pairs[r]
    BY <1>3, <2>1 DEF Pair
  <2>4. PairIsOrdered(p)'
    BY <1>2, <1>4, <2>2, <2>3 DEF PairIsOrdered, Profiled, Pair
  <2>5. MatrixIsOrdered'
    BY <1>2, <2>3, <2>4, PairChanged DEF StudyIsOrdered
  <2> QED BY <1>2, <2>5, MatrixStepOrdered
<1>5. CASE ~ Profiled(p)
  <2>1. PICK d : /\ d = Classify(profiles[p[1]], profiles[p[2]], TRUE)
                  /\ pairs' = [pairs EXCEPT ![p].dynamic = d]
    BY <1>2, <1>5
  <2>2. pairs' = [pairs EXCEPT ![p].dynamic = d]
    BY <2>1
  <2>3. /\ DOMAIN pairs' = Pairs
        /\ pairs'[p] = Pair(NotRun, NotRun, d)
        /\ \A r \in Pairs \ {p} : pairs'[r] = pairs[r]
    BY <1>3, <2>2 DEF Pair
  <2>4. PairIsOrdered(p)'
    BY <1>2, <1>5, <2>1, <2>3 DEF PairIsOrdered, Profiled, Pair
  <2>5. MatrixIsOrdered'
    BY <1>2, <2>3, <2>4, PairChanged DEF StudyIsOrdered
  <2> QED BY <1>2, <2>5, MatrixStepOrdered
<1> QED BY <1>4, <1>5

\* A pair that runs has its first order.
LEMMA RunningPair ==
  ASSUME StudyIsOrdered, NEW p \in Pairs, Running(p)
  PROVE  /\ Profiled(p) /\ pairs[p].ab # NotRun /\ DOMAIN pairs = Pairs
         /\ pairs[p] = Pair(pairs[p].ab, pairs[p].ba, "open")
<1>1. PairIsOrdered(p) /\ pairs[p] = Pair(pairs[p].ab, pairs[p].ba, pairs[p].dynamic) /\ DOMAIN pairs = Pairs
  BY DEF StudyIsOrdered, MatrixIsOrdered
<1>2. Classify(profiles[p[1]], profiles[p[2]], TRUE) # "open"
  BY DEF Classify
<1> QED BY <1>1, <1>2 DEF PairIsOrdered, Running

LEMMA SecondOrderOrdered ==
  ASSUME GroupInvariant, StudyIsOrdered, NEW p \in Pairs, SecondOrder(p)
  PROVE  StudyIsOrdered'
<1>1. /\ phase = "pairs" /\ Running(p)
      /\ UNCHANGED <<study, client, evalVars, phase, profiles, results, orders, records, replays>>
  BY DEF SecondOrder
<1>2. PICK stage : pairs' = [pairs EXCEPT ![p].ba = stage]
  BY DEF SecondOrder
<1>3. /\ Profiled(p) /\ pairs[p].ab # NotRun /\ DOMAIN pairs = Pairs
      /\ pairs[p] = Pair(pairs[p].ab, pairs[p].ba, "open")
  BY <1>1, RunningPair
<1>4. /\ DOMAIN pairs' = Pairs /\ pairs'[p] = Pair(pairs[p].ab, stage, "open")
      /\ \A r \in Pairs \ {p} : pairs'[r] = pairs[r]
  BY <1>2, <1>3 DEF Pair
<1>5. PairIsOrdered(p)'
  BY <1>1, <1>3, <1>4 DEF PairIsOrdered, Profiled, Pair
<1>6. MatrixIsOrdered'
  BY <1>1, <1>4, <1>5, PairChanged DEF StudyIsOrdered
<1> QED BY <1>1, <1>6, MatrixStepOrdered

LEMMA FinishPairOrdered ==
  ASSUME GroupInvariant, StudyIsOrdered, NEW p \in Pairs, FinishPair(p)
  PROVE  StudyIsOrdered'
<1> DEFINE result == Classify(pairs[p].ab, pairs[p].ba, pairs[p].ab.output = pairs[p].ba.output)
<1>1. /\ phase = "pairs" /\ Running(p) /\ pairs[p].ba # NotRun
      /\ UNCHANGED <<study, client, evalVars, phase, profiles, results, orders, records, replays>>
  BY DEF FinishPair
<1>2. PICK d \in {"unknown", result} : pairs' = [pairs EXCEPT ![p].dynamic = d]
  BY DEF FinishPair
<1>3. /\ Profiled(p) /\ pairs[p].ab # NotRun /\ DOMAIN pairs = Pairs
      /\ pairs[p] = Pair(pairs[p].ab, pairs[p].ba, "open")
  BY <1>1, RunningPair
<1>4. /\ DOMAIN pairs' = Pairs /\ pairs'[p] = Pair(pairs[p].ab, pairs[p].ba, d)
      /\ \A r \in Pairs \ {p} : pairs'[r] = pairs[r]
  BY <1>2, <1>3 DEF Pair
<1>5. PairIsOrdered(p)'
  BY <1>1, <1>2, <1>3, <1>4 DEF PairIsOrdered, Profiled, Pair
<1>6. MatrixIsOrdered'
  BY <1>1, <1>4, <1>5, PairChanged DEF StudyIsOrdered
<1> QED BY <1>1, <1>6, MatrixStepOrdered

LEMMA PublishPairsOrdered ==
  ASSUME GroupInvariant, StudyIsOrdered, PublishPairs
  PROVE  StudyIsOrdered'
<1>1. /\ phase = "pairs" /\ phase' = "groups" /\ \A p \in Pairs : pairs[p].dynamic # "open"
      /\ UNCHANGED <<study, failures, client, evalVars, profiles, pairs, results, orders, records, replays>>
  BY DEF PublishPairs
<1>2. MatrixIsOrdered' /\ AuthorizedAfterSuccess' /\ ReplaysAreOrdered' /\ MergesAreValid'
  BY <1>1, MatrixKept, AuthorizedKept, ReplaysKept, AsideValid DEF StudyIsOrdered
<1>3. step = "idle" /\ step' = "idle"
  BY <1>1 DEF GroupInvariant, StudyTyped, evalVars
<1>4. PhaseIsOrdered'
  BY <1>1, <1>3 DEF StudyIsOrdered, PhaseIsOrdered
<1> QED BY <1>2, <1>4 DEF StudyIsOrdered

LEMMA StartGroupOrdered ==
  ASSUME GroupInvariant, StudyIsOrdered, StartGroup
  PROVE  StudyIsOrdered'
<1> DEFINE A == Groups[Len(results) + 1]
<1>1. /\ phase = "groups" /\ Len(results) < Len(Groups) /\ Evaluate(A, Only(A, profiles), "gate")
      /\ UNCHANGED studyVars /\ UNCHANGED <<study, failures, client>>
  BY DEF StartGroup
<1>2. A \in SUBSET Actions
  BY <1>1, GroupsAssumption DEF GroupInvariant, StudyTyped
<1>3. MatrixIsOrdered' /\ AuthorizedAfterSuccess' /\ ReplaysAreOrdered'
  BY <1>1, MatrixKept, AuthorizedKept, ReplaysKept DEF StudyIsOrdered, studyVars
<1> HIDE DEF A
<1>4. MergesAreValid'
  BY <1>1, <1>2, BeginsValid
<1>5. phase' = phase /\ results' = results /\ pairs' = pairs /\ profiles' = profiles
      /\ records' = records /\ replays' = replays
  BY <1>1 DEF studyVars
<1>6. step' = "gate" /\ members' = A /\ firsts' = Only(A, profiles)
  BY <1>1 DEF Evaluate
<1>7. PhaseIsOrdered'
  BY <1>1, <1>5, <1>6 DEF StudyIsOrdered, PhaseIsOrdered, Only, A
<1> QED BY <1>3, <1>4, <1>7 DEF StudyIsOrdered

LEMMA PublishGroupOrdered ==
  ASSUME GroupInvariant, StudyIsOrdered, PublishGroup
  PROVE  StudyIsOrdered'
<1> DEFINE r == [rows |-> rows, verdict |-> verdict]
<1>1. /\ phase = "groups" /\ step = "reported" /\ NotEvaluated
      /\ results' = Append(results, r)
      /\ phase' \in {"replay", "groups"}
      /\ UNCHANGED <<study, failures, client, profiles, pairs, orders, records, replays>>
  BY DEF PublishGroup
<1>2. MatrixIsOrdered' /\ ReplaysAreOrdered' /\ MergesAreValid' /\ step' = "idle"
  BY <1>1, MatrixKept, ReplaysKept, ForgottenValid DEF StudyIsOrdered
<1>3. members = Groups[Len(results) + 1] /\ firsts = Only(members, profiles) /\ members \subseteq Actions
  BY <1>1 DEF StudyIsOrdered, PhaseIsOrdered, GroupInvariant, TypeOK
<1>4. /\ DOMAIN results = 1 .. Len(results) /\ Len(results) \in Nat
      /\ DOMAIN results' = 1 .. Len(results) + 1
      /\ \A g \in 1 .. Len(results) : results'[g] = results[g]
      /\ results'[Len(results) + 1] = r
  <2>1. \E S : results \in Seq(S)
    BY DEF GroupInvariant, StudyTyped
  <2> HIDE DEF r
  <2>2. \E S : results' \in Seq(S)
    BY <1>1, <2>1, OneMore
  <2> QED BY <1>1, <2>1, <2>2, OneMore
<1>5. ASSUME NEW g \in DOMAIN results', NEW a \in Groups[g], Authorized(results'[g].rows, a),
             NEW b \in Groups[g]
      PROVE  profiles[b].status = "success"
  <2>1. CASE g \in DOMAIN results
    <3>1. results'[g] = results[g]
      BY <1>4, <2>1
    <3> QED BY <1>5, <2>1, <3>1 DEF StudyIsOrdered, AuthorizedAfterSuccess
  <2>2. CASE g = Len(results) + 1
    <3>1. Authorized(rows, a) /\ a \in members /\ b \in members
      BY <1>3, <1>4, <1>5, <2>2
    <3>2. firsts[b].status = "success"
      BY <3>1 DEF GroupInvariant, EvaluationIsSound, AuthorizationIsEarned
    <3> QED BY <1>3, <3>1, <3>2 DEF Only
  <2> QED BY <1>4, <2>1, <2>2
<1>6. AuthorizedAfterSuccess'
  BY <1>1, <1>5 DEF AuthorizedAfterSuccess, Authorized
<1>7. PhaseIsOrdered'
  BY <1>1, <1>2 DEF StudyIsOrdered, PhaseIsOrdered
<1> QED BY <1>2, <1>6, <1>7 DEF StudyIsOrdered

LEMMA ReplayPairOrdered ==
  ASSUME GroupInvariant, StudyIsOrdered, ReplayPair
  PROVE  StudyIsOrdered'
<1>1. /\ phase = "replay" /\ step = "idle" /\ OpenCases # {} /\ Len(records) < Len(Schedule)
      /\ UNCHANGED <<study, client, phase, profiles, pairs, results, replays>>
  BY DEF ReplayPair
<1>2. MatrixIsOrdered' /\ AuthorizedAfterSuccess'
  BY <1>1, MatrixKept, AuthorizedKept DEF StudyIsOrdered
<1>3. OpenCases' = OpenCases /\ Case1' = Case1
  BY <1>1, SameCases
<1>4. \E S : records \in Seq(S)
  BY DEF StudyIsOrdered, ReplaysAreOrdered
<1>5. Len(Schedule) = 6 /\ Len(records) \in Nat /\ Len(records) < 6
  BY <1>1, <1>4, OneMore, ScheduleLength
<1>6. CASE Family # "two_n" /\ UNCHANGED <<evalVars, orders>> /\ \E r : records' = Append(records, r)
  <2>1. PICK r : records' = Append(records, r)
    BY <1>6
  <2>2. (\E S : records' \in Seq(S)) /\ Len(records') = Len(records) + 1
    BY <1>4, <2>1, OneMore
  <2>3. ReplaysAreOrdered'
    BY <1>1, <1>5, <2>2 DEF StudyIsOrdered, ReplaysAreOrdered
  <2>4. MergesAreValid'
    BY <1>1, <1>6, AsideValid DEF StudyIsOrdered
  <2>5. PhaseIsOrdered'
    BY <1>1, <1>3, <1>6 DEF StudyIsOrdered, PhaseIsOrdered, evalVars
  <2> QED BY <1>2, <2>3, <2>4, <2>5 DEF StudyIsOrdered
<1>7. CASE Family = "two_n" /\ Evaluate(Groups[Case1[1]], NoFirsts, "profile") /\ UNCHANGED records
  <2>1. Len(records) \in {4, 5}
    <3>1. Len(records) + 1 \in 1 .. 6 /\ Schedule[Len(records) + 1] = "two_n"
      BY <1>7, <1>5, BelowSix DEF Family
    <3>2. Len(records) + 1 > 4
      BY <3>1, ScheduleLength
    <3> QED BY <1>5, <3>2, BelowSix
  <2>2. ReplaysAreOrdered'
    BY <1>1, <1>7, ReplaysKept DEF StudyIsOrdered
  <2>3. MergesAreValid'
    BY <1>1, <1>7, CaseIsTyped, BeginsValid
  <2>4. step' = "profile" /\ members' = Groups[Case1[1]]
    BY <1>7 DEF Evaluate
  <2>5. PhaseIsOrdered'
    BY <1>1, <1>3, <1>7, <2>1, <2>4 DEF StudyIsOrdered, PhaseIsOrdered
  <2> QED BY <1>2, <2>2, <2>3, <2>5 DEF StudyIsOrdered
<1> QED BY <1>6, <1>7 DEF ReplayPair

LEMMA ReplayRuleOrdered ==
  ASSUME GroupInvariant, StudyIsOrdered, ReplayRule
  PROVE  StudyIsOrdered'
<1>1. /\ phase = "replay" /\ step = "profile" /\ Unprofiled = {} /\ step' = "gate"
      /\ UNCHANGED <<study, failures, client, members, firsts, patched, merged, second, rows,
                     verdict>> /\ UNCHANGED studyVars
  BY DEF ReplayRule
<1>2. MatrixIsOrdered' /\ AuthorizedAfterSuccess' /\ ReplaysAreOrdered'
  BY <1>1, MatrixKept, AuthorizedKept, ReplaysKept DEF StudyIsOrdered, studyVars
<1>3. MergesAreValid'
  BY <1>1, StaysHonest DEF StudyIsOrdered
<1>4. OpenCases' = OpenCases /\ Case1' = Case1 /\ Unprofiled' = {}
  BY <1>1, SameCases DEF studyVars, Unprofiled
<1>5. PhaseIsOrdered'
  BY <1>1, <1>4 DEF StudyIsOrdered, PhaseIsOrdered, studyVars
<1> QED BY <1>2, <1>3, <1>5 DEF StudyIsOrdered

LEMMA FinishReplayOrdered ==
  ASSUME GroupInvariant, StudyIsOrdered, FinishReplay
  PROVE  StudyIsOrdered'
<1>1. /\ phase = "replay" /\ step = "reported" /\ NotEvaluated
      /\ UNCHANGED <<study, failures, client, phase, profiles, pairs, results, replays>>
  BY DEF FinishReplay
<1>2. PICK r : records' = Append(records, r)
  BY DEF FinishReplay
<1>3. (\E S : records' \in Seq(S)) /\ Len(records') = Len(records) + 1 /\ Len(records) \in {4, 5}
  BY <1>1, <1>2, OneMore DEF StudyIsOrdered, ReplaysAreOrdered, PhaseIsOrdered
<1>4. Len(records') <= Len(Schedule)
  BY <1>3, FourOrFive, ScheduleLength
<1>5. ReplaysAreOrdered'
  BY <1>1, <1>3, <1>4 DEF StudyIsOrdered, ReplaysAreOrdered
<1>6. MatrixIsOrdered' /\ AuthorizedAfterSuccess' /\ MergesAreValid' /\ step' = "idle"
  BY <1>1, MatrixKept, AuthorizedKept, ForgottenValid DEF StudyIsOrdered
<1>7. OpenCases' = OpenCases /\ OpenCases # {}
  BY <1>1, SameCases DEF StudyIsOrdered, PhaseIsOrdered
<1>8. PhaseIsOrdered'
  BY <1>1, <1>6, <1>7 DEF StudyIsOrdered, PhaseIsOrdered
<1> QED BY <1>5, <1>6, <1>8 DEF StudyIsOrdered

LEMMA PublishReplayOrdered ==
  ASSUME GroupInvariant, StudyIsOrdered, PublishReplay
  PROVE  StudyIsOrdered'
<1>1. /\ phase = "replay" /\ Len(records) = 6 /\ records' = <<>>
      /\ replays' = [c \in DOMAIN replays \cup {Case1} |->
                       IF c = Case1 THEN CaseStatuses(c) ELSE replays[c]]
      /\ UNCHANGED <<study, failures, client, evalVars, phase, profiles, pairs, results, orders>>
  BY ScheduleLength DEF PublishReplay
<1>2. step = "idle" /\ step' = "idle"
  BY <1>1 DEF StudyIsOrdered, PhaseIsOrdered, evalVars
<1>3. MatrixIsOrdered' /\ AuthorizedAfterSuccess' /\ MergesAreValid'
  BY <1>1, MatrixKept, AuthorizedKept, AsideValid DEF StudyIsOrdered
<1>4. \A c \in DOMAIN replays' : DOMAIN replays'[c] = {"worker", "external_opt", "two_n"}
  <2>1. DOMAIN CaseStatuses(Case1) = {"worker", "external_opt", "two_n"}
    BY DEF CaseStatuses
  <2> QED BY <1>1, <2>1 DEF StudyIsOrdered, ReplaysAreOrdered
<1>5. (\E S : records' \in Seq(S)) /\ Len(records') <= Len(Schedule)
  BY <1>1, NoRecords, ScheduleLength
<1>6. ReplaysAreOrdered'
  BY <1>4, <1>5 DEF ReplaysAreOrdered
<1>7. PhaseIsOrdered'
  BY <1>1, <1>2 DEF StudyIsOrdered, PhaseIsOrdered
<1> QED BY <1>3, <1>6, <1>7 DEF StudyIsOrdered

LEMMA FinishOrdered ==
  ASSUME GroupInvariant, StudyIsOrdered, Finish
  PROVE  StudyIsOrdered'
<1>1. /\ phase = "replay" /\ OpenCases = {} /\ phase' = "done"
      /\ UNCHANGED <<study, failures, client, evalVars, profiles, pairs, results, orders, records, replays>>
  BY DEF Finish
<1>2. MatrixIsOrdered' /\ AuthorizedAfterSuccess' /\ ReplaysAreOrdered' /\ MergesAreValid'
  BY <1>1, MatrixKept, AuthorizedKept, ReplaysKept, AsideValid DEF StudyIsOrdered
<1>3. OpenCases' = {} /\ step' = "idle"
  BY <1>1, SameCases DEF StudyIsOrdered, PhaseIsOrdered, evalVars
<1>4. PhaseIsOrdered'
  BY <1>1, <1>3 DEF StudyIsOrdered, PhaseIsOrdered
<1> QED BY <1>2, <1>4 DEF StudyIsOrdered

LEMMA RestartOrdered ==
  ASSUME GroupInvariant, StudyIsOrdered, Restart
  PROVE  StudyIsOrdered'
<1>1. /\ phase # "done" /\ NotEvaluated
      /\ pairs' = IF phase = "pairs" THEN NoPairs ELSE pairs
      /\ records' = <<>> /\ UNCHANGED <<study, phase, profiles, results, replays>>
  BY DEF Restart
<1>2. MatrixIsOrdered'
  <2>1. CASE phase # "pairs"
    BY <1>1, <2>1, MatrixKept DEF StudyIsOrdered
  <2>2. CASE phase = "pairs"
    <3>1. \A p \in Pairs : pairs'[p] = Pair(NotRun, NotRun, "open") /\ PairIsOrdered(p)'
      BY <1>1, <2>2 DEF NoPairs, PairIsOrdered, Waiting
    <3>2. \A p \in Pairs : pairs'[p] = Pair(pairs'[p].ab, pairs'[p].ba, pairs'[p].dynamic)
      BY <3>1 DEF Pair
    <3> QED BY <1>1, <2>2, <3>1, <3>2 DEF MatrixIsOrdered, NoPairs
  <2> QED BY <2>1, <2>2
<1>3. AuthorizedAfterSuccess' /\ MergesAreValid' /\ step' = "idle"
  BY <1>1, AuthorizedKept, ForgottenValid DEF StudyIsOrdered
<1>4. (\E S : records' \in Seq(S)) /\ Len(records') = 0
  BY <1>1, NoRecords
<1>5. ReplaysAreOrdered'
  BY <1>1, <1>4, ScheduleLength DEF StudyIsOrdered, ReplaysAreOrdered
<1>6. PhaseIsOrdered'
  BY <1>1, <1>3 DEF StudyIsOrdered, PhaseIsOrdered
<1> QED BY <1>2, <1>3, <1>5, <1>6 DEF StudyIsOrdered

LEMMA StutterOrdered ==
  ASSUME StudyIsOrdered, UNCHANGED vars
  PROVE  StudyIsOrdered'
<1>1. MatrixIsOrdered' /\ AuthorizedAfterSuccess' /\ ReplaysAreOrdered' /\ MergesAreValid'
  BY MatrixKept, AuthorizedKept, ReplaysKept, AsideValid DEF StudyIsOrdered, vars, studyVars
<1>2. OpenCases' = OpenCases /\ Case1' = Case1
  BY SameCases DEF vars, studyVars
<1>3. PhaseIsOrdered'
  BY <1>2 DEF StudyIsOrdered, PhaseIsOrdered, Unprofiled, Only, vars, studyVars, evalVars
<1> QED BY <1>1, <1>3 DEF StudyIsOrdered

-----------------------------------------------------------------------------
\* Who is to blame.

\* Nothing became wrong, or one of two parts did and something was charged.
LEMMA Charged ==
  ASSUME MisbehaviourIsCharged, failures \in Nat, failures' \in Nat, failures' >= failures,
         ReplayIsHonest(5) => ReplayIsHonest(5)', ReplayIsHonest(6) => ReplayIsHonest(6)',
         \/ /\ StageIsHonest /\ failures' = failures => StageIsHonest'
            /\ RuleIsHonest => RuleIsHonest'
         \/ /\ StageIsHonest => StageIsHonest'
            /\ RuleIsHonest /\ failures' = failures => RuleIsHonest'
  PROVE  MisbehaviourIsCharged'
<1>1. PICK s \in {0, 1}, r5 \in {0, 1}, r6 \in {0, 1}, r \in {0, 1} :
        /\ s = Blame(StageIsHonest) /\ r5 = Blame(ReplayIsHonest(5))
        /\ r6 = Blame(ReplayIsHonest(6)) /\ r = Blame(RuleIsHonest)
  BY DEF Blame
<1>2. PICK t \in {0, 1}, q5 \in {0, 1}, q6 \in {0, 1}, q \in {0, 1} :
        /\ t = Blame(StageIsHonest)' /\ q5 = Blame(ReplayIsHonest(5))'
        /\ q6 = Blame(ReplayIsHonest(6))' /\ q = Blame(RuleIsHonest)'
  BY DEF Blame
<1>3. failures >= s + r5 + r6 + r
  BY <1>1 DEF MisbehaviourIsCharged
<1>4. q5 <= r5 /\ q6 <= r6
  BY <1>1, <1>2 DEF Blame
<1>5. \/ q <= r /\ (failures' = failures => t <= s)
      \/ t <= s /\ (failures' = failures => q <= r)
  BY <1>1, <1>2 DEF Blame
<1>6. failures' >= t + q5 + q6 + q
  BY <1>3, <1>4, <1>5
<1> QED BY <1>2, <1>6 DEF MisbehaviourIsCharged

\* A replay of the rule is finished: what was under way is a record.
LEMMA Recorded ==
  ASSUME MisbehaviourIsCharged, failures \in Nat, failures' = failures,
         StageIsHonest => StageIsHonest', RuleIsHonest',
         \/ /\ ReplayIsHonest(5) => ReplayIsHonest(5)' /\ ReplayIsHonest(6)
            /\ RuleIsHonest => ReplayIsHonest(6)'
         \/ /\ ReplayIsHonest(6)' /\ ReplayIsHonest(5)
            /\ RuleIsHonest => ReplayIsHonest(5)'
  PROVE  MisbehaviourIsCharged'
<1>1. PICK s \in {0, 1}, r5 \in {0, 1}, r6 \in {0, 1}, r \in {0, 1} :
        /\ s = Blame(StageIsHonest) /\ r5 = Blame(ReplayIsHonest(5))
        /\ r6 = Blame(ReplayIsHonest(6)) /\ r = Blame(RuleIsHonest)
  BY DEF Blame
<1>2. PICK t \in {0, 1}, q5 \in {0, 1}, q6 \in {0, 1}, q \in {0, 1} :
        /\ t = Blame(StageIsHonest)' /\ q5 = Blame(ReplayIsHonest(5))'
        /\ q6 = Blame(ReplayIsHonest(6))' /\ q = Blame(RuleIsHonest)'
  BY DEF Blame
<1>3. failures >= s + r5 + r6 + r
  BY <1>1 DEF MisbehaviourIsCharged
<1>4. q = 0 /\ t <= s
  BY <1>1, <1>2 DEF Blame
<1>5. (q5 <= r5 /\ q6 <= r) \/ (q6 = 0 /\ q5 <= r)
  BY <1>1, <1>2 DEF Blame
<1>6. failures' >= t + q5 + q6 + q
  BY <1>3, <1>4, <1>5
<1> QED BY <1>2, <1>6 DEF MisbehaviourIsCharged

\* Fewer than three misbehaviours, and one of three is honest.
LEMMA OneIsHonest ==
  ASSUME MisbehaviourIsCharged, failures \in Nat, failures < 3
  PROVE  StageIsHonest \/ ReplayIsHonest(5) \/ ReplayIsHonest(6)
<1>1. PICK s \in {0, 1}, r5 \in {0, 1}, r6 \in {0, 1}, r \in {0, 1} :
        /\ s = Blame(StageIsHonest) /\ r5 = Blame(ReplayIsHonest(5))
        /\ r6 = Blame(ReplayIsHonest(6)) /\ r = Blame(RuleIsHonest)
  BY DEF Blame
<1>2. failures >= s + r5 + r6 + r
  BY <1>1 DEF MisbehaviourIsCharged
<1>3. s = 0 \/ r5 = 0 \/ r6 = 0
  BY <1>2
<1> QED BY <1>1, <1>3 DEF Blame

\* Nothing is wrong when nothing misbehaved.
LEMMA NoneToBlame ==
  ASSUME MisbehaviourIsCharged, failures = 0
  PROVE  StageIsHonest /\ ReplayIsHonest(5) /\ ReplayIsHonest(6) /\ RuleIsHonest
<1>1. PICK s \in {0, 1}, r5 \in {0, 1}, r6 \in {0, 1}, r \in {0, 1} :
        /\ s = Blame(StageIsHonest) /\ r5 = Blame(ReplayIsHonest(5))
        /\ r6 = Blame(ReplayIsHonest(6)) /\ r = Blame(RuleIsHonest)
  BY DEF Blame
<1>2. failures >= s + r5 + r6 + r
  BY <1>1 DEF MisbehaviourIsCharged
<1>3. s = 0 /\ r5 = 0 /\ r6 = 0 /\ r = 0
  BY <1>2
<1> QED BY <1>1, <1>3 DEF Blame

\* The truth does not change.
LEMMA SameTruth ==
  ASSUME study' = study
  PROVE  /\ \A A, a : TrulyAuthorized(A, a)' <=> TrulyAuthorized(A, a)
         /\ \A c : TrueStages(c)' = TrueStages(c)
         /\ \A p : TrueDynamic(p)' = TrueDynamic(p)
<1>1. \A A, a : TrulyAuthorized(A, a)' <=> TrulyAuthorized(A, a)
  BY DEF TrulyAuthorized, Applied, Root
<1>2. \A c : TrueStages(c)' = TrueStages(c)
  BY DEF TrueStages, TrueOrder, Result, Root
<1>3. \A p : TrueDynamic(p)' = TrueDynamic(p)
  BY DEF TrueDynamic, Chain, Applied, Root
<1> QED BY <1>1, <1>2, <1>3

\* What is published stays honest as long as it stays.
LEMMA PublishedKept ==
  ASSUME PublishedIsHonest, UNCHANGED <<study, profiles, pairs, results>>,
         phase = "profiles" => phase' = "profiles"
  PROVE  PublishedIsHonest'
<1>1. phase' # "profiles" => \A a \in Actions : profiles'[a] = Result(Root, a)'
  BY SameStudy DEF PublishedIsHonest, Result
<1>2. \A p \in Pairs : PairIsHonest(p)'
  BY SameStudy DEF PublishedIsHonest, PairIsHonest, Profiled, Result
<1>3. \A g \in DOMAIN results' : \A a \in Groups[g] :
        Authorized(results[g].rows, a)' => TrulyAuthorized(Groups[g], a)'
  BY SameTruth DEF PublishedIsHonest, Authorized
<1> QED BY <1>1, <1>2, <1>3 DEF PublishedIsHonest

\* A replay that is over stays honest.
LEMMA ReplayKept ==
  ASSUME UNCHANGED <<study, records, pairs, results, replays>>, NEW i, ReplayIsHonest(i)
  PROVE  ReplayIsHonest(i)'
<1>1. Case1' = Case1
  BY SameCases
<1> QED BY <1>1, SameTruth DEF ReplayIsHonest

-----------------------------------------------------------------------------
\* The actions.

\* What the evaluation spoils it is charged for.
LEMMA EvaluatorCharged ==
  ASSUME GroupInvariant, StudyIsOrdered, MisbehaviourIsCharged, EvaluationStep, UNCHANGED studyVars,
         failures' \in Nat
  PROVE  MisbehaviourIsCharged'
<1>1. /\ failures \in Nat /\ failures' >= failures
      /\ RunsAreHonest /\ failures' = failures => RunsAreHonest'
  BY EvaluatorHonest DEF GroupInvariant, TypeOK, StudyIsOrdered
<1>2. /\ UNCHANGED <<study, phase, profiles, pairs, results, orders, records, replays>>
      /\ step # "idle"
  BY EvaluatorFrame DEF studyVars
<1>3. (ReplayIsHonest(5) => ReplayIsHonest(5)') /\ (ReplayIsHonest(6) => ReplayIsHonest(6)')
  BY <1>2, ReplayKept
<1>4. PublishedIsHonest => PublishedIsHonest'
  BY <1>2, PublishedKept
<1>5. CASE phase # "replay"
  <2>1. RuleIsHonest'
    BY <1>2, <1>5 DEF RuleIsHonest
  <2>2. StageIsHonest /\ failures' = failures => StageIsHonest'
    BY <1>1, <1>2, <1>4 DEF StageIsHonest
  <2> QED BY <1>1, <1>3, <2>1, <2>2, Charged
<1>6. CASE phase = "replay"
  <2>1. StageIsHonest => StageIsHonest'
    BY <1>2, <1>4, <1>6 DEF StageIsHonest
  <2>2. Case1' = Case1
    BY <1>2, SameCases
  <2>3. RuleIsHonest /\ failures' = failures => RuleIsHonest'
    BY <1>1, <1>2, <1>6, <2>2, SameTruth DEF RuleIsHonest
  <2> QED BY <1>1, <1>3, <2>1, <2>3, Charged
<1> QED BY <1>5, <1>6

\* A step outside the replays.
LEMMA StageCharged ==
  ASSUME MisbehaviourIsCharged, failures \in Nat, failures' \in Nat, failures' >= failures,
         UNCHANGED <<study, records, replays>>, Len(records) = 0,
         phase' # "replay" \/ step' = "idle",
         StageIsHonest /\ failures' = failures => StageIsHonest'
  PROVE  MisbehaviourIsCharged'
<1>1. ReplayIsHonest(5)' /\ ReplayIsHonest(6)'
  BY DEF ReplayIsHonest
<1>2. RuleIsHonest'
  BY DEF RuleIsHonest
<1> QED BY <1>1, <1>2, Charged

\* No replay before the groups are evaluated.
LEMMA NoReplaysYet ==
  ASSUME StudyIsOrdered, phase \in {"profiles", "pairs", "groups"}
  PROVE  Len(records) = 0 /\ records = <<>> /\ replays = <<>>
<1>1. records = <<>> /\ replays = <<>>
  BY DEF StudyIsOrdered, PhaseIsOrdered
<1> QED BY <1>1, NoRecords

\* One lemma per step of the study: what it spoils it is charged for.
LEMMA StartProfilesCharged ==
  ASSUME GroupInvariant, StudyIsOrdered, MisbehaviourIsCharged, StartProfiles
  PROVE  MisbehaviourIsCharged'
<1>1. /\ phase = "profiles" /\ Evaluate(Actions, NoFirsts, "profile")
      /\ UNCHANGED <<study, failures, phase, profiles, pairs, results, orders, records, replays>>
      /\ failures \in Nat
  BY DEF StartProfiles, studyVars, GroupInvariant, TypeOK
<1>2. RunsAreHonest'
  <2>1. \A a \in members' : firsts'[a] = NotRun /\ ~ Authorized(rows', a)
    BY <1>1, NotAuthorized DEF Evaluate, NoFirsts
  <2> QED BY <1>1, <2>1 DEF RunsAreHonest, Authorized, Evaluate
<1>3. StageIsHonest => StageIsHonest'
  BY <1>1, <1>2, PublishedKept DEF StageIsHonest
<1> QED BY <1>1, <1>3, NoReplaysYet, StageCharged

LEMMA PublishProfilesCharged ==
  ASSUME GroupInvariant, StudyIsOrdered, MisbehaviourIsCharged, PublishProfiles
  PROVE  MisbehaviourIsCharged'
<1>1. /\ phase = "profiles" /\ step = "profile" /\ Unprofiled = {} /\ NotEvaluated
      /\ profiles' = firsts /\ phase' = "pairs"
      /\ UNCHANGED <<study, failures, pairs, results, records, replays>>
      /\ failures \in Nat
  BY DEF PublishProfiles, GroupInvariant, TypeOK
<1>2. members = Actions /\ pairs = NoPairs /\ results = <<>>
  BY <1>1 DEF StudyIsOrdered, PhaseIsOrdered
<1>3. RunsAreHonest'
  BY <1>1, ForgottenValid
<1>4. ASSUME StageIsHonest
      PROVE  PublishedIsHonest'
  <2>1. \A a \in Actions : profiles'[a] = Result(Root, a)'
    BY <1>1, <1>2, <1>4, SameStudy DEF StageIsHonest, RunsAreHonest, Unprofiled, Result
  <2>2. \A p \in Pairs : PairIsHonest(p)'
    <3>1. \A p \in Pairs : pairs'[p].ab = NotRun /\ pairs'[p].ba = NotRun
      BY <1>1, <1>2 DEF NoPairs, Pair
    <3> QED BY <3>1 DEF PairIsHonest
  <2> QED BY <1>1, <1>2, <2>1, <2>2 DEF PublishedIsHonest
<1>5. StageIsHonest => StageIsHonest'
  BY <1>3, <1>4 DEF StageIsHonest
<1> QED BY <1>1, <1>5, NoReplaysYet, StageCharged

\* A row of the matrix changes.
LEMMA PairCharged ==
  ASSUME GroupInvariant, StudyIsOrdered, MisbehaviourIsCharged, phase = "pairs",
         UNCHANGED <<study, evalVars, phase, profiles, results, orders, records, replays>>,
         failures' \in Nat, failures' >= failures, NEW p \in Pairs,
         \A r \in Pairs \ {p} : pairs'[r] = pairs[r],
         PairIsHonest(p) /\ failures' = failures => PairIsHonest(p)'
  PROVE  MisbehaviourIsCharged'
<1>1. failures \in Nat
  BY DEF GroupInvariant, TypeOK
<1>2. ASSUME PublishedIsHonest, failures' = failures
      PROVE  PublishedIsHonest'
  <2>1. \A a \in Actions : profiles'[a] = Result(Root, a)'
    BY <1>2, SameStudy DEF PublishedIsHonest, Result
  <2>2. ASSUME NEW r \in Pairs
        PROVE  PairIsHonest(r)'
    <3>1. CASE r = p
      BY <1>2, <3>1 DEF PublishedIsHonest
    <3>2. CASE r # p
      <4>1. pairs'[r] = pairs[r] /\ PairIsHonest(r)
        BY <1>2, <3>2 DEF PublishedIsHonest
      <4> QED BY <4>1, SameStudy DEF PairIsHonest, Profiled, Result
    <3> QED BY <3>1, <3>2
  <2>3. \A g \in DOMAIN results' : \A a \in Groups[g] :
          Authorized(results[g].rows, a)' => TrulyAuthorized(Groups[g], a)'
    BY <1>2, SameTruth DEF PublishedIsHonest, Authorized
  <2> QED BY <2>1, <2>2, <2>3 DEF PublishedIsHonest
<1>3. RunsAreHonest => RunsAreHonest'
  BY AsideValid DEF StudyIsOrdered
<1>4. StageIsHonest /\ failures' = failures => StageIsHonest'
  BY <1>2, <1>3 DEF StageIsHonest
<1> QED BY <1>1, <1>4, NoReplaysYet, StageCharged

LEMMA StartPairCharged ==
  ASSUME GroupInvariant, StudyIsOrdered, MisbehaviourIsCharged, StartPair, failures' \in Nat
  PROVE  MisbehaviourIsCharged'
<1>1. PICK p \in Pairs : p = First({q \in Pairs : Waiting(q)}) /\ Waiting(p)
  BY FirstPair DEF StartPair
<1>2. /\ phase = "pairs"
      /\ UNCHANGED <<study, client, evalVars, phase, profiles, results, orders, records, replays>>
      /\ \/ /\ Profiled(p)
            /\ \E stage \in Reports(profiles[p[1]].output, p[2], VerifiedRun) :
                 /\ Misbehave(Charge(profiles[p[1]].output, p[2], stage))
                 /\ pairs' = [pairs EXCEPT ![p].ab = stage]
         \/ /\ ~ Profiled(p)
            /\ pairs' = [pairs EXCEPT ![p].dynamic = Classify(profiles[p[1]], profiles[p[2]], TRUE)]
            /\ UNCHANGED failures
  BY <1>1 DEF StartPair
<1>3. pairs[p] = Pair(NotRun, NotRun, "open") /\ DOMAIN pairs = Pairs /\ failures \in Nat
  BY <1>1 DEF Waiting, NoPairs, StudyIsOrdered, MatrixIsOrdered, GroupInvariant, TypeOK
<1>4. CASE Profiled(p)
  <2>1. PICK stage \in Reports(profiles[p[1]].output, p[2], VerifiedRun) :
          /\ Misbehave(Charge(profiles[p[1]].output, p[2], stage))
          /\ pairs' = [pairs EXCEPT ![p].ab = stage]
    BY <1>2, <1>4
  <2>2. failures' >= failures /\ (failures' = failures => stage = Result(profiles[p[1]].output, p[2]))
    BY <1>3, <2>1, ChargeOfNothing, ChargeTyped DEF Charge
  <2>3. /\ pairs'[p] = Pair(stage, NotRun, "open")
        /\ \A r \in Pairs \ {p} : pairs'[r] = pairs[r]
    BY <1>3, <2>1 DEF Pair
  <2>4. failures' = failures => PairIsHonest(p)'
    BY <1>2, <2>2, <2>3, SameStudy DEF PairIsHonest, Pair, Result
  <2> QED BY <1>2, <2>2, <2>3, <2>4, PairCharged
<1>5. CASE ~ Profiled(p)
  <2>1. failures' = failures /\ PairIsHonest(p)'
    BY <1>2, <1>5 DEF PairIsHonest, Profiled
  <2>2. \A r \in Pairs \ {p} : pairs'[r] = pairs[r]
    BY <1>2, <1>3, <1>5
  <2> QED BY <1>2, <1>3, <2>1, <2>2, PairCharged
<1> QED BY <1>4, <1>5

LEMMA SecondOrderCharged ==
  ASSUME GroupInvariant, StudyIsOrdered, MisbehaviourIsCharged, NEW p \in Pairs, SecondOrder(p),
         failures' \in Nat
  PROVE  MisbehaviourIsCharged'
<1>1. /\ phase = "pairs" /\ Running(p)
      /\ UNCHANGED <<study, client, evalVars, phase, profiles, results, orders, records, replays>>
      /\ failures \in Nat
  BY DEF SecondOrder, GroupInvariant, TypeOK
<1>2. PICK stage \in Reports(profiles[p[2]].output, p[1], VerifiedRun) :
        /\ Misbehave(Charge(profiles[p[2]].output, p[1], stage))
        /\ pairs' = [pairs EXCEPT ![p].ba = stage]
  BY DEF SecondOrder
<1>3. DOMAIN pairs = Pairs /\ pairs[p] = Pair(pairs[p].ab, pairs[p].ba, "open")
  BY <1>1, RunningPair
<1>4. failures' >= failures /\ (failures' = failures => stage = Result(profiles[p[2]].output, p[1]))
  BY <1>1, <1>2, ChargeOfNothing, ChargeTyped DEF Charge
<1>5. /\ pairs'[p] = Pair(pairs[p].ab, stage, "open")
      /\ \A r \in Pairs \ {p} : pairs'[r] = pairs[r]
  BY <1>2, <1>3 DEF Pair
<1>6. pairs'[p].ab = pairs[p].ab /\ pairs'[p].ba = stage
  BY <1>5 DEF Pair
<1>7. PairIsHonest(p) /\ failures' = failures => PairIsHonest(p)'
  BY <1>1, <1>4, <1>6, SameStudy DEF PairIsHonest, Profiled, Result
<1> QED BY <1>1, <1>4, <1>5, <1>7, PairCharged

LEMMA FinishPairCharged ==
  ASSUME GroupInvariant, StudyIsOrdered, MisbehaviourIsCharged, NEW p \in Pairs, FinishPair(p),
         failures' \in Nat
  PROVE  MisbehaviourIsCharged'
<1>1. /\ phase = "pairs" /\ Running(p)
      /\ UNCHANGED <<study, client, evalVars, phase, profiles, results, orders, records, replays>>
      /\ failures \in Nat
  BY DEF FinishPair, GroupInvariant, TypeOK
<1>2. PICK d : pairs' = [pairs EXCEPT ![p].dynamic = d]
  BY DEF FinishPair
<1>3. DOMAIN pairs = Pairs /\ pairs[p] = Pair(pairs[p].ab, pairs[p].ba, "open")
  BY <1>1, RunningPair
<1>4. failures' >= failures
  BY <1>1 DEF FinishPair, Misbehave
<1>5. /\ pairs'[p] = Pair(pairs[p].ab, pairs[p].ba, d)
      /\ \A r \in Pairs \ {p} : pairs'[r] = pairs[r]
  BY <1>2, <1>3 DEF Pair
<1>6. pairs'[p].ab = pairs[p].ab /\ pairs'[p].ba = pairs[p].ba
  BY <1>5 DEF Pair
<1>7. PairIsHonest(p) => PairIsHonest(p)'
  BY <1>1, <1>6, SameStudy DEF PairIsHonest, Profiled, Result
<1> QED BY <1>1, <1>4, <1>5, <1>7, PairCharged

LEMMA PublishPairsCharged ==
  ASSUME GroupInvariant, StudyIsOrdered, MisbehaviourIsCharged, PublishPairs
  PROVE  MisbehaviourIsCharged'
<1>1. /\ phase = "pairs" /\ phase' = "groups"
      /\ UNCHANGED <<study, failures, evalVars, profiles, pairs, results, records, replays>>
      /\ failures \in Nat
  BY DEF PublishPairs, GroupInvariant, TypeOK
<1>2. StageIsHonest => StageIsHonest'
  BY <1>1, PublishedKept, AsideValid DEF StageIsHonest, StudyIsOrdered
<1> QED BY <1>1, <1>2, NoReplaysYet, StageCharged

LEMMA StartGroupCharged ==
  ASSUME GroupInvariant, StudyIsOrdered, MisbehaviourIsCharged, StartGroup
  PROVE  MisbehaviourIsCharged'
<1> DEFINE A == Groups[Len(results) + 1]
<1>1. /\ phase = "groups" /\ Len(results) < Len(Groups) /\ Evaluate(A, Only(A, profiles), "gate")
      /\ UNCHANGED <<study, failures, phase, profiles, pairs, results, records, replays>>
      /\ failures \in Nat
  BY DEF StartGroup, studyVars, GroupInvariant, TypeOK
<1>2. A \in SUBSET Actions
  BY <1>1, GroupsAssumption DEF GroupInvariant, StudyTyped
<1> HIDE DEF A
<1>3. ASSUME PublishedIsHonest
      PROVE  RunsAreHonest'
  <2>1. members' = A /\ firsts' = Only(A, profiles) /\ rows' = NoRows /\ step' = "gate"
    BY <1>1 DEF Evaluate
  <2>2. \A a \in members' : firsts'[a] = Result(Root, a)
    BY <1>1, <1>2, <1>3, <2>1 DEF PublishedIsHonest, Only
  <2>3. \A a \in members' : ~ Authorized(rows', a)
    BY <1>2, <2>1, NotAuthorized
  <2> QED BY <1>1, <2>1, <2>2, <2>3, SameStudy DEF RunsAreHonest, Authorized
<1>4. StageIsHonest => StageIsHonest'
  BY <1>1, <1>3, PublishedKept DEF StageIsHonest
<1> QED BY <1>1, <1>4, NoReplaysYet, StageCharged

LEMMA PublishGroupCharged ==
  ASSUME GroupInvariant, StudyIsOrdered, MisbehaviourIsCharged, PublishGroup
  PROVE  MisbehaviourIsCharged'
<1> DEFINE r == [rows |-> rows, verdict |-> verdict]
<1>1. /\ phase = "groups" /\ step = "reported" /\ NotEvaluated
      /\ results' = Append(results, r) /\ phase' # "profiles"
      /\ UNCHANGED <<study, failures, profiles, pairs, records, replays>>
      /\ failures \in Nat
  BY DEF PublishGroup, GroupInvariant, TypeOK
<1>2. RunsAreHonest' /\ step' = "idle"
  BY <1>1, ForgottenValid
<1>3. members = Groups[Len(results) + 1]
  BY <1>1 DEF StudyIsOrdered, PhaseIsOrdered
<1>4. /\ DOMAIN results = 1 .. Len(results) /\ Len(results) \in Nat
      /\ DOMAIN results' = 1 .. Len(results) + 1
      /\ \A g \in 1 .. Len(results) : results'[g] = results[g]
      /\ results'[Len(results) + 1] = r
  <2>1. \E S : results \in Seq(S)
    BY DEF GroupInvariant, StudyTyped
  <2> HIDE DEF r
  <2>2. \E S : results' \in Seq(S)
    BY <1>1, <2>1, OneMore
  <2> QED BY <1>1, <2>1, <2>2, OneMore
<1>5. ASSUME StageIsHonest
      PROVE  PublishedIsHonest'
  <2>1. PublishedIsHonest /\ RunsAreHonest
    BY <1>1, <1>5 DEF StageIsHonest
  <2>2. \A a \in Actions : profiles'[a] = Result(Root, a)'
    BY <1>1, <2>1, SameStudy DEF PublishedIsHonest, Result
  <2>3. \A p \in Pairs : PairIsHonest(p)'
    BY <1>1, <2>1, SameStudy DEF PublishedIsHonest, PairIsHonest, Profiled, Result
  <2>4. ASSUME NEW g \in DOMAIN results', NEW a \in Groups[g], Authorized(results'[g].rows, a)
        PROVE  TrulyAuthorized(Groups[g], a)
    <3>1. CASE g \in DOMAIN results
      <4>1. results'[g] = results[g]
        BY <1>4, <3>1
      <4> QED BY <2>1, <2>4, <3>1, <4>1 DEF PublishedIsHonest
    <3>2. CASE g = Len(results) + 1
      <4>1. Authorized(rows, a) /\ a \in members /\ members = Groups[g]
        BY <1>3, <1>4, <2>4, <3>2
      <4>2. TrulyAuthorized(members, a)
        BY <2>1, <4>1, HonestAuthorization DEF StudyIsOrdered
      <4> QED BY <4>1, <4>2
    <3> QED BY <1>4, <3>1, <3>2
  <2>5. \A g \in DOMAIN results' : \A a \in Groups[g] :
          Authorized(results[g].rows, a)' => TrulyAuthorized(Groups[g], a)'
    BY <1>1, <2>4, SameTruth DEF Authorized
  <2> QED BY <2>2, <2>3, <2>5 DEF PublishedIsHonest
<1>6. StageIsHonest => StageIsHonest'
  BY <1>2, <1>5 DEF StageIsHonest
<1> QED BY <1>1, <1>2, <1>6, NoReplaysYet, StageCharged

\* A run onward that is not charged is the true one.
LEMMA HonestOnward ==
  ASSUME NEW a, NEW b, NEW kinds, NEW sa, sa = Result(Root, a),
         NEW sab \in Onward(sa, b, kinds), OnwardCharge(sa, b, sab) = 0
  PROVE  sab = TrueOrder(a, b)
<1>1. CASE sa.status = "success"
  BY <1>1 DEF OnwardCharge, Charge, TrueOrder
<1>2. CASE sa.status # "success"
  BY <1>2 DEF Onward, TrueOrder
<1> QED BY <1>1, <1>2

\* Naturals whose sum is 0.
LEMMA SumOfNothing ==
  ASSUME NEW i \in Nat, NEW j \in Nat, NEW k \in Nat, NEW l \in Nat, i + j + k + l = 0
  PROVE  i = 0 /\ j = 0 /\ k = 0 /\ l = 0
OBVIOUS

\* The runs of a replay are the true ones, or charged.
LEMMA ReplayOutcome ==
  ASSUME failures \in Nat, ReplayPair
  PROVE  \E stages :
           /\ failures' >= failures /\ (failures' = failures => stages = TrueStages(Case1))
           /\ \/ /\ Family # "two_n"
                 /\ records' = Append(records, Record("success", stages, NoRule))
                 /\ UNCHANGED <<evalVars, orders>>
              \/ /\ Family = "two_n" /\ orders' = stages
                 /\ Evaluate(Groups[Case1[1]], NoFirsts, "profile")
                 /\ UNCHANGED records
<1>1. PICK sa, sb, sab, sba :
        /\ sab \in Onward(sa, Case1[3], ReplayRun(Family)) /\ sba \in Onward(sb, Case1[2], ReplayRun(Family))
        /\ Misbehave(Charge(Root, Case1[2], sa) + Charge(Root, Case1[3], sb)
                       + OnwardCharge(sa, Case1[3], sab) + OnwardCharge(sb, Case1[2], sba))
        /\ \/ /\ Family # "two_n"
              /\ records' = Append(records, Record("success", <<sa, sb, sab, sba>>, NoRule))
              /\ UNCHANGED <<evalVars, orders>>
           \/ /\ Family = "two_n"
              /\ orders' = <<sa, sb, sab, sba>>
              /\ Evaluate(Groups[Case1[1]], NoFirsts, "profile")
              /\ UNCHANGED records
  BY DEF ReplayPair
<1>2. PICK i \in Nat, j \in Nat, k \in Nat, l \in Nat :
        /\ i = Charge(Root, Case1[2], sa) /\ j = Charge(Root, Case1[3], sb)
        /\ k = OnwardCharge(sa, Case1[3], sab) /\ l = OnwardCharge(sb, Case1[2], sba)
  BY ChargeTyped DEF OnwardCharge
<1>3. Misbehave(i + j + k + l)
  BY <1>1, <1>2
<1>4. failures' >= failures /\ (failures' = failures => i + j + k + l = 0)
  BY <1>3, ChargeOfNothing, i + j + k + l \in Nat
<1>5. ASSUME failures' = failures
      PROVE  <<sa, sb, sab, sba>> = TrueStages(Case1)
  <2>1. i = 0 /\ j = 0 /\ k = 0 /\ l = 0
    BY <1>4, <1>5, SumOfNothing
  <2>2. sa = Result(Root, Case1[2]) /\ sb = Result(Root, Case1[3])
    BY <1>2, <2>1 DEF Charge
  <2>3. sab = TrueOrder(Case1[2], Case1[3])
    BY <1>1, <1>2, <2>1, <2>2, HonestOnward
  <2>4. sba = TrueOrder(Case1[3], Case1[2])
    BY <1>1, <1>2, <2>1, <2>2, HonestOnward
  <2> QED BY <2>2, <2>3, <2>4 DEF TrueStages
<1> QED BY <1>1, <1>4, <1>5

\* The replays in the worker and in opt are the first four.
LEMMA EarlyReplay ==
  ASSUME ReplaysAreOrdered, Len(records) < Len(Schedule), Family # "two_n",
         NEW r, records' = Append(records, r)
  PROVE  \E n \in 0 .. 3 :
           /\ n = Len(records) /\ Len(records') = n + 1 /\ records'[n + 1] = r
           /\ \A i \in 1 .. n : records'[i] = records[i]
<1>1. \E S : records \in Seq(S)
  BY DEF ReplaysAreOrdered
<1>2. PICK n \in Nat : n = Len(records) /\ n < 6
  BY <1>1, OneMore, ScheduleLength
<1>3. n + 1 \in 1 .. 6 /\ Schedule[n + 1] # "two_n"
  BY <1>2, BelowSix DEF Family
<1>4. n \in 0 .. 3
  BY <1>2, <1>3, ScheduleLength
<1>5. Len(records') = n + 1 /\ records'[n + 1] = r /\ \A i \in 1 .. n : records'[i] = records[i]
  BY <1>1, <1>2, OneMore
<1> QED BY <1>2, <1>4, <1>5

LEMMA ReplayPairCharged ==
  ASSUME GroupInvariant, StudyIsOrdered, MisbehaviourIsCharged, ReplayPair, failures' \in Nat
  PROVE  MisbehaviourIsCharged'
<1>1. /\ phase = "replay" /\ step = "idle" /\ OpenCases # {} /\ Len(records) < Len(Schedule)
      /\ UNCHANGED <<study, client, phase, profiles, pairs, results, replays>>
      /\ failures \in Nat
  BY DEF ReplayPair, GroupInvariant, TypeOK
<1>2. PICK stages :
        /\ failures' >= failures /\ (failures' = failures => stages = TrueStages(Case1))
        /\ \/ /\ Family # "two_n"
              /\ records' = Append(records, Record("success", stages, NoRule))
              /\ UNCHANGED <<evalVars, orders>>
           \/ /\ Family = "two_n" /\ orders' = stages
              /\ Evaluate(Groups[Case1[1]], NoFirsts, "profile")
              /\ UNCHANGED records
  BY <1>1, ReplayOutcome
<1>3. Case1' = Case1
  BY <1>1, SameCases
<1>4. StageIsHonest => StageIsHonest'
  BY <1>1, PublishedKept DEF StageIsHonest
<1>5. CASE Family # "two_n"
  <2>1. records' = Append(records, Record("success", stages, NoRule)) /\ UNCHANGED evalVars
    BY <1>2, <1>5
  <2>2. PICK n \in 0 .. 3 : n = Len(records) /\ Len(records') = n + 1
    BY <1>1, <1>5, <2>1, EarlyReplay DEF StudyIsOrdered
  <2>3. ~ Len(records') >= 5 /\ ~ Len(records') >= 6
    <3>1. n + 1 \in Nat /\ ~ n + 1 >= 5 /\ ~ n + 1 >= 6
      OBVIOUS
    <3> QED BY <2>2, <3>1
  <2>4. ReplayIsHonest(5)' /\ ReplayIsHonest(6)'
    BY <2>3 DEF ReplayIsHonest
  <2>5. RuleIsHonest'
    BY <1>1, <2>1 DEF RuleIsHonest, evalVars
  <2> QED BY <1>1, <1>2, <1>4, <2>4, <2>5, Charged
<1>6. CASE Family = "two_n"
  <2>1. /\ orders' = stages /\ UNCHANGED records
        /\ Evaluate(Groups[Case1[1]], NoFirsts, "profile")
    BY <1>2, <1>6
  <2>2. Groups[Case1[1]] \in SUBSET Actions
    BY <1>1, CaseIsTyped
  <2>3. /\ members' = Groups[Case1[1]] /\ firsts' = NoFirsts /\ rows' = NoRows /\ step' = "profile"
    BY <2>1 DEF Evaluate
  <2>4. \A a \in members' : firsts'[a] = NotRun /\ ~ Authorized(rows', a)
    BY <2>2, <2>3, NotAuthorized DEF NoFirsts
  <2>5. RunsAreHonest'
    BY <2>3, <2>4 DEF RunsAreHonest, Authorized
  <2>6. failures' = failures => RuleIsHonest'
    BY <1>1, <1>2, <1>3, <2>1, <2>5, SameTruth DEF RuleIsHonest
  <2>7. (ReplayIsHonest(5) => ReplayIsHonest(5)') /\ (ReplayIsHonest(6) => ReplayIsHonest(6)')
    BY <1>1, <2>1, ReplayKept
  <2> QED BY <1>1, <1>2, <1>4, <2>6, <2>7, Charged
<1> QED BY <1>2, <1>5, <1>6

LEMMA ReplayRuleCharged ==
  ASSUME GroupInvariant, StudyIsOrdered, MisbehaviourIsCharged, ReplayRule
  PROVE  MisbehaviourIsCharged'
<1>1. /\ phase = "replay" /\ step = "profile" /\ step' = "gate"
      /\ UNCHANGED <<study, failures, client, members, firsts, patched, merged, second, rows, verdict>>
      /\ UNCHANGED <<phase, profiles, pairs, results, orders, records, replays>>
      /\ failures \in Nat
  BY DEF ReplayRule, studyVars, GroupInvariant, TypeOK
<1>2. StageIsHonest => StageIsHonest'
  BY <1>1, PublishedKept DEF StageIsHonest
<1>3. (ReplayIsHonest(5) => ReplayIsHonest(5)') /\ (ReplayIsHonest(6) => ReplayIsHonest(6)')
  BY <1>1, ReplayKept
<1>4. Case1' = Case1
  BY <1>1, SameCases
<1>5. RunsAreHonest => RunsAreHonest'
  BY <1>1, StaysHonest DEF StudyIsOrdered
<1>6. RuleIsHonest => RuleIsHonest'
  BY <1>1, <1>4, <1>5, SameTruth DEF RuleIsHonest
<1> QED BY <1>1, <1>2, <1>3, <1>6, Charged

LEMMA FinishReplayCharged ==
  ASSUME GroupInvariant, StudyIsOrdered, MisbehaviourIsCharged, FinishReplay
  PROVE  MisbehaviourIsCharged'
<1>1. /\ phase = "replay" /\ step = "reported" /\ NotEvaluated
      /\ UNCHANGED <<study, failures, client, phase, profiles, pairs, results, replays>>
      /\ failures \in Nat
  BY DEF FinishReplay, GroupInvariant, TypeOK
<1>2. PICK r : /\ records' = Append(records, r) /\ r.stages = orders
               /\ r.status = "success" => Authorized(rows, Case1[4])
  <2>1. CASE Authorized(rows, Case1[4])
    BY <2>1 DEF FinishReplay, Record
  <2>2. CASE ~ Authorized(rows, Case1[4])
    BY <2>2 DEF FinishReplay, Record
  <2> QED BY <2>1, <2>2
<1>3. /\ OpenCases # {} /\ members = Groups[Case1[1]]
      /\ \E S : records \in Seq(S)
  BY <1>1 DEF StudyIsOrdered, PhaseIsOrdered, ReplaysAreOrdered
<1>4. PICK n \in {4, 5} : n = Len(records)
  BY <1>1 DEF StudyIsOrdered, PhaseIsOrdered
<1>5. Len(records') = n + 1 /\ records'[n + 1] = r /\ \A i \in 1 .. n : records'[i] = records[i]
  BY <1>2, <1>3, <1>4, OneMore
<1>6. Case1' = Case1
  BY <1>1, SameCases
<1>7. StageIsHonest => StageIsHonest'
  BY <1>1, PublishedKept DEF StageIsHonest
<1>8. RuleIsHonest'
  BY <1>1, ForgottenValid DEF RuleIsHonest
<1>9. ASSUME RuleIsHonest
      PROVE  ReplayIsHonest(n + 1)'
  <2>1. orders = TrueStages(Case1) /\ RunsAreHonest
    BY <1>1, <1>9 DEF RuleIsHonest
  <2>2. Case1[4] \in members
    BY <1>3, FirstCase, CaseShape
  <2>3. r.status = "success" => TrulyAuthorized(Groups[Case1[1]], Case1[4])
    BY <1>2, <1>3, <2>1, <2>2, HonestAuthorization DEF StudyIsOrdered
  <2> QED BY <1>1, <1>2, <1>5, <1>6, <2>1, <2>3, SameTruth DEF ReplayIsHonest
<1>10. CASE n = 4
  <2>1. ~ Len(records) >= 5 /\ ~ Len(records') >= 6
    BY <1>4, <1>5, <1>10
  <2>2. ReplayIsHonest(5) /\ ReplayIsHonest(6)'
    BY <2>1 DEF ReplayIsHonest
  <2>3. n + 1 = 5
    BY <1>10
  <2>4. RuleIsHonest => ReplayIsHonest(5)'
    BY <1>9, <2>3 DEF ReplayIsHonest
  <2> QED BY <1>1, <1>7, <1>8, <2>2, <2>4, Recorded
<1>11. CASE n = 5
  <2>1. ~ Len(records) >= 6 /\ records'[5] = records[5] /\ Len(records) >= 5
    BY <1>4, <1>5, <1>11
  <2>2. ReplayIsHonest(6)
    BY <2>1 DEF ReplayIsHonest
  <2>3. ReplayIsHonest(5) => ReplayIsHonest(5)'
    BY <1>1, <1>6, <2>1, SameTruth DEF ReplayIsHonest
  <2>4. n + 1 = 6
    BY <1>11
  <2>5. RuleIsHonest => ReplayIsHonest(6)'
    BY <1>9, <2>4 DEF ReplayIsHonest
  <2> QED BY <1>1, <1>7, <1>8, <2>2, <2>3, <2>5, Recorded
<1> QED BY <1>10, <1>11

LEMMA PublishReplayCharged ==
  ASSUME GroupInvariant, StudyIsOrdered, MisbehaviourIsCharged, PublishReplay
  PROVE  MisbehaviourIsCharged'
<1>1. /\ phase = "replay" /\ Len(records) = 6 /\ records' = <<>>
      /\ UNCHANGED <<study, failures, evalVars, phase, profiles, pairs, results, orders>>
      /\ failures \in Nat
  BY ScheduleLength DEF PublishReplay, GroupInvariant, TypeOK
<1>2. step' = "idle"
  BY <1>1 DEF StudyIsOrdered, PhaseIsOrdered, evalVars
<1>3. Len(records') = 0
  BY <1>1, NoRecords
<1>4. ReplayIsHonest(5)' /\ ReplayIsHonest(6)' /\ RuleIsHonest'
  BY <1>2, <1>3 DEF ReplayIsHonest, RuleIsHonest
<1>5. StageIsHonest => StageIsHonest'
  BY <1>1, PublishedKept DEF StageIsHonest
<1> QED BY <1>1, <1>4, <1>5, Charged

LEMMA FinishCharged ==
  ASSUME GroupInvariant, StudyIsOrdered, MisbehaviourIsCharged, Finish
  PROVE  MisbehaviourIsCharged'
<1>1. /\ phase = "replay" /\ phase' = "done"
      /\ UNCHANGED <<study, failures, evalVars, profiles, pairs, results, orders, records, replays>>
      /\ failures \in Nat
  BY DEF Finish, GroupInvariant, TypeOK
<1>2. StageIsHonest => StageIsHonest'
  BY <1>1, PublishedKept DEF StageIsHonest
<1>3. (ReplayIsHonest(5) => ReplayIsHonest(5)') /\ (ReplayIsHonest(6) => ReplayIsHonest(6)')
  BY <1>1, ReplayKept
<1>4. RuleIsHonest'
  BY <1>1 DEF RuleIsHonest
<1> QED BY <1>1, <1>2, <1>3, <1>4, Charged

LEMMA RestartCharged ==
  ASSUME GroupInvariant, StudyIsOrdered, MisbehaviourIsCharged, Restart
  PROVE  MisbehaviourIsCharged'
<1>1. /\ Misbehave(1) /\ NotEvaluated
      /\ pairs' = IF phase = "pairs" THEN NoPairs ELSE pairs
      /\ records' = <<>> /\ UNCHANGED <<study, phase, profiles, results, replays>>
      /\ failures \in Nat
  BY DEF Restart, GroupInvariant, TypeOK
<1>2. failures' = failures + 1 /\ failures' \in Nat /\ failures' >= failures
  BY <1>1 DEF Misbehave
<1>3. Len(records') = 0
  BY <1>1, NoRecords
<1>4. RunsAreHonest' /\ step' = "idle"
  BY <1>1, ForgottenValid
<1>5. ReplayIsHonest(5)' /\ ReplayIsHonest(6)' /\ RuleIsHonest'
  BY <1>3, <1>4 DEF ReplayIsHonest, RuleIsHonest
<1>6. ASSUME PublishedIsHonest
      PROVE  PublishedIsHonest'
  <2>1. CASE phase # "pairs"
    BY <1>1, <1>6, <2>1, PublishedKept
  <2>2. CASE phase = "pairs"
    <3>1. \A p \in Pairs : pairs'[p].ab = NotRun /\ pairs'[p].ba = NotRun
      BY <1>1, <2>2 DEF NoPairs, Pair
    <3>2. \A p \in Pairs : PairIsHonest(p)'
      BY <3>1 DEF PairIsHonest
    <3>3. \A a \in Actions : profiles'[a] = Result(Root, a)'
      BY <1>1, <1>6, <2>2, SameStudy DEF PublishedIsHonest, Result
    <3>4. \A g \in DOMAIN results' : \A a \in Groups[g] :
            Authorized(results[g].rows, a)' => TrulyAuthorized(Groups[g], a)'
      BY <1>1, <1>6, SameTruth DEF PublishedIsHonest, Authorized
    <3> QED BY <3>2, <3>3, <3>4 DEF PublishedIsHonest
  <2> QED BY <2>1, <2>2
<1>7. StageIsHonest => StageIsHonest'
  BY <1>4, <1>6 DEF StageIsHonest
<1> QED BY <1>1, <1>2, <1>5, <1>7, Charged

LEMMA StutterCharged ==
  ASSUME GroupInvariant, StudyIsOrdered, MisbehaviourIsCharged, UNCHANGED vars
  PROVE  MisbehaviourIsCharged'
<1>1. /\ UNCHANGED <<study, failures, step, phase, evalVars>> /\ failures \in Nat
      /\ UNCHANGED <<profiles, pairs, results, orders, records, replays>>
  BY DEF vars, studyVars, evalVars, GroupInvariant, TypeOK
<1>2. RunsAreHonest => RunsAreHonest'
  BY <1>1, AsideValid DEF StudyIsOrdered
<1>3. StageIsHonest => StageIsHonest'
  BY <1>1, <1>2, PublishedKept DEF StageIsHonest
<1>4. (ReplayIsHonest(5) => ReplayIsHonest(5)') /\ (ReplayIsHonest(6) => ReplayIsHonest(6)')
  BY <1>1, ReplayKept
<1>5. RuleIsHonest => RuleIsHonest'
  BY <1>1, <1>2, SameCases, SameTruth DEF RuleIsHonest
<1> QED BY <1>1, <1>3, <1>4, <1>5, Charged

-----------------------------------------------------------------------------
\* What stable replays show.

\* Two replays are stable when both succeeded and agree with what was published.
LEMMA StableFamily ==
  ASSUME NEW r, NEW s, NEW stages, NEW rule, FamilyStatus(r, s, stages, rule) = "stable"
  PROVE  r = s /\ r.status = "success" /\ r.stages = stages /\ r.rule = rule
<1>1. CASE r.status # "success" \/ s.status # "success"
  BY <1>1 DEF FamilyStatus
<1>2. CASE r.status = "success" /\ s.status = "success"
  <2>1. r = s
    BY <1>2 DEF FamilyStatus
  <2> QED BY <1>2, <2>1 DEF FamilyStatus
<1> QED BY <1>1, <1>2

\* The four runs of a case have been made, and its row has what they come to.
LEMMA CaseStages ==
  ASSUME GroupInvariant, StudyIsOrdered, NEW c \in Cases
  PROVE  LET p == <<c[2], c[3]>> IN
           /\ Profiled(p) /\ pairs[p].ab # NotRun /\ pairs[p].ba # NotRun
           /\ pairs[p].dynamic = Classify(pairs[p].ab, pairs[p].ba, pairs[p].ab.output = pairs[p].ba.output)
<1> DEFINE p == <<c[2], c[3]>>
<1>1. /\ p \in Pairs /\ p[1] = c[2] /\ p[2] = c[3]
      /\ c[1] \in DOMAIN results /\ c[2] \in Groups[c[1]] /\ c[3] \in Groups[c[1]]
      /\ c[4] \in Groups[c[1]] /\ Authorized(results[c[1]].rows, c[4])
      /\ pairs[p].dynamic \in {"order_sensitive", "failed"}
  BY CaseShape
<1> HIDE DEF p
<1>2. Profiled(p)
  BY <1>1 DEF StudyIsOrdered, AuthorizedAfterSuccess, Profiled
<1>3. ~ Waiting(p)
  BY <1>1 DEF Waiting, NoPairs, Pair
<1>4. PairIsOrdered(p)
  BY <1>1 DEF StudyIsOrdered, MatrixIsOrdered
<1>5. /\ pairs[p].ab # NotRun /\ pairs[p].ba # NotRun
      /\ pairs[p].dynamic = Classify(pairs[p].ab, pairs[p].ba, pairs[p].ab.output = pairs[p].ba.output)
  BY <1>1, <1>2, <1>3, <1>4 DEF PairIsOrdered
<1> QED BY <1>2, <1>5 DEF p

\* What is published of a case is true when the published stages are.
LEMMA HonestExpected ==
  ASSUME GroupInvariant, StudyIsOrdered, NEW c \in Cases, PublishedIsHonest, phase # "profiles"
  PROVE  Expected(c) = TrueStages(c)
<1> DEFINE p == <<c[2], c[3]>>
<1>1. p \in Pairs /\ p[1] = c[2] /\ p[2] = c[3] /\ c[2] \in Actions /\ c[3] \in Actions
  BY CaseShape
<1>2. Profiled(p) /\ pairs[p].ab # NotRun /\ pairs[p].ba # NotRun
  BY CaseStages
<1>3. Expected(c) = <<profiles[c[2]], profiles[c[3]], pairs[p].ab, pairs[p].ba>>
  BY DEF Expected
<1> HIDE DEF p
<1>4. profiles[c[2]] = Result(Root, c[2]) /\ profiles[c[3]] = Result(Root, c[3])
  BY <1>1 DEF PublishedIsHonest
<1>5. profiles[c[2]].status = "success" /\ profiles[c[3]].status = "success"
  BY <1>1, <1>2 DEF Profiled
<1>6. /\ pairs[p].ab = Result(profiles[c[2]].output, c[3])
      /\ pairs[p].ba = Result(profiles[c[3]].output, c[2])
  BY <1>1, <1>2 DEF PublishedIsHonest, PairIsHonest
<1>7. pairs[p].ab = TrueOrder(c[2], c[3]) /\ pairs[p].ba = TrueOrder(c[3], c[2])
  BY <1>4, <1>5, <1>6 DEF TrueOrder
<1> QED BY <1>3, <1>4, <1>7 DEF TrueStages

\* True runs of both orders show how the pair really behaves (classify_pair).
LEMMA TrueOrdersClassify ==
  ASSUME study \in DOMAIN Studies, NEW a \in Actions, NEW b \in Actions,
         Result(Root, a).status = "success", Result(Root, b).status = "success"
  PROVE  Classify(TrueOrder(a, b), TrueOrder(b, a), TrueOrder(a, b).output = TrueOrder(b, a).output)
           = TrueDynamic(<<a, b>>)
<1> DEFINE ma == Applied(a)[Root]
           mb == Applied(b)[Root]
           ab == TrueOrder(a, b)
           ba == TrueOrder(b, a)
           x == Chain(a, b)
           y == Chain(b, a)
<1>1. /\ ma \in Modules /\ mb \in Modules
      /\ Result(Root, a).output = ma /\ Result(Root, b).output = mb
      /\ ma # NoModule /\ mb # NoModule
  BY StudyIsTyped, ResultTyped
<1>2. ab = Result(ma, b) /\ ba = Result(mb, a) /\ x = Applied(b)[ma] /\ y = Applied(a)[mb]
  BY <1>1 DEF TrueOrder, Chain
<1>3. TrueDynamic(<<a, b>>) = IF NoModule \in {x, y} THEN "failed"
                                ELSE IF x = y THEN "commute" ELSE "order_sensitive"
  BY DEF TrueDynamic
<1> HIDE DEF ma, mb, ab, ba, x, y
<1>4. /\ ab.status \in {"success", "error"} /\ ba.status \in {"success", "error"}
      /\ (ab.status = "success" <=> x # NoModule) /\ (ba.status = "success" <=> y # NoModule)
      /\ (ab.status = "success" => ab.output = x) /\ (ba.status = "success" => ba.output = y)
  BY <1>1, <1>2, ResultTyped
<1>5. Classify(ab, ba, ab.output = ba.output) = TrueDynamic(<<a, b>>)
  <2>1. CASE x = NoModule \/ y = NoModule
    <3>1. TrueDynamic(<<a, b>>) = "failed"
      BY <1>3, <2>1
    <3>2. Classify(ab, ba, ab.output = ba.output) = "failed"
      BY <1>4, <2>1 DEF Classify
    <3> QED BY <3>1, <3>2
  <2>2. CASE x # NoModule /\ y # NoModule
    <3>1. TrueDynamic(<<a, b>>) = IF x = y THEN "commute" ELSE "order_sensitive"
      BY <1>3, <2>2
    <3>2. Classify(ab, ba, ab.output = ba.output) =
            IF ab.output = ba.output THEN "commute" ELSE "order_sensitive"
      BY <1>4, <2>2 DEF Classify
    <3> QED BY <1>4, <2>2, <3>1, <3>2
  <2> QED BY <2>1, <2>2
<1> QED BY <1>5 DEF ab, ba

\* A case whose expected stages are the true ones is classified by true runs.
LEMMA TrueCaseClassified ==
  ASSUME GroupInvariant, StudyIsOrdered, NEW c \in Cases, Expected(c) = TrueStages(c)
  PROVE  pairs[<<c[2], c[3]>>].dynamic = TrueDynamic(<<c[2], c[3]>>)
<1> DEFINE p == <<c[2], c[3]>>
<1>1. p[1] = c[2] /\ p[2] = c[3] /\ c[2] \in Actions /\ c[3] \in Actions /\ study \in DOMAIN Studies
  BY CaseShape DEF GroupInvariant, TypeOK
<1>2. /\ Profiled(p)
      /\ pairs[p].dynamic = Classify(pairs[p].ab, pairs[p].ba, pairs[p].ab.output = pairs[p].ba.output)
  BY CaseStages
<1>3. <<profiles[c[2]], profiles[c[3]], pairs[p].ab, pairs[p].ba>>
        = <<Result(Root, c[2]), Result(Root, c[3]), TrueOrder(c[2], c[3]), TrueOrder(c[3], c[2])>>
  BY DEF Expected, TrueStages
<1> HIDE DEF p
<1>4. /\ profiles[c[2]] = Result(Root, c[2]) /\ profiles[c[3]] = Result(Root, c[3])
      /\ pairs[p].ab = TrueOrder(c[2], c[3]) /\ pairs[p].ba = TrueOrder(c[3], c[2])
  BY <1>3
<1>5. Result(Root, c[2]).status = "success" /\ Result(Root, c[3]).status = "success"
  BY <1>1, <1>2, <1>4 DEF Profiled
<1>6. Classify(pairs[p].ab, pairs[p].ba, pairs[p].ab.output = pairs[p].ba.output) = TrueDynamic(<<c[2], c[3]>>)
  BY <1>1, <1>4, <1>5, TrueOrdersClassify
<1> QED BY <1>2, <1>6 DEF p

\* A case whose rule replays are stable is real, when fewer than three things
\* misbehaved: the stages, the one replay or the other is honest.
LEMMA StableCaseIsReal ==
  ASSUME GroupInvariant, StudyIsOrdered, MisbehaviourIsCharged, phase = "replay", failures < 3,
         Len(records) = 6, Case1 \in Cases, CaseStatuses(Case1).two_n = "stable"
  PROVE  CaseIsReal(Case1)
<1>1. /\ records[5] = records[6] /\ records[5].status = "success"
      /\ records[5].stages = Expected(Case1)
  BY StableFamily DEF CaseStatuses
<1>2. StageIsHonest \/ ReplayIsHonest(5) \/ ReplayIsHonest(6)
  BY OneIsHonest DEF GroupInvariant, TypeOK
<1>3. CASE StageIsHonest
  <2>1. Expected(Case1) = TrueStages(Case1)
    BY <1>3, HonestExpected DEF StageIsHonest
  <2>2. TrulyAuthorized(Groups[Case1[1]], Case1[4])
    BY <1>3, CaseShape DEF StageIsHonest, PublishedIsHonest
  <2> QED BY <2>1, <2>2, TrueCaseClassified DEF CaseIsReal
<1>4. CASE ReplayIsHonest(5) \/ ReplayIsHonest(6)
  <2>1. Expected(Case1) = TrueStages(Case1) /\ TrulyAuthorized(Groups[Case1[1]], Case1[4])
    BY <1>1, <1>4 DEF ReplayIsHonest
  <2> QED BY <2>1, TrueCaseClassified DEF CaseIsReal
<1> QED BY <1>2, <1>3, <1>4

\* Stable replays stay real while what they are about stays.
LEMMA RealKept ==
  ASSUME StableReplaysAreReal, UNCHANGED <<study, pairs, results, replays>>,
         failures \in Nat, failures' \in Nat, failures' >= failures
  PROVE  StableReplaysAreReal'
<1>1. Cases' = Cases
  BY SameCases
<1>2. \A c : CaseIsReal(c) => CaseIsReal(c)'
  BY SameTruth DEF CaseIsReal
<1>3. failures' < 3 => failures < 3
  OBVIOUS
<1> QED BY <1>1, <1>2, <1>3 DEF StableReplaysAreReal

\* No replay shows anything.
LEMMA RealEmpty ==
  ASSUME replays = <<>>
  PROVE  StableReplaysAreReal
BY DEF StableReplaysAreReal

\* Two replays of the rule that agree with the matrix and with each other: with
\* fewer than three misbehaviours one part of the evidence is spoilt by none.
LEMMA PublishReplayReal ==
  ASSUME GroupInvariant, BlameInvariant, PublishReplay
  PROVE  StableReplaysAreReal'
<1>1. /\ phase = "replay" /\ Len(records) = 6
      /\ replays' = [c \in DOMAIN replays \cup {Case1} |->
                       IF c = Case1 THEN CaseStatuses(c) ELSE replays[c]]
      /\ UNCHANGED <<study, failures, pairs, results>>
  BY ScheduleLength DEF PublishReplay
<1>2. Cases' = Cases
  BY <1>1 DEF Cases, FalseAuthorizations, CasesOf, FalseAuthorization, Authorized
<1>3. \A c : CaseIsReal(c) => CaseIsReal(c)'
  BY <1>1, SameTruth DEF CaseIsReal
<1>4. Case1 \in Cases
  <2>1. ASSUME records = <<>>
        PROVE  FALSE
    <3>1. Len(records) = 0
      BY <2>1, NoRecords
    <3> QED BY <1>1, <3>1
  <2>2. OpenCases # {}
    BY <2>1 DEF BlameInvariant, StudyIsOrdered, PhaseIsOrdered
  <2> QED BY <2>2, FirstCase
<1>5. failures < 3 /\ CaseStatuses(Case1).two_n = "stable" => CaseIsReal(Case1)
  BY <1>1, <1>4, StableCaseIsReal DEF BlameInvariant
<1> QED BY <1>1, <1>2, <1>3, <1>4, <1>5 DEF BlameInvariant, StableReplaysAreReal

\* The three parts of the invariant and every step.
LEMMA RealStep ==
  ASSUME GroupInvariant, GroupInvariant', BlameInvariant, [Next]_vars
  PROVE  StableReplaysAreReal'
<1>1. failures \in Nat /\ failures' \in Nat /\ StableReplaysAreReal
  BY DEF GroupInvariant, TypeOK, BlameInvariant
<1>2. phase \in {"profiles", "pairs", "groups"} => replays = <<>>
  BY NoReplaysYet DEF BlameInvariant
<1>3. CASE EvaluationStep /\ UNCHANGED studyVars
  <2>1. failures' >= failures /\ study' = study
    BY <1>3, EvaluatorHonest, EvaluatorFrame DEF BlameInvariant, StudyIsOrdered
  <2> QED BY <1>1, <1>3, <2>1, RealKept DEF studyVars
<1>4. CASE StartProfiles \/ PublishProfiles \/ PublishPairs \/ StartGroup \/ PublishGroup
  <2>1. phase \in {"profiles", "pairs", "groups"} /\ replays' = replays
    BY <1>4 DEF StartProfiles, PublishProfiles, PublishPairs, StartGroup, PublishGroup, studyVars
  <2> QED BY <1>2, <2>1 DEF StableReplaysAreReal
<1>5. CASE StartPair \/ \E p \in Pairs : SecondOrder(p) \/ FinishPair(p)
  <2>1. phase = "pairs" /\ replays' = replays
    BY <1>5 DEF StartPair, SecondOrder, FinishPair
  <2> QED BY <1>2, <2>1 DEF StableReplaysAreReal
<1>6. CASE ReplayRule \/ FinishReplay \/ Finish \/ UNCHANGED vars
  <2>1. UNCHANGED <<study, failures, pairs, results, replays>>
    BY <1>6 DEF ReplayRule, FinishReplay, Finish, vars, studyVars
  <2> QED BY <1>1, <2>1, RealKept
<1>7. CASE ReplayPair
  <2>1. UNCHANGED <<study, pairs, results, replays>>
    BY <1>7 DEF ReplayPair
  <2>2. failures' >= failures
    BY <1>1, <1>7, ReplayOutcome
  <2> QED BY <1>1, <2>1, <2>2, RealKept
<1>8. CASE PublishReplay
  BY <1>8, PublishReplayReal
<1>9. CASE Restart
  <2>1. /\ Misbehave(1) /\ UNCHANGED <<study, results, replays>>
        /\ phase # "pairs" => pairs' = pairs
    BY <1>9 DEF Restart
  <2>2. failures' >= failures
    BY <1>1, <2>1, ChargeOfNothing
  <2>3. CASE phase = "pairs"
    BY <1>2, <2>1, <2>3 DEF StableReplaysAreReal
  <2>4. CASE phase # "pairs"
    BY <1>1, <2>1, <2>2, <2>4, RealKept
  <2> QED BY <2>3, <2>4
<1> QED BY <1>3, <1>4, <1>5, <1>6, <1>7, <1>8, <1>9 DEF Next, Done

LEMMA OrderedStep ==
  ASSUME GroupInvariant, StudyIsOrdered, [Next]_vars
  PROVE  StudyIsOrdered'
<1>1. CASE EvaluationStep /\ UNCHANGED studyVars
  BY <1>1, EvaluatorOrdered
<1>2. CASE StartProfiles \/ PublishProfiles \/ StartGroup \/ PublishGroup
  BY <1>2, StartProfilesOrdered, PublishProfilesOrdered, StartGroupOrdered, PublishGroupOrdered
<1>3. CASE StartPair \/ \E p \in Pairs : SecondOrder(p) \/ FinishPair(p)
  BY <1>3, StartPairOrdered, SecondOrderOrdered, FinishPairOrdered
<1>4. CASE PublishPairs \/ Finish \/ Restart
  BY <1>4, PublishPairsOrdered, FinishOrdered, RestartOrdered
<1>5. CASE ReplayPair \/ ReplayRule \/ FinishReplay \/ PublishReplay
  BY <1>5, ReplayPairOrdered, ReplayRuleOrdered, FinishReplayOrdered, PublishReplayOrdered
<1>6. CASE UNCHANGED vars
  BY <1>6, StutterOrdered
<1> QED BY <1>1, <1>2, <1>3, <1>4, <1>5, <1>6 DEF Next, Done

LEMMA ChargedStep ==
  ASSUME GroupInvariant, GroupInvariant', StudyIsOrdered, MisbehaviourIsCharged, [Next]_vars
  PROVE  MisbehaviourIsCharged'
<1>1. failures' \in Nat
  BY DEF GroupInvariant, TypeOK
<1>2. CASE EvaluationStep /\ UNCHANGED studyVars
  BY <1>1, <1>2, EvaluatorCharged
<1>3. CASE StartProfiles \/ PublishProfiles \/ StartGroup \/ PublishGroup
  BY <1>3, StartProfilesCharged, PublishProfilesCharged, StartGroupCharged, PublishGroupCharged
<1>4. CASE StartPair \/ \E p \in Pairs : SecondOrder(p) \/ FinishPair(p)
  BY <1>1, <1>4, StartPairCharged, SecondOrderCharged, FinishPairCharged
<1>5. CASE PublishPairs \/ Finish \/ Restart
  BY <1>5, PublishPairsCharged, FinishCharged, RestartCharged
<1>6. CASE ReplayPair \/ ReplayRule \/ FinishReplay \/ PublishReplay
  BY <1>1, <1>6, ReplayPairCharged, ReplayRuleCharged, FinishReplayCharged, PublishReplayCharged
<1>7. CASE UNCHANGED vars
  BY <1>7, StutterCharged
<1> QED BY <1>2, <1>3, <1>4, <1>5, <1>6, <1>7 DEF Next, Done

\* The invariant holds of a study that has not begun.
LEMMA BlameInit ==
  ASSUME Init
  PROVE  BlameInvariant
<1>1. PhaseIsOrdered
  BY DEF Init, PhaseIsOrdered
<1>2. MatrixIsOrdered
  <2>1. \A p \in Pairs : pairs[p] = Pair(NotRun, NotRun, "open") /\ PairIsOrdered(p)
    BY DEF Init, NoPairs, PairIsOrdered, Waiting
  <2>2. \A p \in Pairs : pairs[p] = Pair(pairs[p].ab, pairs[p].ba, pairs[p].dynamic)
    BY <2>1 DEF Pair
  <2> QED BY <2>1, <2>2 DEF Init, MatrixIsOrdered, NoPairs
<1>3. results = <<>> /\ replays = <<>> /\ (\E S : records \in Seq(S)) /\ Len(records) = 0
  BY NoRecords DEF Init
<1>4. AuthorizedAfterSuccess /\ MergesAreValid /\ ReplaysAreOrdered
  BY <1>3, ScheduleLength DEF Init, AuthorizedAfterSuccess, MergesAreValid, ReplaysAreOrdered
<1>5. StageIsHonest
  <2>1. \A p \in Pairs : PairIsHonest(p)
    <3>1. \A p \in Pairs : pairs[p].ab = NotRun /\ pairs[p].ba = NotRun
      BY DEF Init, NoPairs, Pair
    <3> QED BY <3>1 DEF PairIsHonest
  <2>2. RunsAreHonest
    BY DEF Init, RunsAreHonest
  <2> QED BY <1>3, <2>1, <2>2 DEF Init, StageIsHonest, PublishedIsHonest
<1>6. ReplayIsHonest(5) /\ ReplayIsHonest(6) /\ RuleIsHonest
  BY <1>3 DEF Init, ReplayIsHonest, RuleIsHonest
<1>7. MisbehaviourIsCharged
  BY <1>5, <1>6 DEF Init, MisbehaviourIsCharged, Blame
<1>8. StableReplaysAreReal
  BY <1>3, RealEmpty
<1> QED BY <1>1, <1>2, <1>4, <1>7, <1>8 DEF BlameInvariant, StudyIsOrdered

\* Whatever misbehaves: the stages of the study stay in order, a published stage,
\* a replay or an evaluation that is wrong costs a misbehaviour of its own, and
\* stable replays of the rule show what is so as long as there were fewer than
\* three (run_study, replay_false_authorization).
THEOREM MisbehaviourShows == Spec => [](GroupInvariant /\ BlameInvariant)
<1>1. Init => GroupInvariant /\ BlameInvariant
  BY GroupInit, BlameInit
<1>2. GroupInvariant /\ BlameInvariant /\ [Next]_vars => GroupInvariant' /\ BlameInvariant'
  <2> SUFFICES ASSUME GroupInvariant, BlameInvariant, [Next]_vars
               PROVE  GroupInvariant' /\ BlameInvariant'
    OBVIOUS
  <2>1. GroupInvariant'
    BY GroupStep
  <2>2. StudyIsOrdered /\ MisbehaviourIsCharged
    BY DEF BlameInvariant
  <2>3. StudyIsOrdered' /\ MisbehaviourIsCharged' /\ StableReplaysAreReal'
    BY <2>1, <2>2, OrderedStep, ChargedStep, RealStep
  <2> QED BY <2>1, <2>3 DEF BlameInvariant
<1> QED BY <1>1, <1>2, PTL DEF Spec

\* What the invariant says of a stable false authorisation.
LEMMA StableIsRealIn ==
  ASSUME GroupInvariant, BlameInvariant
  PROVE  StableIsReal
<1> SUFFICES ASSUME failures < 3, NEW g \in DOMAIN results, NEW p \in PairsOfGroup(g),
                    StableFalseAuthorization(g, p)
             PROVE  /\ pairs[p].dynamic = TrueDynamic(p)
                    /\ \A c \in CasesOf(g, p) : TrulyAuthorized(Groups[g], c[4])
  BY DEF StableIsReal
<1>1. p = <<p[1], p[2]>>
  BY DEF PairsOfGroup, Pairs
<1>2. ASSUME NEW c \in CasesOf(g, p)
      PROVE  CaseIsReal(c) /\ c[1] = g /\ <<c[2], c[3]>> = p
  <2>1. c[1] = g /\ c[2] = p[1] /\ c[3] = p[2]
    BY DEF CasesOf
  <2>2. c \in DOMAIN replays /\ replays[c].two_n = "stable"
    BY DEF StableFalseAuthorization, BlameInvariant, StudyIsOrdered, ReplaysAreOrdered
  <2> QED BY <1>1, <2>1, <2>2 DEF BlameInvariant, StableReplaysAreReal
<1>3. PICK d \in {p[1], p[2]} : Authorized(results[g].rows, d)
  BY DEF StableFalseAuthorization, FalseAuthorization
<1>4. <<g, p[1], p[2], d>> \in CasesOf(g, p)
  BY <1>3 DEF CasesOf
<1> QED BY <1>2, <1>4 DEF CaseIsReal

\* A false authorisation that the replays call stable is real: with fewer than
\* three misbehaviours, the pair is in truth what the matrix says of it and the
\* rule in truth authorises what it authorised (replay_false_authorization).
THEOREM StableAlwaysReal == Spec => []StableIsReal
<1>1. GroupInvariant /\ BlameInvariant => StableIsReal
  BY StableIsRealIn
<1> QED BY <1>1, MisbehaviourShows, PTL

-----------------------------------------------------------------------------
\* An evaluation in which nothing misbehaves.

\* An open client answers what is right, or the answer is charged.
LEMMA AskHonest ==
  ASSUME failures \in Nat, NEW right, NEW reply, Ask(right, reply), client = "open", failures' = failures
  PROVE  reply = right /\ client' = "open"
BY DEF Ask, Misbehave

\* The true rows depend on the study alone.
LEMMA SameTrueRow ==
  ASSUME study' = study
  PROVE  \A A, a : TrueRow(A, a)' = TrueRow(A, a)
BY DEF TrueRow, Applied, Root, Result

\* After the first round every action of the group has run.
LEMMA AllRan ==
  ASSUME GroupInvariant, StudyIsOrdered, RunsAreHonest, step \notin {"idle", "profile"}
  PROVE  \A b \in members : firsts[b] = Result(Root, b)
<1>1. phase \in {"groups", "replay"} /\ members \subseteq Actions
  BY DEF GroupInvariant, TypeOK, StudyTyped, StudyIsOrdered, PhaseIsOrdered
<1>2. ASSUME NEW b \in members
      PROVE  firsts[b] # NotRun
  <2>1. CASE phase = "groups"
    BY <1>1, <2>1 DEF StudyIsOrdered, PhaseIsOrdered, Only
  <2>2. CASE phase = "replay"
    BY <2>2 DEF StudyIsOrdered, PhaseIsOrdered, Unprofiled
  <2> QED BY <1>1, <2>1, <2>2
<1> QED BY <1>2 DEF RunsAreHonest

\* The reason why a group cannot be evaluated is the row of each action.
LEMMA GiveUpTrue ==
  ASSUME TypeOK, NEW d \in {"round1_precondition_failed", "direct_merge_not_defined"}, GiveUp(d),
         UNCHANGED <<study, members>>,
         \A a \in members : TrueRow(members, a) = Unavailable(d)
  PROVE  EvaluationIsTrue'
<1>1. \A a \in members : rows'[a] = Unavailable(d)
  BY DEF GiveUp, TypeOK
<1>2. Unavailable(d) # NoRow
  BY DEF Unavailable, NoRow, Row
<1>3. \A a \in members : TrueRow(members, a)' = TrueRow(members, a)
  BY SameTrueRow
<1> QED BY <1>1, <1>2, <1>3 DEF EvaluationIsTrue

\* The rows stay as they are.
LEMMA RowsStayTrue ==
  ASSUME EvaluationIsTrue, UNCHANGED <<study, members, rows>>,
         step' = "reported" => step = "reported" \/ \A a \in members : rows[a] # NoRow
  PROVE  EvaluationIsTrue'
<1>1. \A a : TrueRow(members, a)' = TrueRow(members, a)
  BY SameTrueRow
<1> QED BY <1>1 DEF EvaluationIsTrue

\* The row that is decided is the true one.
LEMMA DecideTrue ==
  ASSUME GroupInvariant, EvaluationIsTrue, step \in {"merge", "second", "compare"}, Undecided # {},
         Decide(TrueRow(members, Turn)), UNCHANGED <<study, members>>
  PROVE  EvaluationIsTrue'
<1>1. /\ Turn \in Actions /\ rows' = [rows EXCEPT ![Turn] = TrueRow(members, Turn)] /\ step' = "merge"
      /\ rows \in [Actions -> Rows] /\ members \subseteq Actions
  BY TurnIsTyped DEF Decide, GroupInvariant, TypeOK
<1>2. \A a \in members : rows'[a] = IF a = Turn THEN TrueRow(members, Turn) ELSE rows[a]
  BY <1>1
<1>3. \A a \in members : rows'[a] \in {NoRow, TrueRow(members, a)}
  BY <1>2 DEF EvaluationIsTrue
<1>4. \A a : TrueRow(members, a)' = TrueRow(members, a)
  BY SameTrueRow
<1> QED BY <1>1, <1>3, <1>4 DEF EvaluationIsTrue

\* The outputs of the first round are what the passes make.
LEMMA TrueOutputs ==
  ASSUME GroupInvariant, \A b \in members : firsts[b] = Result(Root, b), FirstRoundSucceeded
  PROVE  /\ Outputs = [b \in members |-> Applied(b)[Root]]
         /\ \A b \in members : /\ Applied(b)[Root] \in Modules /\ Applied(b)[Root] # NoModule
                               /\ Applied(b)[Root] = firsts[b].output
<1>1. TypeOK /\ members \in SUBSET Actions /\ firsts \in [Actions -> Stages]
      /\ \A b \in members : firsts[b] = Result(Root, b) /\ firsts[b].status = "success"
  BY DEF GroupInvariant, TypeOK, FirstRoundSucceeded
<1>2. /\ [b \in members |-> firsts[b].output] = [b \in members |-> Applied(b)[Root]]
      /\ \A b \in members : Applied(b)[Root] \in Modules /\ Applied(b)[Root] = firsts[b].output
  BY <1>1, HonestOutputs
<1> QED BY <1>2, StudyAssumption DEF Outputs

\* The row of the action whose turn it is.
LEMMA TurnRow ==
  ASSUME GroupInvariant, step \in {"merge", "second", "compare"}, Undecided # {},
         \A b \in members : firsts[b] = Result(Root, b)
  PROVE  LET run == Result(OthersMerged, Turn) IN
           TrueRow(members, Turn) =
             IF OthersMerged \in Studies[study].broken
               THEN Row("merge_invalid", "merge_invalid", NoModule, NotRun)
             ELSE IF run.status # "success" THEN Row("second_round_failed", "complete", OthersMerged, run)
             ELSE Row(IF ~ Patchable(OthersMerged, run.output) THEN "unknown"
                      ELSE IF SameEffect(Root, firsts[Turn].output, OthersMerged, run.output)
                             THEN "authorized_all_others" ELSE "rejected_effect_changed",
                      "complete", OthersMerged, run)
<1> DEFINE output == [b \in members |-> Applied(b)[Root]]
<1>1. FirstRoundSucceeded /\ PatchesAreSound /\ PatchesAreDisjoint
  BY DEF GroupInvariant, EvaluationIsSound
<1>2. Turn \in members
  BY TurnIsTyped
<1>3. /\ Outputs = output /\ output[Turn] = firsts[Turn].output
      /\ \A b \in members : output[b] # NoModule /\ output[b] = firsts[b].output
  BY <1>1, <1>2, TrueOutputs
<1>4. /\ \A b \in members : Patchable(Root, output[b])
      /\ ~ Overlap(Root, output, members)
      /\ OthersMerged = MergeOf(Root, output, members \ {Turn})
  BY <1>1, <1>3 DEF PatchesAreSound, PatchesAreDisjoint, OthersMerged
<1>5. TrueRow(members, Turn) =
        LET others == MergeOf(Root, output, members \ {Turn})
            run == Result(others, Turn)
        IN CASE \E b \in members : output[b] = NoModule -> Unavailable("round1_precondition_failed")
             [] /\ \A b \in members : output[b] # NoModule
                /\ (\E b \in members : ~ Patchable(Root, output[b])) \/ Overlap(Root, output, members) ->
                  Unavailable("direct_merge_not_defined")
             [] OTHER ->
                  IF others \in Studies[study].broken
                    THEN Row("merge_invalid", "merge_invalid", NoModule, NotRun)
                  ELSE IF run.status # "success" THEN Row("second_round_failed", "complete", others, run)
                  ELSE Row(IF ~ Patchable(others, run.output) THEN "unknown"
                           ELSE IF SameEffect(Root, output[Turn], others, run.output)
                                  THEN "authorized_all_others" ELSE "rejected_effect_changed",
                           "complete", others, run)
  BY DEF TrueRow
<1> HIDE DEF output
<1> QED BY <1>3, <1>4, <1>5

\* The row of every action of a group whose first round did not succeed, or
\* whose patches cannot be had or overlap.
LEMMA FailedRow ==
  ASSUME GroupInvariant, \A b \in members : firsts[b] = Result(Root, b),
         NEW c \in members, firsts[c].status # "success", NEW a \in members
  PROVE  TrueRow(members, a) = Unavailable("round1_precondition_failed")
<1>1. c \in Actions /\ Root \in Modules /\ study \in DOMAIN Studies
  BY StudyIsTyped DEF GroupInvariant, TypeOK
<1>2. Result(Root, c).status # "success"
  OBVIOUS
<1>3. Applied(c)[Root] = NoModule
  BY <1>1, <1>2, ResultTyped
<1> DEFINE output == [b \in members |-> Applied(b)[Root]]
<1>4. \E b \in members : output[b] = NoModule
  BY <1>3
<1> QED BY <1>4 DEF TrueRow

\* The true row where no direct merge is defined.
LEMMA UndefinedRow ==
  ASSUME GroupInvariant, \A b \in members : firsts[b] = Result(Root, b), FirstRoundSucceeded,
         (\E b \in members : ~ Patchable(Root, firsts[b].output)) \/ Overlap(Root, Outputs, members),
         NEW a \in members
  PROVE  TrueRow(members, a) = Unavailable("direct_merge_not_defined")
<1> DEFINE output == [b \in members |-> Applied(b)[Root]]
<1>1. Outputs = output /\ \A b \in members : output[b] # NoModule /\ output[b] = firsts[b].output
  BY TrueOutputs
<1>2. /\ \A b \in members : output[b] # NoModule
      /\ (\E b \in members : ~ Patchable(Root, output[b])) \/ Overlap(Root, output, members)
  BY <1>1
<1> QED BY <1>2 DEF TrueRow

\* One lemma per step of the evaluation: charged nothing, it keeps the rows true.
LEMMA RunFirstTrue ==
  ASSUME GroupInvariant, EvaluationIsTrue, RunFirst, client = "open", failures' = failures
  PROVE  client' = "open" /\ EvaluationIsTrue'
<1> DEFINE a == Next1(Unprofiled)
<1>1. /\ UNCHANGED <<study, members, rows, step>> /\ failures \in Nat
  BY DEF RunFirst, GroupInvariant, TypeOK
<1>2. PICK stage \in Reports(Root, a, VerifiedRun), lost \in {0, 1} :
        /\ Misbehave(lost + Charge(Root, a, stage))
        /\ client' = IF lost = 1 THEN "closed" ELSE client
  BY DEF RunFirst
<1> HIDE DEF a
<1>3. PICK n \in Nat : n = Charge(Root, a, stage)
  BY ChargeTyped
<1>4. lost + n = 0
  BY <1>1, <1>2, <1>3, ChargeOfNothing, lost + n \in Nat
<1>5. lost = 0
  BY <1>4
<1>6. EvaluationIsTrue'
  BY <1>1, RowsStayTrue
<1> QED BY <1>2, <1>5, <1>6

LEMMA RefuseFirstRoundTrue ==
  ASSUME GroupInvariant, RefuseFirstRound, \A b \in members : firsts[b] = Result(Root, b)
  PROVE  EvaluationIsTrue'
<1>1. PICK c \in members : firsts[c].status # "success"
  BY DEF RefuseFirstRound
<1>2. ASSUME NEW b \in members
      PROVE  firsts[b].status # "timeout"
  <2>1. b \in Actions /\ Root \in Modules /\ study \in DOMAIN Studies
    BY StudyIsTyped DEF GroupInvariant, TypeOK
  <2>2. Result(Root, b).status \in {"success", "error"}
    BY <2>1, ResultTyped
  <2> QED BY <2>2
<1>3. GiveUp("round1_precondition_failed") /\ UNCHANGED <<study, members>>
  BY <1>2 DEF RefuseFirstRound
<1>4. \A a \in members : TrueRow(members, a) = Unavailable("round1_precondition_failed")
  BY <1>1, FailedRow
<1> QED BY <1>3, <1>4, GiveUpTrue DEF GroupInvariant

LEMMA AcceptFirstRoundTrue ==
  ASSUME GroupInvariant, EvaluationIsTrue, AcceptFirstRound
  PROVE  EvaluationIsTrue'
BY RowsStayTrue DEF AcceptFirstRound

LEMMA InspectTrue ==
  ASSUME GroupInvariant, EvaluationIsTrue, Inspect, client = "open", failures' = failures,
         \A b \in members : firsts[b] = Result(Root, b)
  PROVE  client' = "open" /\ EvaluationIsTrue'
<1> DEFINE a == Next1(members \ patched)
<1>1. /\ step = "inspect" /\ UNCHANGED <<study, members>> /\ failures \in Nat
      /\ a \in members /\ FirstRoundSucceeded
  <2>1. members \ patched \in SUBSET Actions /\ members \ patched # {}
    BY StudyAssumption DEF Inspect, GroupInvariant, TypeOK
  <2>2. a \in members \ patched
    BY <2>1, NextIsLeft
  <2> QED BY <2>2 DEF Inspect, GroupInvariant, TypeOK, EvaluationIsSound
<1>2. PICK reply \in MergeStatuses :
        /\ Ask(InspectAnswer(Root, firsts[a].output), reply)
        /\ \/ /\ reply = "complete" /\ UNCHANGED <<step, rows>>
           \/ /\ reply # "complete"
              /\ GiveUp(IF reply = "timeout" THEN "timeout" ELSE "direct_merge_not_defined")
  BY DEF Inspect
<1> HIDE DEF a
<1>3. reply = InspectAnswer(Root, firsts[a].output) /\ client' = "open"
  BY <1>1, <1>2, AskHonest
<1>4. CASE reply = "complete"
  <2>1. UNCHANGED <<step, rows>>
    BY <1>2, <1>4
  <2> QED BY <1>1, <1>3, <2>1, RowsStayTrue
<1>5. CASE reply # "complete"
  <2>1. GiveUp("direct_merge_not_defined") /\ ~ Patchable(Root, firsts[a].output)
    BY <1>2, <1>3, <1>5 DEF InspectAnswer
  <2>2. \A b \in members : TrueRow(members, b) = Unavailable("direct_merge_not_defined")
    BY <1>1, <2>1, UndefinedRow
  <2> QED BY <1>1, <1>3, <2>1, <2>2, GiveUpTrue DEF GroupInvariant
<1> QED BY <1>4, <1>5

LEMMA CheckOverlapTrue ==
  ASSUME GroupInvariant, EvaluationIsTrue, CheckOverlap,
         \A b \in members : firsts[b] = Result(Root, b)
  PROVE  EvaluationIsTrue'
<1>1. UNCHANGED <<study, members>> /\ FirstRoundSucceeded
  BY DEF CheckOverlap, GroupInvariant, EvaluationIsSound
<1>2. CASE Overlap(Root, Outputs, members)
  <2>1. \A b \in members : TrueRow(members, b) = Unavailable("direct_merge_not_defined")
    BY <1>1, <1>2, UndefinedRow
  <2>2. GiveUp("direct_merge_not_defined")
    BY <1>2 DEF CheckOverlap
  <2> QED BY <1>1, <2>1, <2>2, GiveUpTrue DEF GroupInvariant
<1>3. CASE ~ Overlap(Root, Outputs, members)
  <2>1. step' = "merge" /\ rows' = rows
    BY <1>3 DEF CheckOverlap
  <2> QED BY <1>1, <2>1, RowsStayTrue
<1> QED BY <1>2, <1>3

LEMMA MergeOthersTrue ==
  ASSUME GroupInvariant, EvaluationIsTrue, MergeOthers, client = "open", failures' = failures,
         \A b \in members : firsts[b] = Result(Root, b)
  PROVE  client' = "open" /\ EvaluationIsTrue'
<1>1. /\ failures \in Nat /\ UNCHANGED <<study, members>> /\ step = "merge" /\ Undecided # {}
  BY DEF MergeOthers, GroupInvariant, TypeOK
<1>2. PICK reply \in MergeStatuses :
        /\ Ask(MergeAnswer(OthersMerged), reply)
        /\ \/ /\ reply = "complete" /\ step' = "second" /\ rows' = rows
           \/ /\ reply # "complete"
              /\ Decide(Row(reply, reply, NoModule, NotRun))
  BY DEF MergeOthers
<1>3. reply = MergeAnswer(OthersMerged) /\ client' = "open"
  BY <1>1, <1>2, AskHonest
<1>4. CASE reply = "complete"
  <2>1. step' = "second" /\ rows' = rows
    BY <1>2, <1>4
  <2> QED BY <1>1, <1>3, <2>1, RowsStayTrue
<1>5. CASE reply # "complete"
  <2>1. reply = "merge_invalid" /\ OthersMerged \in Studies[study].broken
    BY <1>3, <1>5 DEF MergeAnswer
  <2>2. TrueRow(members, Turn) = Row("merge_invalid", "merge_invalid", NoModule, NotRun)
    BY <1>1, <2>1, TurnRow
  <2>3. Decide(TrueRow(members, Turn))
    BY <1>2, <1>5, <2>1, <2>2
  <2> QED BY <1>1, <1>3, <2>3, DecideTrue
<1> QED BY <1>4, <1>5

LEMMA RunSecondTrue ==
  ASSUME GroupInvariant, MergesAreValid, EvaluationIsTrue, RunSecond, client = "open",
         failures' = failures, \A b \in members : firsts[b] = Result(Root, b)
  PROVE  client' = "open" /\ EvaluationIsTrue'
<1>1. /\ failures \in Nat /\ UNCHANGED <<study, client, members>> /\ step = "second"
      /\ Undecided # {} /\ merged = OthersMerged /\ merged \notin Studies[study].broken
  BY DEF RunSecond, GroupInvariant, TypeOK, EvaluationIsSound, MergesAreValid
<1>2. PICK stage \in Reports(merged, Turn, VerifiedRun) :
        /\ Misbehave(Charge(merged, Turn, stage))
        /\ \/ /\ stage.status = "success" /\ step' = "compare" /\ rows' = rows
           \/ /\ stage.status # "success"
              /\ Decide(Row(IF stage.status = "timeout" THEN "timeout" ELSE "second_round_failed",
                            "complete", merged, stage))
  BY DEF RunSecond
<1>3. stage = Result(merged, Turn)
  BY <1>1, <1>2, ChargeOfNothing, ChargeTyped DEF Charge
<1>4. CASE stage.status = "success"
  <2>1. step' = "compare" /\ rows' = rows
    BY <1>2, <1>4
  <2> QED BY <1>1, <2>1, RowsStayTrue
<1>5. CASE stage.status # "success"
  <2>1. stage.status # "timeout"
    <3>1. Turn \in Actions /\ merged \in Modules /\ study \in DOMAIN Studies
      BY <1>1, TurnIsTyped DEF GroupInvariant, TypeOK
    <3>2. Result(merged, Turn).status \in {"success", "error"}
      BY <3>1, ResultTyped
    <3> QED BY <1>3, <3>2
  <2>2. Decide(Row("second_round_failed", "complete", merged, stage))
    BY <1>2, <1>5, <2>1
  <2>3. TrueRow(members, Turn) = Row("second_round_failed", "complete", merged, stage)
    <3>1. PICK run : run = Result(OthersMerged, Turn)
      OBVIOUS
    <3>2. run = stage /\ OthersMerged \notin Studies[study].broken
      BY <1>1, <1>3, <3>1
    <3> QED BY <1>1, <1>5, <3>1, <3>2, TurnRow
  <2> QED BY <1>1, <2>2, <2>3, DecideTrue
<1> QED BY <1>4, <1>5

LEMMA CompareEffectTrue ==
  ASSUME GroupInvariant, MergesAreValid, RunsAreHonest, EvaluationIsTrue, CompareEffect, client = "open",
         failures' = failures, \A b \in members : firsts[b] = Result(Root, b)
  PROVE  client' = "open" /\ EvaluationIsTrue'
<1>1. /\ failures \in Nat /\ UNCHANGED <<study, members>> /\ step = "compare"
      /\ Undecided # {} /\ merged = OthersMerged /\ merged \notin Studies[study].broken
      /\ second = Result(merged, Turn) /\ second.status = "success"
  BY DEF CompareEffect, GroupInvariant, TypeOK, EvaluationIsSound, MergesAreValid, RunsAreHonest
<1>2. PICK reply \in MergeStatuses :
        /\ Ask(InspectAnswer(merged, second.output), reply)
        /\ Decide(Row(EffectDirection(reply), "complete", merged, second))
  BY DEF CompareEffect
<1>3. reply = InspectAnswer(merged, second.output) /\ client' = "open"
  BY <1>1, <1>2, AskHonest
<1>4. EffectDirection(reply) =
        IF ~ Patchable(merged, second.output) THEN "unknown"
        ELSE IF SameEffect(Root, firsts[Turn].output, merged, second.output)
               THEN "authorized_all_others" ELSE "rejected_effect_changed"
  <2>1. CASE Patchable(merged, second.output)
    <3>1. reply = "complete"
      BY <1>3, <2>1 DEF InspectAnswer
    <3> QED BY <2>1, <3>1 DEF EffectDirection
  <2>2. CASE ~ Patchable(merged, second.output)
    <3>1. reply = "direct_merge_not_defined"
      BY <1>3, <2>2 DEF InspectAnswer
    <3>2. EffectDirection(reply) = "unknown"
      BY <3>1 DEF EffectDirection
    <3> QED BY <2>2, <3>2
  <2> QED BY <2>1, <2>2
<1>5. TrueRow(members, Turn) = Row(EffectDirection(reply), "complete", merged, second)
  <2>1. TrueRow(members, Turn) =
          Row(IF ~ Patchable(merged, second.output) THEN "unknown"
              ELSE IF SameEffect(Root, firsts[Turn].output, merged, second.output)
                     THEN "authorized_all_others" ELSE "rejected_effect_changed",
              "complete", merged, second)
    BY <1>1, TurnRow
  <2> QED BY <1>4, <2>1
<1>6. Decide(TrueRow(members, Turn))
  BY <1>2, <1>5
<1> QED BY <1>1, <1>3, <1>6, DecideTrue

LEMMA FinishGroupTrue ==
  ASSUME EvaluationIsTrue, FinishGroup
  PROVE  EvaluationIsTrue'
<1>1. \A a \in members : rows[a] # NoRow
  BY DEF FinishGroup, Undecided
<1> QED BY <1>1, RowsStayTrue DEF FinishGroup

\* Every step of the evaluator.
LEMMA EvaluatorTrue ==
  ASSUME GroupInvariant, StudyIsOrdered, RunsAreHonest, EvaluationIsTrue, EvaluationStep,
         client = "open", failures' = failures
  PROVE  client' = "open" /\ EvaluationIsTrue'
<1>1. CASE RunFirst
  BY <1>1, RunFirstTrue
<1>2. CASE ~ RunFirst
  <2>1. step \notin {"idle", "profile"}
    BY <1>2, EvaluatorFrame
  <2>2. \A b \in members : firsts[b] = Result(Root, b)
    BY <2>1, AllRan
  <2>3. MergesAreValid
    BY DEF StudyIsOrdered
  <2>4. CASE RefuseFirstRound \/ AcceptFirstRound \/ CheckOverlap \/ FinishGroup
    <3>1. client' = client
      BY <2>4 DEF RefuseFirstRound, AcceptFirstRound, CheckOverlap, FinishGroup
    <3> QED BY <2>2, <2>4, <3>1, RefuseFirstRoundTrue, AcceptFirstRoundTrue, CheckOverlapTrue, FinishGroupTrue
  <2>5. CASE Inspect \/ MergeOthers
    BY <2>2, <2>5, InspectTrue, MergeOthersTrue
  <2>6. CASE RunSecond \/ CompareEffect
    BY <2>2, <2>3, <2>6, RunSecondTrue, CompareEffectTrue
  <2> QED BY <1>2, <2>4, <2>5, <2>6 DEF EvaluationStep
<1> QED BY <1>1, <1>2

-----------------------------------------------------------------------------
\* A study in which nothing misbehaves.

\* Misbehaviours are never taken back.
LEMMA FailuresGrow ==
  ASSUME GroupInvariant, StudyIsOrdered, [Next]_vars
  PROVE  failures' >= failures
<1>1. failures \in Nat
  BY DEF GroupInvariant, TypeOK
<1>2. CASE EvaluationStep
  BY <1>2, EvaluatorHonest DEF StudyIsOrdered
<1>3. CASE StartProfiles \/ PublishProfiles \/ PublishPairs \/ StartGroup \/ PublishGroup
  BY <1>1, <1>3 DEF StartProfiles, PublishProfiles, PublishPairs, StartGroup, PublishGroup
<1>4. CASE StartPair
  <2>1. PICK n \in Nat : failures' = failures \/ Misbehave(n)
    <3>1. UNCHANGED failures \/ \E m, a, stage : Misbehave(Charge(m, a, stage))
      BY <1>4 DEF StartPair
    <3> QED BY <3>1, ChargeTyped
  <2> QED BY <1>1, <2>1, ChargeOfNothing
<1>5. CASE \E p \in Pairs : SecondOrder(p) \/ FinishPair(p)
  <2>1. PICK p \in Pairs : SecondOrder(p) \/ FinishPair(p)
    BY <1>5
  <2>2. CASE SecondOrder(p)
    <3>1. \E m, a, stage : Misbehave(Charge(m, a, stage))
      BY <2>2 DEF SecondOrder
    <3>2. PICK n \in Nat : Misbehave(n)
      BY <3>1, ChargeTyped
    <3> QED BY <1>1, <3>2, ChargeOfNothing
  <2>3. CASE FinishPair(p)
    BY <1>1, <2>3 DEF FinishPair, Misbehave
  <2> QED BY <2>1, <2>2, <2>3
<1>6. CASE ReplayPair
  BY <1>1, <1>6, ReplayOutcome
<1>7. CASE ReplayRule \/ FinishReplay \/ PublishReplay \/ Finish \/ UNCHANGED vars
  BY <1>1, <1>7 DEF ReplayRule, FinishReplay, PublishReplay, Finish, vars
<1>8. CASE Restart
  BY <1>1, <1>8 DEF Restart, Misbehave
<1> QED BY <1>2, <1>3, <1>4, <1>5, <1>6, <1>7, <1>8 DEF Next, Done

\* Evaluations that are over, that begin and that a step leaves alone.
LEMMA ForgottenTrue ==
  ASSUME NotEvaluated
  PROVE  EvaluationIsTrue'
BY DEF NotEvaluated, EvaluationIsTrue

LEMMA BeginsTrue ==
  ASSUME NEW A \in SUBSET Actions, NEW fs, NEW s \in {"profile", "gate"}, Evaluate(A, fs, s)
  PROVE  EvaluationIsTrue'
<1>1. members' = A /\ step' # "reported" /\ \A a \in A : rows'[a] = NoRow
  BY DEF Evaluate, NoRows
<1> QED BY <1>1 DEF EvaluationIsTrue

LEMMA AsideTrue ==
  ASSUME EvaluationIsTrue, UNCHANGED <<study, evalVars>>
  PROVE  EvaluationIsTrue'
BY RowsStayTrue DEF evalVars

\* What is published stays true while it stays.
LEMMA ResultsStayTrue ==
  ASSUME ResultsAreTrue, UNCHANGED <<study, results>>
  PROVE  ResultsAreTrue'
BY SameTrueRow DEF ResultsAreTrue

LEMMA RecordsStayTrue ==
  ASSUME RecordsAreTrue, UNCHANGED <<profiles, pairs, results, records, replays>>,
         UNCHANGED study
  PROVE  RecordsAreTrue'
<1>1. Case1' = Case1
  BY SameCases
<1>2. Expected(Case1)' = Expected(Case1)
  BY <1>1 DEF Expected
<1>3. RuleOf(profiles, results[Case1[1]].rows, Case1)' = RuleOf(profiles, results[Case1[1]].rows, Case1)
  BY <1>1, SameStudy DEF RuleOf
<1> QED BY <1>2, <1>3 DEF RecordsAreTrue

\* A step of the first three stages publishes no replay.
LEMMA EarlyTrue ==
  ASSUME AllIsTrue, UNCHANGED <<study, client, records, replays>>,
         records = <<>>, ResultsAreTrue', EvaluationIsTrue',
         \A p \in Pairs : pairs'[p].dynamic # "unknown"
  PROVE  AllIsTrue'
<1>1. RecordsAreTrue'
  <2>1. Len(records') = 0
    BY NoRecords
  <2> QED BY <2>1 DEF RecordsAreTrue
<1>2. ReplaysAreStable'
  BY DEF AllIsTrue, ReplaysAreStable
<1> QED BY <1>1, <1>2 DEF AllIsTrue

\* One lemma per kind of step: where nothing misbehaves, everything stays true.
LEMMA EvaluatorAllTrue ==
  ASSUME GroupInvariant, BlameInvariant, AllIsTrue, failures = 0, failures' = 0,
         EvaluationStep, UNCHANGED studyVars
  PROVE  AllIsTrue'
<1>1. /\ UNCHANGED <<study, phase, profiles, pairs, results, records, replays>> /\ step # "idle"
  BY EvaluatorFrame DEF studyVars
<1>2. StageIsHonest /\ RuleIsHonest
  BY NoneToBlame DEF BlameInvariant
<1>3. RunsAreHonest
  BY <1>1, <1>2 DEF StageIsHonest, RuleIsHonest, BlameInvariant, StudyIsOrdered, PhaseIsOrdered
<1>4. client' = "open" /\ EvaluationIsTrue'
  BY <1>3, EvaluatorTrue DEF BlameInvariant, AllIsTrue
<1>5. ResultsAreTrue' /\ RecordsAreTrue'
  BY <1>1, ResultsStayTrue, RecordsStayTrue DEF AllIsTrue
<1> QED BY <1>1, <1>4, <1>5 DEF AllIsTrue, ReplaysAreStable

\* The first three stages.
LEMMA StageAllTrue ==
  ASSUME GroupInvariant, BlameInvariant, AllIsTrue,
         StartProfiles \/ PublishProfiles \/ PublishPairs \/ StartGroup
  PROVE  AllIsTrue'
<1>1. /\ phase \in {"profiles", "pairs", "groups"}
      /\ UNCHANGED <<study, client, pairs, results, records, replays>>
  BY DEF StartProfiles, PublishProfiles, PublishPairs, StartGroup, studyVars
<1>2. records = <<>>
  BY <1>1, NoReplaysYet DEF BlameInvariant
<1>3. EvaluationIsTrue'
  <2>1. CASE StartProfiles
    BY <2>1, BeginsTrue, Actions \in SUBSET Actions DEF StartProfiles
  <2>2. CASE PublishProfiles
    BY <2>2, ForgottenTrue DEF PublishProfiles
  <2>3. CASE PublishPairs
    BY <2>3, AsideTrue DEF PublishPairs, AllIsTrue
  <2>4. CASE StartGroup
    <3>1. Groups[Len(results) + 1] \in SUBSET Actions
      BY <2>4, GroupsAssumption DEF StartGroup, GroupInvariant, StudyTyped
    <3>2. PICK A, fs : A \in SUBSET Actions /\ Evaluate(A, fs, "gate")
      BY <2>4, <3>1 DEF StartGroup
    <3> QED BY <3>2, BeginsTrue
  <2> QED BY <2>1, <2>2, <2>3, <2>4
<1>4. ResultsAreTrue'
  BY <1>1, ResultsStayTrue DEF AllIsTrue
<1>5. \A p \in Pairs : pairs'[p].dynamic # "unknown"
  BY <1>1 DEF AllIsTrue
<1> QED BY <1>1, <1>2, <1>3, <1>4, <1>5, EarlyTrue

\* No row of the matrix becomes unknown.
LEMMA MatrixAllTrue ==
  ASSUME GroupInvariant, BlameInvariant, AllIsTrue, failures' = failures,
         StartPair \/ \E p \in Pairs : SecondOrder(p) \/ FinishPair(p)
  PROVE  AllIsTrue'
<1>1. /\ phase = "pairs"
      /\ UNCHANGED <<study, client, evalVars, results, records, replays>>
      /\ failures \in Nat /\ DOMAIN pairs = Pairs
  BY DEF StartPair, SecondOrder, FinishPair, GroupInvariant, TypeOK, BlameInvariant, StudyIsOrdered,
         MatrixIsOrdered
<1>2. records = <<>>
  BY <1>1, NoReplaysYet DEF BlameInvariant
<1>3. EvaluationIsTrue' /\ ResultsAreTrue'
  BY <1>1, AsideTrue, ResultsStayTrue DEF AllIsTrue
<1>4. \A ab, ba, equal : Classify(ab, ba, equal) # "unknown"
  BY DEF Classify
<1>5. PICK p, x : /\ p \in Pairs
                  /\ \/ pairs' = [pairs EXCEPT ![p].ab = x]
                     \/ pairs' = [pairs EXCEPT ![p].ba = x]
                     \/ pairs' = [pairs EXCEPT ![p].dynamic = x] /\ x # "unknown"
  <2>1. CASE StartPair
    <3>1. PICK p \in Pairs : p = First({q \in Pairs : Waiting(q)})
      BY <2>1, FirstPair DEF StartPair
    <3>2. CASE \E stage : pairs' = [pairs EXCEPT ![p].ab = stage]
      BY <3>1, <3>2
    <3>3. CASE pairs' = [pairs EXCEPT ![p].dynamic = Classify(profiles[p[1]], profiles[p[2]], TRUE)]
      <4>1. PICK d : d = Classify(profiles[p[1]], profiles[p[2]], TRUE)
        OBVIOUS
      <4>2. d # "unknown" /\ pairs' = [pairs EXCEPT ![p].dynamic = d] /\ p \in Pairs
        BY <1>4, <3>1, <3>3, <4>1
      <4> QED BY <4>2
    <3> QED BY <2>1, <3>1, <3>2, <3>3 DEF StartPair
  <2>2. CASE \E p \in Pairs : SecondOrder(p)
    BY <2>2 DEF SecondOrder
  <2>3. CASE \E p \in Pairs : FinishPair(p)
    BY <1>1, <1>4, <2>3 DEF FinishPair, Misbehave
  <2> QED BY <2>1, <2>2, <2>3
<1>6. ASSUME NEW r \in Pairs
      PROVE  pairs'[r].dynamic # "unknown"
  <2>1. pairs[r] = Pair(pairs[r].ab, pairs[r].ba, pairs[r].dynamic)
    BY DEF BlameInvariant, StudyIsOrdered, MatrixIsOrdered
  <2>2. pairs[r].dynamic # "unknown"
    BY DEF AllIsTrue
  <2>3. PICK ab, ba, d : pairs[r] = Pair(ab, ba, d) /\ d # "unknown"
    BY <2>1, <2>2
  <2>4. CASE r # p
    BY <1>1, <1>5, <2>2, <2>4
  <2>5. CASE r = p
    <3>1. CASE pairs' = [pairs EXCEPT ![p].ab = x] \/ pairs' = [pairs EXCEPT ![p].ba = x]
      BY <1>1, <2>3, <2>5, <3>1 DEF Pair
    <3>2. CASE pairs' = [pairs EXCEPT ![p].dynamic = x] /\ x # "unknown"
      BY <1>1, <2>3, <2>5, <3>2 DEF Pair
    <3> QED BY <1>5, <3>1, <3>2
  <2> QED BY <2>4, <2>5
<1> QED BY <1>1, <1>2, <1>3, <1>6, EarlyTrue

LEMMA PublishGroupAllTrue ==
  ASSUME GroupInvariant, BlameInvariant, AllIsTrue, PublishGroup
  PROVE  AllIsTrue'
<1> DEFINE r == [rows |-> rows, verdict |-> verdict]
<1>1. /\ phase = "groups" /\ step = "reported" /\ NotEvaluated
      /\ results' = Append(results, r)
      /\ UNCHANGED <<study, client, pairs, records, replays>>
  BY DEF PublishGroup
<1>2. records = <<>>
  BY <1>1, NoReplaysYet DEF BlameInvariant
<1>3. members = Groups[Len(results) + 1]
  BY <1>1 DEF BlameInvariant, StudyIsOrdered, PhaseIsOrdered
<1>4. /\ DOMAIN results = 1 .. Len(results) /\ Len(results) \in Nat
      /\ DOMAIN results' = 1 .. Len(results) + 1
      /\ \A g \in 1 .. Len(results) : results'[g] = results[g]
      /\ results'[Len(results) + 1] = r
  <2>1. \E S : results \in Seq(S)
    BY DEF GroupInvariant, StudyTyped
  <2> HIDE DEF r
  <2>2. \E S : results' \in Seq(S)
    BY <1>1, <2>1, OneMore
  <2> QED BY <1>1, <2>1, <2>2, OneMore
<1>5. ASSUME NEW g \in DOMAIN results', NEW a \in Groups[g]
      PROVE  results'[g].rows[a] = TrueRow(Groups[g], a)
  <2>1. CASE g \in DOMAIN results
    <3>1. results'[g] = results[g]
      BY <1>4, <2>1
    <3> QED BY <2>1, <3>1 DEF AllIsTrue, ResultsAreTrue
  <2>2. CASE g = Len(results) + 1
    <3>1. results'[g].rows = rows /\ a \in members /\ members = Groups[g]
      BY <1>3, <1>4, <2>2
    <3>2. rows[a] = TrueRow(members, a)
      BY <1>1, <3>1 DEF AllIsTrue, EvaluationIsTrue
    <3> QED BY <3>1, <3>2
  <2> QED BY <1>4, <2>1, <2>2
<1>6. ResultsAreTrue'
  BY <1>1, <1>5, SameTrueRow DEF ResultsAreTrue
<1>7. EvaluationIsTrue'
  BY <1>1, ForgottenTrue
<1>8. \A p \in Pairs : pairs'[p].dynamic # "unknown"
  BY <1>1 DEF AllIsTrue
<1> QED BY <1>1, <1>2, <1>6, <1>7, <1>8, EarlyTrue

\* A step of the replays publishes nothing and leaves the stages alone.
LEMMA LateTrue ==
  ASSUME AllIsTrue, UNCHANGED <<study, client, pairs, results, replays>>,
         RecordsAreTrue', EvaluationIsTrue'
  PROVE  AllIsTrue'
<1>1. ResultsAreTrue'
  BY ResultsStayTrue DEF AllIsTrue
<1> QED BY <1>1 DEF AllIsTrue, ReplaysAreStable

\* The next record is what is published of the case.
LEMMA RecordAdded ==
  ASSUME RecordsAreTrue, UNCHANGED <<study, profiles, pairs, results, replays>>,
         NEW n \in Nat, n = Len(records), NEW r, Len(records') = n + 1, records'[n + 1] = r,
         \A i \in 1 .. n : records'[i] = records[i],
         r = Record("success", Expected(Case1),
                    IF n + 1 <= 4 THEN NoRule ELSE RuleOf(profiles, results[Case1[1]].rows, Case1))
  PROVE  RecordsAreTrue'
<1>1. Case1' = Case1
  BY SameCases
<1>2. Expected(Case1)' = Expected(Case1)
  BY <1>1 DEF Expected
<1>3. RuleOf(profiles, results[Case1[1]].rows, Case1)' = RuleOf(profiles, results[Case1[1]].rows, Case1)
  BY <1>1, SameStudy DEF RuleOf
<1>4. ASSUME NEW i \in 1 .. n + 1
      PROVE  records'[i] = Record("success", Expected(Case1),
                                  IF i <= 4 THEN NoRule ELSE RuleOf(profiles, results[Case1[1]].rows, Case1))
  <2>1. CASE i \in 1 .. n
    <3>1. records'[i] = records[i]
      BY <2>1
    <3> QED BY <2>1, <3>1 DEF RecordsAreTrue
  <2>2. CASE i = n + 1
    BY <2>2
  <2> QED BY <2>1, <2>2
<1> QED BY <1>2, <1>3, <1>4 DEF RecordsAreTrue

LEMMA ReplayPairAllTrue ==
  ASSUME GroupInvariant, BlameInvariant, AllIsTrue, failures = 0, failures' = 0, ReplayPair
  PROVE  AllIsTrue'
<1>1. /\ phase = "replay" /\ step = "idle" /\ OpenCases # {} /\ Len(records) < Len(Schedule)
      /\ UNCHANGED <<study, client, phase, profiles, pairs, results, replays>>
      /\ failures \in Nat
  BY DEF ReplayPair, GroupInvariant, TypeOK
<1>2. PICK stages :
        /\ failures' = failures => stages = TrueStages(Case1)
        /\ \/ /\ Family # "two_n"
              /\ records' = Append(records, Record("success", stages, NoRule))
              /\ UNCHANGED <<evalVars, orders>>
           \/ /\ Family = "two_n" /\ orders' = stages
              /\ Evaluate(Groups[Case1[1]], NoFirsts, "profile")
              /\ UNCHANGED records
  BY <1>1, ReplayOutcome
<1>3. stages = Expected(Case1)
  <2>1. PublishedIsHonest
    BY NoneToBlame DEF BlameInvariant, StageIsHonest
  <2>2. Case1 \in Cases
    BY <1>1, FirstCase
  <2>3. Expected(Case1) = TrueStages(Case1)
    BY <1>1, <2>1, <2>2, HonestExpected DEF BlameInvariant
  <2> QED BY <1>2, <2>3
<1>4. CASE Family # "two_n"
  <2> DEFINE r == Record("success", stages, NoRule)
  <2>1. records' = Append(records, r) /\ UNCHANGED evalVars
    BY <1>2, <1>4
  <2>2. r = Record("success", Expected(Case1), NoRule)
    BY <1>3
  <2> HIDE DEF r
  <2>3. PICK n \in 0 .. 3 : /\ n = Len(records) /\ Len(records') = n + 1 /\ records'[n + 1] = r
                            /\ \A i \in 1 .. n : records'[i] = records[i]
    BY <1>1, <1>4, <2>1, EarlyReplay DEF BlameInvariant, StudyIsOrdered
  <2>4. RecordsAreTrue'
    <3>1. n + 1 <= 4 /\ n \in Nat
      OBVIOUS
    <3> QED BY <1>1, <2>2, <2>3, <3>1, RecordAdded DEF AllIsTrue
  <2>5. EvaluationIsTrue'
    BY <1>1, <2>1, AsideTrue DEF AllIsTrue
  <2> QED BY <1>1, <2>4, <2>5, LateTrue
<1>5. CASE Family = "two_n"
  <2>1. Evaluate(Groups[Case1[1]], NoFirsts, "profile") /\ UNCHANGED records
    BY <1>2, <1>5
  <2>2. Groups[Case1[1]] \in SUBSET Actions
    BY <1>1, CaseIsTyped
  <2>3. EvaluationIsTrue'
    BY <2>1, <2>2, BeginsTrue
  <2>4. RecordsAreTrue'
    BY <1>1, <2>1, RecordsStayTrue DEF AllIsTrue
  <2> QED BY <1>1, <2>3, <2>4, LateTrue
<1> QED BY <1>2, <1>4, <1>5

LEMMA FinishReplayAllTrue ==
  ASSUME GroupInvariant, BlameInvariant, AllIsTrue, failures = 0, FinishReplay
  PROVE  AllIsTrue'
<1>1. /\ phase = "replay" /\ step = "reported" /\ NotEvaluated
      /\ UNCHANGED <<study, failures, client, phase, profiles, pairs, results, replays>>
  BY DEF FinishReplay
<1>2. /\ OpenCases # {} /\ members = Groups[Case1[1]] /\ Unprofiled = {}
      /\ \E S : records \in Seq(S)
  BY <1>1 DEF BlameInvariant, StudyIsOrdered, PhaseIsOrdered, ReplaysAreOrdered
<1>3. PICK n \in {4, 5} : n = Len(records)
  BY <1>1 DEF BlameInvariant, StudyIsOrdered, PhaseIsOrdered
<1>4. PublishedIsHonest /\ orders = TrueStages(Case1) /\ RunsAreHonest
  BY <1>1, NoneToBlame DEF BlameInvariant, StageIsHonest, RuleIsHonest
<1>5. /\ Case1 \in Cases /\ Case1[1] \in DOMAIN results /\ Groups[Case1[1]] \in SUBSET Actions
      /\ Case1[2] \in members /\ Case1[3] \in members /\ Case1[4] \in members
      /\ Authorized(results[Case1[1]].rows, Case1[4])
  BY <1>2, FirstCase, CaseShape
<1>6. \A a \in members : rows[a] = results[Case1[1]].rows[a]
  <2>1. \A a \in members : rows[a] = TrueRow(members, a)
    BY <1>1 DEF AllIsTrue, EvaluationIsTrue
  <2>2. \A a \in members : results[Case1[1]].rows[a] = TrueRow(members, a)
    BY <1>2, <1>5 DEF AllIsTrue, ResultsAreTrue
  <2> QED BY <2>1, <2>2
<1>7. firsts[Case1[4]] = profiles[Case1[4]]
  BY <1>1, <1>2, <1>4, <1>5 DEF Unprofiled, RunsAreHonest, PublishedIsHonest
<1>8. orders = Expected(Case1)
  BY <1>1, <1>4, <1>5, HonestExpected DEF BlameInvariant
<1>9. Authorized(rows, Case1[4])
  BY <1>5, <1>6 DEF Authorized
<1>10. RuleOf(firsts, rows, Case1) = RuleOf(profiles, results[Case1[1]].rows, Case1)
  BY <1>5, <1>6, <1>7 DEF RuleOf
<1> DEFINE r == Record("success", orders, RuleOf(firsts, rows, Case1))
<1>11. records' = Append(records, r)
  BY <1>9 DEF FinishReplay
<1>12. r = Record("success", Expected(Case1), RuleOf(profiles, results[Case1[1]].rows, Case1))
  BY <1>8, <1>10
<1> HIDE DEF r
<1>13. Len(records') = n + 1 /\ records'[n + 1] = r /\ \A i \in 1 .. n : records'[i] = records[i]
  BY <1>2, <1>3, <1>11, OneMore
<1>14. RecordsAreTrue'
  <2>1. ~ n + 1 <= 4 /\ n \in Nat
    OBVIOUS
  <2> QED BY <1>1, <1>3, <1>12, <1>13, <2>1, RecordAdded DEF AllIsTrue
<1>15. EvaluationIsTrue'
  BY <1>1, ForgottenTrue
<1> QED BY <1>1, <1>14, <1>15, LateTrue

\* Two replays that both are what is published are stable.
LEMMA StableTwice ==
  ASSUME NEW stages, NEW rule, NEW r, NEW s,
         r = Record("success", stages, rule), s = Record("success", stages, rule)
  PROVE  FamilyStatus(r, s, stages, rule) = "stable"
<1>1. r = s /\ r.status = "success" /\ r.stages = stages /\ r.rule = rule
  BY DEF Record
<1> QED BY <1>1 DEF FamilyStatus

LEMMA PublishReplayAllTrue ==
  ASSUME GroupInvariant, BlameInvariant, AllIsTrue, PublishReplay
  PROVE  AllIsTrue'
<1>1. /\ Len(records) = 6 /\ records' = <<>>
      /\ replays' = [c \in DOMAIN replays \cup {Case1} |->
                       IF c = Case1 THEN CaseStatuses(c) ELSE replays[c]]
      /\ UNCHANGED <<study, client, evalVars, pairs, results>>
  BY ScheduleLength DEF PublishReplay
<1> DEFINE stages == Expected(Case1)
           rule == RuleOf(profiles, results[Case1[1]].rows, Case1)
<1>2. /\ \A i \in 1 .. 4 : records[i] = Record("success", stages, NoRule)
      /\ \A i \in 5 .. 6 : records[i] = Record("success", stages, rule)
  BY <1>1 DEF AllIsTrue, RecordsAreTrue
<1>3. CaseStatuses(Case1) = [worker |-> "stable", external_opt |-> "stable", two_n |-> "stable"]
  <2>1. CaseStatuses(Case1) =
          [worker       |-> FamilyStatus(records[1], records[2], stages, NoRule),
           external_opt |-> FamilyStatus(records[3], records[4], stages, NoRule),
           two_n        |-> FamilyStatus(records[5], records[6], stages, rule)]
    BY DEF CaseStatuses
  <2> HIDE DEF stages, rule
  <2>2. FamilyStatus(records[1], records[2], stages, NoRule) = "stable"
    BY <1>2, StableTwice
  <2>3. FamilyStatus(records[3], records[4], stages, NoRule) = "stable"
    BY <1>2, StableTwice
  <2>4. FamilyStatus(records[5], records[6], stages, rule) = "stable"
    BY <1>2, StableTwice
  <2> QED BY <2>1, <2>2, <2>3, <2>4
<1>4. ReplaysAreStable'
  <2>1. ASSUME NEW c \in DOMAIN replays', NEW f \in DOMAIN replays'[c]
        PROVE  replays'[c][f] = "stable"
    <3>1. CASE c = Case1
      <4>1. replays'[c] = [worker |-> "stable", external_opt |-> "stable", two_n |-> "stable"]
        BY <1>1, <1>3, <3>1
      <4> QED BY <4>1
    <3>2. CASE c # Case1
      <4>1. c \in DOMAIN replays /\ replays'[c] = replays[c]
        BY <1>1, <3>2
      <4> QED BY <4>1 DEF AllIsTrue, ReplaysAreStable
    <3> QED BY <3>1, <3>2
  <2> QED BY <2>1 DEF ReplaysAreStable
<1>5. RecordsAreTrue'
  <2>1. Len(records') = 0
    BY <1>1, NoRecords
  <2> QED BY <2>1 DEF RecordsAreTrue
<1>6. EvaluationIsTrue' /\ ResultsAreTrue'
  BY <1>1, AsideTrue, ResultsStayTrue DEF AllIsTrue
<1> QED BY <1>1, <1>4, <1>5, <1>6 DEF AllIsTrue

\* The other steps of the replays.
LEMMA RestAllTrue ==
  ASSUME AllIsTrue, ReplayRule \/ Finish \/ UNCHANGED vars
  PROVE  AllIsTrue'
<1>1. UNCHANGED <<study, client, members, rows, profiles, pairs, results, records, replays>>
      /\ (step' = "reported" => step = "reported")
  BY DEF ReplayRule, Finish, vars, studyVars, evalVars
<1>2. EvaluationIsTrue' /\ RecordsAreTrue'
  BY <1>1, RowsStayTrue, RecordsStayTrue DEF AllIsTrue
<1> QED BY <1>1, <1>2, LateTrue

\* Every step keeps everything true where nothing misbehaves.
LEMMA TruthStep ==
  ASSUME GroupInvariant, BlameInvariant, NothingMisbehaved, [Next]_vars
  PROVE  NothingMisbehaved'
<1> SUFFICES ASSUME failures' = 0
             PROVE  AllIsTrue'
  BY DEF NothingMisbehaved
<1>1. failures = 0
  <2>1. failures' >= failures /\ failures \in Nat
    BY FailuresGrow DEF BlameInvariant, GroupInvariant, TypeOK
  <2> QED BY <2>1
<1>2. AllIsTrue /\ failures' = failures
  BY <1>1 DEF NothingMisbehaved
<1>3. CASE EvaluationStep /\ UNCHANGED studyVars
  BY <1>1, <1>2, <1>3, EvaluatorAllTrue
<1>4. CASE StartProfiles \/ PublishProfiles \/ PublishPairs \/ StartGroup
  BY <1>2, <1>4, StageAllTrue
<1>5. CASE StartPair \/ \E p \in Pairs : SecondOrder(p) \/ FinishPair(p)
  BY <1>2, <1>5, MatrixAllTrue
<1>6. CASE PublishGroup
  BY <1>2, <1>6, PublishGroupAllTrue
<1>7. CASE ReplayPair \/ FinishReplay \/ PublishReplay
  BY <1>1, <1>2, <1>7, ReplayPairAllTrue, FinishReplayAllTrue, PublishReplayAllTrue
<1>8. CASE ReplayRule \/ Finish \/ UNCHANGED vars
  BY <1>2, <1>8, RestAllTrue
<1>9. CASE Restart
  BY <1>1, <1>9 DEF Restart, Misbehave
<1> QED BY <1>3, <1>4, <1>5, <1>6, <1>7, <1>8, <1>9 DEF Next, Done

\* Nothing is wrong with a study that has not begun.
LEMMA TruthInit ==
  ASSUME Init
  PROVE  NothingMisbehaved
<1>1. EvaluationIsTrue
  BY DEF Init, EvaluationIsTrue
<1>2. ResultsAreTrue /\ ReplaysAreStable
  BY DEF Init, ResultsAreTrue, ReplaysAreStable
<1>3. RecordsAreTrue
  <2>1. Len(records) = 0
    BY NoRecords DEF Init
  <2> QED BY <2>1 DEF RecordsAreTrue
<1>4. \A p \in Pairs : pairs[p].dynamic # "unknown"
  BY DEF Init, NoPairs, Pair
<1> QED BY <1>1, <1>2, <1>3, <1>4 DEF Init, NothingMisbehaved, AllIsTrue

\* Where nothing misbehaves every row of an evaluation, of a result and of the
\* matrix is the one that true runs give, every replay agrees with what was
\* published and every family is stable (run_study, replay_false_authorization).
THEOREM TruthIsKept == Spec => [](GroupInvariant /\ BlameInvariant /\ NothingMisbehaved)
<1>1. Init => NothingMisbehaved
  BY TruthInit
<1>2. GroupInvariant /\ BlameInvariant /\ NothingMisbehaved /\ [Next]_vars => NothingMisbehaved'
  BY TruthStep
<1> QED BY <1>1, <1>2, MisbehaviourShows, PTL DEF Spec

-----------------------------------------------------------------------------

\* A row of the matrix is open or what the passes really do.
LEMMA MatrixIsTrue ==
  ASSUME GroupInvariant, BlameInvariant, AllIsTrue, failures = 0, NEW p \in Pairs
  PROVE  pairs[p].dynamic \in {"open", TrueDynamic(p)}
<1>1. p = <<p[1], p[2]>> /\ p[1] \in Actions /\ p[2] \in Actions /\ study \in DOMAIN Studies
      /\ Root \in Modules
  BY StudyIsTyped DEF Pairs, GroupInvariant, TypeOK
<1>2. PairIsOrdered(p)
  BY DEF BlameInvariant, StudyIsOrdered, MatrixIsOrdered
<1>3. PublishedIsHonest
  BY NoneToBlame DEF BlameInvariant, StageIsHonest
<1>4. CASE Waiting(p)
  BY <1>4 DEF Waiting, NoPairs, Pair
<1>5. CASE ~ Waiting(p)
  <2>1. phase # "profiles"
    BY <1>5 DEF BlameInvariant, StudyIsOrdered, PhaseIsOrdered, Waiting
  <2>2. profiles[p[1]] = Result(Root, p[1]) /\ profiles[p[2]] = Result(Root, p[2])
    BY <1>1, <1>3, <2>1 DEF PublishedIsHonest
  <2>3. CASE Profiled(p) /\ pairs[p].dynamic # "open"
    <3>1. /\ pairs[p].ab # NotRun /\ pairs[p].ba # NotRun
          /\ pairs[p].dynamic = Classify(pairs[p].ab, pairs[p].ba, pairs[p].ab.output = pairs[p].ba.output)
      BY <1>2, <1>5, <2>3 DEF PairIsOrdered, AllIsTrue
    <3>2. Result(Root, p[1]).status = "success" /\ Result(Root, p[2]).status = "success"
      BY <2>2, <2>3 DEF Profiled
    <3>3. /\ pairs[p].ab = Result(profiles[p[1]].output, p[2])
          /\ pairs[p].ba = Result(profiles[p[2]].output, p[1])
      BY <1>3, <2>3, <3>1 DEF PublishedIsHonest, PairIsHonest
    <3>4. pairs[p].ab = TrueOrder(p[1], p[2]) /\ pairs[p].ba = TrueOrder(p[2], p[1])
      BY <2>2, <3>2, <3>3 DEF TrueOrder
    <3>5. pairs[p].dynamic = TrueDynamic(<<p[1], p[2]>>)
      BY <1>1, <3>1, <3>2, <3>4, TrueOrdersClassify
    <3> QED BY <1>1, <3>5
  <2>4. CASE ~ Profiled(p)
    <3>1. pairs[p].dynamic = Classify(profiles[p[1]], profiles[p[2]], TRUE)
      BY <1>2, <1>5, <2>4 DEF PairIsOrdered
    <3>2. /\ profiles[p[1]].status \in {"success", "error"} /\ profiles[p[2]].status \in {"success", "error"}
          /\ profiles[p[1]].status = "success" <=> Applied(p[1])[Root] # NoModule
          /\ profiles[p[2]].status = "success" <=> Applied(p[2])[Root] # NoModule
      BY <1>1, <2>2, ResultTyped
    <3>3. profiles[p[1]].status # "success" \/ profiles[p[2]].status # "success"
      BY <2>4 DEF Profiled
    <3>4. Classify(profiles[p[1]], profiles[p[2]], TRUE) = "failed"
      BY <3>2, <3>3 DEF Classify
    <3>5. Chain(p[1], p[2]) = NoModule \/ Chain(p[2], p[1]) = NoModule
      BY <3>2, <3>3 DEF Chain
    <3>6. TrueDynamic(p) = "failed"
      BY <3>5 DEF TrueDynamic
    <3> QED BY <3>1, <3>4, <3>6
  <2> QED BY <2>3, <2>4
<1> QED BY <1>4, <1>5

\* What the invariant says of the published evidence.
LEMMA EvidenceIsTrueIn ==
  ASSUME GroupInvariant, BlameInvariant, NothingMisbehaved
  PROVE  EvidenceIsTrue
<1> SUFFICES ASSUME failures = 0
             PROVE  /\ \A p \in Pairs : pairs[p].dynamic \in {"open", TrueDynamic(p)}
                    /\ \A g \in DOMAIN results : \A a \in Groups[g] :
                         Authorized(results[g].rows, a) <=> TrulyAuthorized(Groups[g], a)
                    /\ phase = "done" =>
                         \A g \in DOMAIN results : \A p \in PairsOfGroup(g) :
                           FalseAuthorization(g, p) => StableFalseAuthorization(g, p)
  BY DEF EvidenceIsTrue
<1>1. AllIsTrue
  BY DEF NothingMisbehaved
<1>2. \A p \in Pairs : pairs[p].dynamic \in {"open", TrueDynamic(p)}
  BY <1>1, MatrixIsTrue
<1>3. ASSUME NEW g \in DOMAIN results, NEW a \in Groups[g]
      PROVE  Authorized(results[g].rows, a) <=> TrulyAuthorized(Groups[g], a)
  <2>1. g \in 1 .. Len(Groups)
    BY GroupsAssumption DEF GroupInvariant, StudyTyped
  <2>2. Groups[g] \in SUBSET Actions
    BY <2>1, GroupsAssumption
  <2>3. results[g].rows[a] = TrueRow(Groups[g], a)
    BY <1>1 DEF AllIsTrue, ResultsAreTrue
  <2>4. TrueRow(Groups[g], a).direction = "authorized_all_others" <=> TrulyAuthorized(Groups[g], a)
    BY <2>2, TrueRowIsRight DEF GroupInvariant
  <2> QED BY <2>3, <2>4 DEF Authorized
<1>4. ASSUME phase = "done", NEW g \in DOMAIN results, NEW p \in PairsOfGroup(g), FalseAuthorization(g, p)
      PROVE  StableFalseAuthorization(g, p)
  <2>1. Cases \subseteq DOMAIN replays
    BY <1>4 DEF BlameInvariant, StudyIsOrdered, PhaseIsOrdered, OpenCases
  <2>2. <<g, p>> \in FalseAuthorizations
    BY <1>4 DEF FalseAuthorizations, PairsOfGroup
  <2>3. CasesOf(g, p) \subseteq Cases
    BY <2>2 DEF Cases
  <2> QED BY <1>1, <1>4, <2>1, <2>3 DEF StableFalseAuthorization, AllIsTrue, ReplaysAreStable
<1> QED BY <1>2, <1>3, <1>4

\* A study in which nothing misbehaved publishes the truth: the profiles, the
\* matrix, the authorisations and their replays (run_study).
THEOREM EvidenceAlwaysTrue == Spec => []EvidenceIsTrue
<1>1. GroupInvariant /\ BlameInvariant /\ NothingMisbehaved => EvidenceIsTrue
  BY EvidenceIsTrueIn
<1> QED BY <1>1, TruthIsKept, PTL

-----------------------------------------------------------------------------
\* What a group reports.

\* A row that was decided: its merge was refused, its second run failed, or
\* what it did was compared.
IsDecided(row) ==
  \/ /\ row.merge = row.direction /\ row.merge \in MergeStatuses \ {"complete"}
     /\ row.run = NotRun
  \/ /\ row.merge = "complete" /\ row.run.status \in VerifiedRun
     /\ row.direction = IF row.run.status = "timeout" THEN "timeout" ELSE "second_round_failed"
  \/ /\ row.merge = "complete" /\ row.run.status = "success"
     /\ row.direction \in {"authorized_all_others", "rejected_effect_changed", "timeout", "unknown"}

\* Why a group with the runs fs on the root may be given up.
Reasons(A, fs) ==
  IF \E a \in A : fs[a].status = "timeout" THEN {"timeout"}
  ELSE IF \E a \in A : fs[a].status # "success" THEN {"round1_precondition_failed"}
  ELSE {"timeout", "direct_merge_not_defined"}

VerdictOf(A, rs) ==
  IF \A a \in A : Authorized(rs, a) THEN "authorized"
  ELSE IF \E a \in A : rs[a].merge # "complete" \/ rs[a].run.status # "success"
    THEN "group_precondition_unavailable"
  ELSE IF \A a \in A : rs[a].direction \in {"authorized_all_others", "rejected_effect_changed"}
    THEN "rejected"
  ELSE "unknown"

\* A group is given up for one reason, or every row of it is decided.
IsGivenUp(A, fs, rs, v) ==
  /\ v = "group_precondition_unavailable"
  /\ \E d \in Reasons(A, fs) : \A a \in A : rs[a] = Unavailable(d)
IsJudged(A, fs, rs, v) ==
  /\ \A a \in A : fs[a].status = "success" /\ IsDecided(rs[a])
  /\ v = VerdictOf(A, rs)
IsReported(A, fs, rs, v) == IsGivenUp(A, fs, rs, v) \/ IsJudged(A, fs, rs, v)

EvaluationIsShaped ==
  /\ step \in {"merge", "second", "compare"} =>
       \A a \in members : rows[a] = NoRow \/ IsDecided(rows[a])
  /\ step = "reported" => IsReported(members, firsts, rows, verdict)

ResultsAreShaped ==
  \A g \in DOMAIN results : IsReported(Groups[g], profiles, results[g].rows, results[g].verdict)

\* The comparator is asked about two successes only.
PairIsShaped(pair) ==
  /\ pair.ab \in Stages /\ pair.ba \in Stages
  /\ pair.dynamic = "unknown" => pair.ab.status = "success" /\ pair.ba.status = "success"
MatrixIsShaped == \A p \in Pairs : PairIsShaped(pairs[p])

RowsAreShaped ==
  /\ EvaluationIsShaped /\ ResultsAreShaped /\ MatrixIsShaped
  /\ phase \in {"replay", "done"} => Len(results) = Len(Groups)

\* The rows that are given up, and the one that is decided.
LEMMA GiveUpShaped ==
  ASSUME GroupInvariant, NEW d \in Reasons(members, firsts), GiveUp(d), UNCHANGED <<members, firsts>>
  PROVE  EvaluationIsShaped'
<1>1. \A a \in members : rows'[a] = Unavailable(d)
  BY DEF GiveUp, GroupInvariant, TypeOK
<1>2. verdict' = "group_precondition_unavailable" /\ step' = "reported"
  BY DEF GiveUp
<1>3. IsReported(members, firsts, rows', verdict')
  BY <1>1, <1>2 DEF IsReported, IsGivenUp
<1> QED BY <1>2, <1>3 DEF EvaluationIsShaped

\* The row that is decided.
LEMMA DecideShaped ==
  ASSUME GroupInvariant, EvaluationIsShaped, step \in {"merge", "second", "compare"}, Undecided # {},
         NEW row, IsDecided(row), Decide(row), UNCHANGED members
  PROVE  EvaluationIsShaped'
<1>1. Turn \in members
  BY NextIsLeft DEF Turn, Undecided, GroupInvariant, TypeOK
<1>2. step' = "merge" /\ rows' = [rows EXCEPT ![Turn] = row] /\ members \subseteq Actions
      /\ DOMAIN rows = Actions
  BY DEF Decide, GroupInvariant, TypeOK
<1>3. \A a \in members : rows'[a] = NoRow \/ IsDecided(rows'[a])
  BY <1>1, <1>2 DEF EvaluationIsShaped
<1> QED BY <1>2, <1>3 DEF EvaluationIsShaped

\* Every step of the evaluation keeps its rows decided one by one.
LEMMA ShapedStep ==
  ASSUME GroupInvariant, EvaluationIsShaped, EvaluationStep
  PROVE  EvaluationIsShaped'
<1>1. CASE RunFirst \/ AcceptFirstRound
  BY <1>1 DEF RunFirst, AcceptFirstRound, EvaluationIsShaped
<1>2. CASE RefuseFirstRound
  <2>1. PICK d : /\ d = IF \E a \in members : firsts[a].status = "timeout"
                          THEN "timeout" ELSE "round1_precondition_failed"
                 /\ GiveUp(d) /\ UNCHANGED <<members, firsts>>
                 /\ \E a \in members : firsts[a].status # "success"
    BY <1>2 DEF RefuseFirstRound
  <2>2. d \in Reasons(members, firsts)
    BY <2>1 DEF Reasons
  <2> QED BY <2>1, <2>2, GiveUpShaped
<1>3. ASSUME step = "inspect"
      PROVE  {"timeout", "direct_merge_not_defined"} \subseteq Reasons(members, firsts)
  BY <1>3 DEF Reasons, GroupInvariant, EvaluationIsSound, FirstRoundSucceeded
<1>4. CASE Inspect
  <2>1. PICK reply :
          /\ UNCHANGED <<members, firsts>> /\ step = "inspect"
          /\ \/ UNCHANGED <<step, rows, verdict>>
             \/ GiveUp(IF reply = "timeout" THEN "timeout" ELSE "direct_merge_not_defined")
    BY <1>4 DEF Inspect
  <2>2. CASE UNCHANGED step
    BY <2>1, <2>2 DEF EvaluationIsShaped
  <2>3. CASE GiveUp(IF reply = "timeout" THEN "timeout" ELSE "direct_merge_not_defined")
    <3>1. PICK d \in {"timeout", "direct_merge_not_defined"} : GiveUp(d)
      BY <2>3
    <3> QED BY <1>3, <2>1, <3>1, GiveUpShaped
  <2> QED BY <2>1, <2>2, <2>3
<1>5. CASE CheckOverlap
  <2>1. step = "inspect" /\ UNCHANGED <<members, firsts>>
    BY <1>5 DEF CheckOverlap
  <2>2. CASE GiveUp("direct_merge_not_defined")
    BY <1>3, <2>1, <2>2, GiveUpShaped
  <2>3. CASE step' = "merge" /\ rows' = rows
    <3>1. \A a \in members : rows'[a] = NoRow
      BY <2>1, <2>3 DEF GroupInvariant, TypeOK, EvaluationIsSound, NoRows
    <3> QED BY <2>1, <2>3, <3>1 DEF EvaluationIsShaped
  <2> QED BY <1>5, <2>2, <2>3 DEF CheckOverlap
<1>6. CASE MergeOthers
  <2>1. PICK reply \in MergeStatuses :
          /\ UNCHANGED members /\ step = "merge" /\ Undecided # {}
          /\ \/ step' = "second" /\ rows' = rows
             \/ reply # "complete" /\ Decide(Row(reply, reply, NoModule, NotRun))
    BY <1>6 DEF MergeOthers
  <2>2. CASE step' = "second" /\ rows' = rows
    BY <2>1, <2>2 DEF EvaluationIsShaped
  <2>3. CASE reply # "complete" /\ Decide(Row(reply, reply, NoModule, NotRun))
    <3>1. IsDecided(Row(reply, reply, NoModule, NotRun))
      BY <2>3 DEF IsDecided, Row
    <3> QED BY <2>1, <2>3, <3>1, DecideShaped
  <2> QED BY <2>1, <2>2, <2>3
<1>7. CASE RunSecond
  <2>1. PICK stage \in Reports(merged, Turn, VerifiedRun) :
          /\ UNCHANGED members /\ step = "second"
          /\ \/ step' = "compare" /\ rows' = rows
             \/ /\ stage.status # "success"
                /\ Decide(Row(IF stage.status = "timeout" THEN "timeout" ELSE "second_round_failed",
                              "complete", merged, stage))
    BY <1>7 DEF RunSecond
  <2>2. CASE step' = "compare" /\ rows' = rows
    BY <2>1, <2>2 DEF EvaluationIsShaped
  <2>3. ASSUME stage.status # "success",
               Decide(Row(IF stage.status = "timeout" THEN "timeout" ELSE "second_round_failed",
                          "complete", merged, stage))
        PROVE  EvaluationIsShaped'
    <3>1. stage.status \in VerifiedRun
      BY <2>3 DEF Reports, Result, Stage, VerifiedRun
    <3>2. PICK row : /\ row = Row(IF stage.status = "timeout" THEN "timeout" ELSE "second_round_failed",
                                  "complete", merged, stage)
                     /\ Decide(row)
      BY <2>3
    <3>3. IsDecided(row)
      BY <3>1, <3>2 DEF IsDecided, Row
    <3>4. Undecided # {}
      BY <2>1 DEF GroupInvariant, EvaluationIsSound
    <3> QED BY <2>1, <3>2, <3>3, <3>4, DecideShaped
  <2> QED BY <2>1, <2>2, <2>3
<1>8. CASE CompareEffect
  <2>1. PICK d : /\ UNCHANGED members /\ step = "compare"
                 /\ d \in {"authorized_all_others", "rejected_effect_changed", "timeout", "unknown"}
                 /\ Decide(Row(d, "complete", merged, second))
    BY <1>8 DEF CompareEffect, EffectDirection
  <2>2. PICK row : row = Row(d, "complete", merged, second) /\ Decide(row)
    BY <2>1
  <2>3. IsDecided(row)
    BY <2>1, <2>2 DEF IsDecided, Row, GroupInvariant, EvaluationIsSound
  <2>4. Undecided # {}
    BY <2>1 DEF GroupInvariant, EvaluationIsSound
  <2> QED BY <2>1, <2>2, <2>3, <2>4, DecideShaped
<1>9. CASE FinishGroup
  <2>1. /\ step = "merge" /\ Undecided = {} /\ step' = "reported" /\ verdict' = GroupVerdict
        /\ UNCHANGED <<members, firsts, rows>>
    BY <1>9 DEF FinishGroup
  <2>2. \A a \in members : firsts[a].status = "success" /\ IsDecided(rows[a])
    BY <2>1 DEF GroupInvariant, EvaluationIsSound, FirstRoundSucceeded, EvaluationIsShaped, Undecided
  <2>3. GroupVerdict = VerdictOf(members, rows)
    BY DEF GroupVerdict, VerdictOf
  <2>4. IsReported(members, firsts, rows, verdict')
    BY <2>1, <2>2, <2>3 DEF IsReported, IsJudged
  <2> QED BY <2>1, <2>4 DEF EvaluationIsShaped
<1> QED BY <1>1, <1>2, <1>4, <1>5, <1>6, <1>7, <1>8, <1>9 DEF EvaluationStep

\* Parts of the shape that a step leaves alone.
LEMMA ResultsKept ==
  ASSUME ResultsAreShaped, UNCHANGED <<results, profiles>>
  PROVE  ResultsAreShaped'
BY DEF ResultsAreShaped

\* A step beside the evaluation keeps what it reports.
LEMMA AsideShaped ==
  ASSUME EvaluationIsShaped,
         \/ UNCHANGED evalVars
         \/ NotEvaluated
         \/ step' = "gate"
         \/ \E A, fs : Evaluate(A, fs, "profile") \/ Evaluate(A, fs, "gate")
  PROVE  EvaluationIsShaped'
BY DEF EvaluationIsShaped, evalVars, NotEvaluated, Evaluate

\* One pair changes, and the matrix stays one of rows that ended as they did.
LEMMA PairShaped ==
  ASSUME MatrixIsShaped, NEW p \in Pairs, NEW pair, PairIsShaped(pair),
         \A r \in Pairs \ {p} : pairs'[r] = pairs[r], pairs'[p] = pair
  PROVE  MatrixIsShaped'
<1> SUFFICES ASSUME NEW r \in Pairs PROVE PairIsShaped(pairs'[r])
  BY DEF MatrixIsShaped
<1>1. CASE r = p
  BY <1>1
<1>2. CASE r # p
  BY <1>2 DEF MatrixIsShaped
<1> QED BY <1>1, <1>2

\* Both orders of a pair start from a first run that succeeded.
LEMMA NoPairShaped == PairIsShaped(Pair(NotRun, NotRun, "open"))
BY DEF PairIsShaped, Pair, NotRun, Stages

\* The stage of an order is one.
LEMMA OrderTyped ==
  ASSUME GroupInvariant, NEW a \in Actions, NEW b \in Actions, profiles[a].status = "success",
         NEW stage \in Reports(profiles[a].output, b, VerifiedRun)
  PROVE  stage \in Stages
<1>1. profiles[a] \in Stages /\ study \in DOMAIN Studies
  BY DEF GroupInvariant, StudyTyped, TypeOK
<1>2. profiles[a].output \in Modules
  BY <1>1, SuccessHasModule
<1> QED BY <1>1, <1>2, ReportsTyped

\* The matrix asks the comparator about two successes only (pair_matrix.py).
LEMMA MatrixShaped ==
  ASSUME GroupInvariant, StudyIsOrdered, RowsAreShaped,
         StartPair \/ \E p \in Pairs : SecondOrder(p) \/ FinishPair(p)
  PROVE  RowsAreShaped'
<1>1. phase = "pairs" /\ UNCHANGED <<evalVars, phase, profiles, results>> /\ DOMAIN pairs = Pairs
  BY DEF StartPair, SecondOrder, FinishPair, StudyIsOrdered, MatrixIsOrdered
<1>2. CASE StartPair
  <2>1. PICK p \in Pairs : p = First({q \in Pairs : Waiting(q)}) /\ Waiting(p)
    BY <1>2, FirstPair DEF StartPair
  <2>2. pairs[p] = Pair(NotRun, NotRun, "open")
    BY <2>1 DEF Waiting, NoPairs
  <2>3. PICK ab, d : /\ d # "unknown" /\ ab \in Stages
                     /\ \/ pairs' = [pairs EXCEPT ![p].ab = ab] /\ d = "open"
                        \/ pairs' = [pairs EXCEPT ![p].dynamic = d] /\ ab = NotRun
    <3>1. Classify(profiles[p[1]], profiles[p[2]], TRUE) # "unknown" /\ "open" # "unknown"
      BY DEF Classify
    <3>2. NotRun \in Stages /\ p[1] \in Actions /\ p[2] \in Actions
      BY DEF NotRun, Stages, Pairs
    <3>3. CASE /\ Profiled(p)
               /\ \E stage \in Reports(profiles[p[1]].output, p[2], VerifiedRun) :
                    pairs' = [pairs EXCEPT ![p].ab = stage]
      <4>1. PICK stage \in Reports(profiles[p[1]].output, p[2], VerifiedRun) :
              pairs' = [pairs EXCEPT ![p].ab = stage]
        BY <3>3
      <4>2. stage \in Stages
        BY <3>2, <3>3, OrderTyped DEF Profiled
      <4> QED BY <3>1, <4>1, <4>2
    <3>4. CASE pairs' = [pairs EXCEPT ![p].dynamic = Classify(profiles[p[1]], profiles[p[2]], TRUE)]
      BY <3>1, <3>2, <3>4
    <3> QED BY <1>2, <2>1, <3>3, <3>4 DEF StartPair
  <2>4. pairs'[p] = Pair(ab, NotRun, d) /\ \A r \in Pairs \ {p} : pairs'[r] = pairs[r]
    BY <1>1, <2>2, <2>3 DEF Pair
  <2>5. PairIsShaped(Pair(ab, NotRun, d))
    BY <2>3 DEF PairIsShaped, Pair, NotRun, Stages
  <2> QED BY <1>1, <2>4, <2>5, PairShaped, AsideShaped, ResultsKept DEF RowsAreShaped
<1>3. ASSUME NEW p \in Pairs, SecondOrder(p)
      PROVE  RowsAreShaped'
  <2>1. pairs[p] = Pair(pairs[p].ab, pairs[p].ba, "open")
    BY <1>3, RunningPair DEF SecondOrder
  <2>2. PICK stage \in Stages : pairs' = [pairs EXCEPT ![p].ba = stage]
    <3>1. PICK stage \in Reports(profiles[p[2]].output, p[1], VerifiedRun) :
            pairs' = [pairs EXCEPT ![p].ba = stage]
      BY <1>3 DEF SecondOrder
    <3>2. profiles[p[2]].status = "success" /\ p[1] \in Actions /\ p[2] \in Actions
      BY <1>3, RunningPair DEF SecondOrder, Profiled, Pairs
    <3> QED BY <3>1, <3>2, OrderTyped
  <2>3. pairs'[p] = Pair(pairs[p].ab, stage, "open") /\ \A r \in Pairs \ {p} : pairs'[r] = pairs[r]
    BY <1>1, <2>1, <2>2 DEF Pair
  <2>4. PairIsShaped(Pair(pairs[p].ab, stage, "open"))
    BY <2>2 DEF RowsAreShaped, MatrixIsShaped, PairIsShaped, Pair
  <2> QED BY <1>1, <2>3, <2>4, PairShaped, AsideShaped, ResultsKept DEF RowsAreShaped
<1>4. ASSUME NEW p \in Pairs, FinishPair(p)
      PROVE  RowsAreShaped'
  <2>1. pairs[p] = Pair(pairs[p].ab, pairs[p].ba, "open")
    BY <1>4, RunningPair DEF FinishPair
  <2>2. PICK d : /\ pairs' = [pairs EXCEPT ![p].dynamic = d]
                 /\ d = "unknown" => pairs[p].ab.status = "success" /\ pairs[p].ba.status = "success"
    BY <1>4 DEF FinishPair, Classify
  <2>3. pairs'[p] = Pair(pairs[p].ab, pairs[p].ba, d) /\ \A r \in Pairs \ {p} : pairs'[r] = pairs[r]
    BY <1>1, <2>1, <2>2 DEF Pair
  <2>4. PairIsShaped(Pair(pairs[p].ab, pairs[p].ba, d))
    BY <2>2 DEF RowsAreShaped, MatrixIsShaped, PairIsShaped, Pair
  <2> QED BY <1>1, <2>3, <2>4, PairShaped, AsideShaped, ResultsKept DEF RowsAreShaped
<1> QED BY <1>2, <1>3, <1>4

\* A group that is published was given up for one reason or decided.
LEMMA PublishGroupShaped ==
  ASSUME GroupInvariant, StudyIsOrdered, RowsAreShaped, PublishGroup
  PROVE  RowsAreShaped'
<1> DEFINE r == [rows |-> rows, verdict |-> verdict]
<1>1. /\ phase = "groups" /\ step = "reported" /\ NotEvaluated
      /\ results' = Append(results, r)
      /\ phase' = IF Len(results) + 1 = Len(Groups) THEN "replay" ELSE "groups"
      /\ UNCHANGED <<profiles, pairs>>
  BY DEF PublishGroup
<1>2. members = Groups[Len(results) + 1] /\ firsts = Only(members, profiles) /\ members \subseteq Actions
  BY <1>1 DEF StudyIsOrdered, PhaseIsOrdered, GroupInvariant, TypeOK
<1>3. /\ DOMAIN results = 1 .. Len(results) /\ Len(results) \in Nat
      /\ DOMAIN results' = 1 .. Len(results) + 1 /\ Len(results') = Len(results) + 1
      /\ \A g \in 1 .. Len(results) : results'[g] = results[g]
      /\ results'[Len(results) + 1] = r
  <2>1. \E S : results \in Seq(S)
    BY DEF GroupInvariant, StudyTyped
  <2> HIDE DEF r
  <2>2. \E S : results' \in Seq(S)
    BY <1>1, <2>1, OneMore
  <2> QED BY <1>1, <2>1, <2>2, OneMore
<1>4. IsReported(members, profiles, rows, verdict)
  <2>1. IsReported(members, firsts, rows, verdict)
    BY <1>1 DEF RowsAreShaped, EvaluationIsShaped
  <2>2. \A a \in members : firsts[a] = profiles[a]
    BY <1>2 DEF Only
  <2> QED BY <2>1, <2>2 DEF IsReported, IsGivenUp, IsJudged, Reasons
<1>5. ASSUME NEW g \in DOMAIN results'
      PROVE  IsReported(Groups[g], profiles, results'[g].rows, results'[g].verdict)
  <2>1. CASE g \in DOMAIN results
    BY <1>3, <2>1 DEF RowsAreShaped, ResultsAreShaped
  <2>2. CASE g = Len(results) + 1
    BY <1>2, <1>3, <1>4, <2>2
  <2> QED BY <1>3, <2>1, <2>2
<1>6. ResultsAreShaped'
  BY <1>1, <1>5 DEF ResultsAreShaped
<1>7. EvaluationIsShaped' /\ MatrixIsShaped'
  BY <1>1, AsideShaped DEF RowsAreShaped, MatrixIsShaped
<1> QED BY <1>1, <1>3, <1>6, <1>7 DEF RowsAreShaped

\* Every step keeps what is known of the rows.
LEMMA ShapeStep ==
  ASSUME GroupInvariant, StudyIsOrdered, RowsAreShaped, [Next]_vars
  PROVE  RowsAreShaped'
<1>1. CASE EvaluationStep /\ UNCHANGED studyVars
  BY <1>1, ShapedStep, ResultsKept DEF RowsAreShaped, studyVars, MatrixIsShaped
<1>2. CASE PublishProfiles
  <2>1. /\ phase = "profiles" /\ phase' = "pairs" /\ NotEvaluated /\ UNCHANGED <<pairs, results>>
    BY <1>2 DEF PublishProfiles
  <2>2. results = <<>> /\ DOMAIN results' = {}
    BY <2>1 DEF StudyIsOrdered, PhaseIsOrdered
  <2>3. ResultsAreShaped'
    BY <2>2 DEF ResultsAreShaped
  <2> QED BY <2>1, <2>3, AsideShaped DEF RowsAreShaped, MatrixIsShaped
<1>3. CASE StartPair \/ \E p \in Pairs : SecondOrder(p) \/ FinishPair(p)
  BY <1>3, MatrixShaped
<1>4. CASE PublishGroup
  BY <1>4, PublishGroupShaped
<1>5. CASE Restart
  <2>1. /\ NotEvaluated /\ UNCHANGED <<phase, profiles, results>>
        /\ pairs' = NoPairs \/ pairs' = pairs
    BY <1>5 DEF Restart
  <2>2. MatrixIsShaped'
    BY <2>1, NoPairShaped DEF RowsAreShaped, MatrixIsShaped, NoPairs
  <2> QED BY <2>1, <2>2, AsideShaped, ResultsKept DEF RowsAreShaped
<1>6. CASE StartProfiles \/ PublishPairs \/ StartGroup \/ ReplayPair \/ ReplayRule \/ FinishReplay
           \/ PublishReplay \/ Finish \/ UNCHANGED vars
  <2>1. UNCHANGED <<profiles, pairs, results>>
    BY <1>6 DEF StartProfiles, PublishPairs, StartGroup, ReplayPair, ReplayRule, FinishReplay,
                PublishReplay, Finish, vars, studyVars
  <2>2. phase' \in {"replay", "done"} => phase \in {"replay", "done"}
    BY <1>6 DEF StartProfiles, PublishPairs, StartGroup, ReplayPair, ReplayRule, FinishReplay,
                PublishReplay, Finish, vars, studyVars
  <2>3. EvaluationIsShaped'
    <3>1. \/ UNCHANGED evalVars \/ NotEvaluated \/ step' = "gate"
          \/ \E A, fs : Evaluate(A, fs, "profile") \/ Evaluate(A, fs, "gate")
      BY <1>6 DEF StartProfiles, PublishPairs, StartGroup, ReplayPair, ReplayRule, FinishReplay,
                  PublishReplay, Finish, vars
    <3> QED BY <3>1, AsideShaped DEF RowsAreShaped
  <2> QED BY <2>1, <2>2, <2>3, ResultsKept DEF RowsAreShaped, MatrixIsShaped
<1> QED BY <1>1, <1>2, <1>3, <1>4, <1>5, <1>6 DEF Next, Done

\* It holds of a study that has not begun.
LEMMA ShapeInit ==
  ASSUME Init
  PROVE  RowsAreShaped
<1>1. EvaluationIsShaped /\ ResultsAreShaped
  BY DEF Init, EvaluationIsShaped, ResultsAreShaped
<1>2. MatrixIsShaped
  BY NoPairShaped DEF Init, NoPairs, MatrixIsShaped
<1> QED BY <1>1, <1>2 DEF Init, RowsAreShaped

-----------------------------------------------------------------------------
\* The rows of a decided program.

MadeProfiles ==
  [a \in Actions |-> IF phase = "profiles" THEN MissingProfile ELSE ProfileRow(profiles[a])]
MadePairs ==
  [p \in Pairs |-> IF phase \in {"profiles", "pairs"}
                     THEN MissingPair(MadeProfiles[p[1]].status, MadeProfiles[p[2]].status)
                     ELSE MeasuredPair(p)]

\* What DecideProgram wrote.
PayloadIsMade ==
  payload # NoPayload =>
    /\ payload.limited \in BOOLEAN /\ (payload.limited \/ phase = "done")
    /\ payload.profiles = MadeProfiles /\ payload.pairs = MadePairs
    /\ DOMAIN payload.witnesses = DOMAIN replays \cup OpenCases
    /\ \A g \in DOMAIN Groups :
         IF g \in DOMAIN results
           THEN \E gates \in MeasuredGates(g) :
                  payload.groups[g] = MeasuredGroup(g, gates, MadeProfiles, payload.witnesses)
           ELSE payload.groups[g] = MissingGroup(g, MadeProfiles, MadePairs)

\* The decision writes these rows (recover_runtime_budget_limited_program).
LEMMA DecideMakes ==
  ASSUME DecideProgram
  PROVE  PayloadIsMade' /\ UNCHANGED vars
<1>1. UNCHANGED vars
  BY DEF DecideProgram
<1>2. PICK limited \in BOOLEAN, replay \in Replayed,
           gates \in [DOMAIN results -> UNION {MeasuredGates(g) : g \in DOMAIN results}] :
        /\ limited \/ phase = "done"
        /\ \A g \in DOMAIN results : gates[g] \in MeasuredGates(g)
        /\ LET ws == [c \in DOMAIN replays \cup OpenCases |->
                        IF c \in DOMAIN replays THEN replays[c] ELSE replay]
           IN payload' = [limited |-> limited, profiles |-> MadeProfiles, pairs |-> MadePairs,
                          witnesses |-> ws,
                          groups |-> [g \in DOMAIN Groups |->
                             IF g \in DOMAIN results THEN MeasuredGroup(g, gates[g], MadeProfiles, ws)
                                                     ELSE MissingGroup(g, MadeProfiles, MadePairs)]]
  BY DEF DecideProgram, MadeProfiles, MadePairs
<1>3. PICK ws, groups :
        /\ DOMAIN ws = DOMAIN replays \cup OpenCases
        /\ groups = [g \in DOMAIN Groups |->
                       IF g \in DOMAIN results THEN MeasuredGroup(g, gates[g], MadeProfiles, ws)
                                               ELSE MissingGroup(g, MadeProfiles, MadePairs)]
        /\ payload' = [limited |-> limited, profiles |-> MadeProfiles, pairs |-> MadePairs,
                       witnesses |-> ws, groups |-> groups]
  BY <1>2
<1>4. /\ payload'.limited = limited /\ payload'.profiles = MadeProfiles /\ payload'.pairs = MadePairs
      /\ payload'.witnesses = ws /\ payload'.groups = groups
  BY <1>3
<1>5. ASSUME NEW g \in DOMAIN Groups
      PROVE  IF g \in DOMAIN results
               THEN \E gs \in MeasuredGates(g) :
                      payload'.groups[g] = MeasuredGroup(g, gs, MadeProfiles, payload'.witnesses)
               ELSE payload'.groups[g] = MissingGroup(g, MadeProfiles, MadePairs)
  BY <1>2, <1>3, <1>4
<1>6. /\ MadeProfiles' = MadeProfiles /\ MadePairs' = MadePairs /\ OpenCases' = OpenCases
      /\ UNCHANGED <<phase, results, replays>>
  <2>1. UNCHANGED <<study, failures, phase, profiles, pairs, results, replays>>
    BY <1>1 DEF vars, studyVars
  <2>2. MadeProfiles' = MadeProfiles
    BY <2>1 DEF MadeProfiles, ProfileRow, Root
  <2>3. MadePairs' = MadePairs
    BY <2>1, <2>2 DEF MadePairs, MeasuredPair
  <2> QED BY <2>1, <2>2, <2>3, SameCases
<1>7. \A g, gs, fs, ws1 : /\ MeasuredGates(g)' = MeasuredGates(g)
                         /\ MeasuredGroup(g, gs, fs, ws1)' = MeasuredGroup(g, gs, fs, ws1)
  BY <1>1 DEF vars, studyVars, MeasuredGates, MeasuredGroup, MeasuredValidation, FalseAuthorization,
              CasesOf, Authorized, Root
<1> QED BY <1>1, <1>2, <1>3, <1>4, <1>5, <1>6, <1>7 DEF PayloadIsMade

\* The rows of the first runs.
LEMMA ProfilesAreKnown ==
  ASSUME GroupInvariant, StudyIsOrdered, NEW a \in Actions
  PROVE  /\ MadeProfiles[a].status \in {"success", "invalid", "error", "timeout"}
         /\ MadeProfiles[a].activity \in {"active", "no_op", "unknown"}
         /\ MadeProfiles[a].physical = IF phase = "profiles" THEN 0 ELSE 1
         /\ phase # "profiles" => MadeProfiles[a].status = profiles[a].status
         /\ phase = "profiles" => MadeProfiles[a].status = "timeout"
<1>1. CASE phase = "profiles"
  BY <1>1 DEF MadeProfiles, MissingProfile
<1>2. CASE phase # "profiles"
  <2>1. profiles[a] \in Stages /\ profiles[a] # NotRun
    BY <1>2 DEF GroupInvariant, StudyTyped, StudyIsOrdered, PhaseIsOrdered
  <2>2. profiles[a].status \in {"success", "invalid", "error", "timeout"}
    BY <2>1 DEF Stages, Successes, Stage, NotRun
  <2>3. MadeProfiles[a] = ProfileRow(profiles[a])
    BY <1>2 DEF MadeProfiles
  <2> QED BY <1>2, <2>2, <2>3 DEF ProfileRow
<1> QED BY <1>1, <1>2

-----------------------------------------------------------------------------
\* What the tables say of a group, however its rows were made.

\* It was stopped before anything was decided,
IsStopped(t, A) ==
  /\ t.verdict = "group_precondition_unavailable"
  /\ t.gates.disjoint # "disjoint" /\ t.gates.merge # "complete" /\ t.gates.second # "complete"
  /\ \A a \in A : t.directions[a].status \notin {"authorized_all_others", "rejected_effect_changed"}

\* or each of its actions was.
IsDecision(r) ==
  \/ /\ r.merge \in MergeStatuses \ {"complete"} /\ r.status = r.merge
     /\ r.second = "not_run"
  \/ /\ r.merge = "complete" /\ r.second \in VerifiedRun
     /\ r.status \in {"timeout", "second_round_failed"}
  \/ /\ r.merge = "complete" /\ r.second = "success"
     /\ r.status \in {"authorized_all_others", "rejected_effect_changed", "timeout", "unknown"}
IsDecidedGroup(t, A) ==
  /\ t.gates.round1 = "complete" /\ t.gates.disjoint = "disjoint"
  /\ t.gates.merge = "complete" <=> \A a \in A : t.directions[a].merge = "complete"
  /\ t.gates.second = "complete" <=> \A a \in A : t.directions[a].second = "success"
  /\ \A a \in A : IsDecision(t.directions[a])
  /\ t.verdict =
       IF \A a \in A : t.directions[a].status = "authorized_all_others" THEN "authorized"
       ELSE IF \E a \in A : t.directions[a].merge # "complete" \/ t.directions[a].second # "success"
         THEN "group_precondition_unavailable"
       ELSE IF \A a \in A : t.directions[a].status
                              \in {"authorized_all_others", "rejected_effect_changed"}
         THEN "rejected"
       ELSE "unknown"

WordsOfGroup(t, A) ==
  /\ t.gates.second \in {"complete", "second_round_failed", "timeout", "unknown"}
  /\ t.gates.merge \in MergeStatuses
  /\ \A a \in A : t.directions[a].status \in Directions

\* The gates of a group that was given up.
LEMMA GivenUpGates ==
  ASSUME NEW g \in DOMAIN results, Groups[g] # {},
         IsGivenUp(Groups[g], profiles, results[g].rows, results[g].verdict),
         NEW gates \in MeasuredGates(g)
  PROVE  /\ gates.disjoint # "disjoint" /\ gates.merge \in MergeStatuses \ {"complete"}
         /\ gates.second = "unknown"
<1> DEFINE A == Groups[g]
           given == {results[g].rows[a] : a \in A}
<1>1. PICK d \in Reasons(A, profiles) : \A a \in A : results[g].rows[a] = Unavailable(d)
  BY DEF IsGivenUp
<1>2. given = {Unavailable(d)}
  BY <1>1
<1>3. CASE \E a \in A : profiles[a].status = "timeout"
  BY <1>3 DEF MeasuredGates, Gates, MergeStatuses, FatalKinds
<1>4. CASE (~ \E a \in A : profiles[a].status = "timeout") /\ \E a \in A : profiles[a].status # "success"
  BY <1>4 DEF MeasuredGates, Gates, MergeStatuses, FatalKinds
<1>5. CASE ~ \E a \in A : profiles[a].status # "success"
  <2>1. d \in {"timeout", "direct_merge_not_defined"}
    BY <1>1, <1>5 DEF Reasons
  <2>2. CASE d = "timeout"
    <3>1. gates = Gates("complete", "unknown", "timeout", "unknown")
      BY <1>2, <1>5, <2>2 DEF MeasuredGates
    <3> QED BY <3>1 DEF Gates, MergeStatuses, FatalKinds
  <2>3. CASE d = "direct_merge_not_defined"
    <3>1. Unavailable("direct_merge_not_defined") # Unavailable("timeout")
      BY DEF Unavailable, Row
    <3>2. \/ \E m \in {"direct_merge_not_defined", "unknown"} :
               gates = Gates("complete", "unknown", m, "unknown")
          \/ gates = Gates("complete", "overlap", "direct_merge_not_defined", "unknown")
      BY <1>2, <1>5, <2>3, <3>1 DEF MeasuredGates
    <3> QED BY <3>2 DEF Gates, MergeStatuses, FatalKinds
  <2> QED BY <2>1, <2>2, <2>3
<1> QED BY <1>3, <1>4, <1>5

\* The first word of three that was found is one of them.
LEMMA FirstOfThree ==
  ASSUME NEW u, NEW v, NEW w, NEW found, NEW else
  PROVE  FirstOf(<<u, v, w>>, found, else) =
           IF u \in found THEN u ELSE IF v \in found THEN v ELSE IF w \in found THEN w ELSE else
<1> DEFINE s == <<u, v, w>>
           isFirst(i) == s[i] \in found /\ \A j \in 1 .. i - 1 : s[j] \notin found
           c == CHOOSE i \in DOMAIN s : isFirst(i)
<1>1. DOMAIN s = {1, 2, 3} /\ s[1] = u /\ s[2] = v /\ s[3] = w
  OBVIOUS
<1>2. FirstOf(<<u, v, w>>, found, else) = IF \E i \in DOMAIN s : s[i] \in found THEN s[c] ELSE else
  BY DEF FirstOf
<1>3. 1 .. 1 - 1 = {} /\ 1 .. 2 - 1 = {1} /\ 1 .. 3 - 1 = {1, 2}
  OBVIOUS
<1>4. /\ isFirst(1) <=> u \in found
      /\ isFirst(2) <=> v \in found /\ u \notin found
      /\ isFirst(3) <=> w \in found /\ u \notin found /\ v \notin found
  BY <1>1, <1>3
<1> HIDE DEF s, isFirst
<1>5. CASE u \in found
  <2>1. c = 1
    BY <1>1, <1>4, <1>5
  <2> QED BY <1>1, <1>2, <1>5, <2>1
<1>6. CASE u \notin found /\ v \in found
  <2>1. c = 2
    BY <1>1, <1>4, <1>6
  <2> QED BY <1>1, <1>2, <1>6, <2>1
<1>7. CASE u \notin found /\ v \notin found /\ w \in found
  <2>1. c = 3
    BY <1>1, <1>4, <1>7
  <2> QED BY <1>1, <1>2, <1>7, <2>1
<1>8. CASE u \notin found /\ v \notin found /\ w \notin found
  BY <1>1, <1>2, <1>8
<1> QED BY <1>5, <1>6, <1>7, <1>8 DEF s

\* The gates of a group whose actions were decided.
LEMMA JudgedGates ==
  ASSUME NEW g \in DOMAIN results, Groups[g] # {},
         IsJudged(Groups[g], profiles, results[g].rows, results[g].verdict),
         NEW gates \in MeasuredGates(g)
  PROVE  /\ gates.round1 = "complete" /\ gates.disjoint = "disjoint"
         /\ gates.merge \in MergeStatuses
         /\ gates.second \in {"complete", "second_round_failed", "timeout", "unknown"}
         /\ gates.merge = "complete" <=> \A a \in Groups[g] : results[g].rows[a].merge = "complete"
         /\ gates.second = "complete" <=> \A a \in Groups[g] : results[g].rows[a].run.status = "success"
<1> DEFINE A == Groups[g]
           given == {results[g].rows[a] : a \in A}
           merges == {r.merge : r \in given}
           runs == {r.run.status : r \in given}
<1>1. \A a \in A : profiles[a].status = "success" /\ IsDecided(results[g].rows[a])
  BY DEF IsJudged
<1>2. given # {Unavailable("timeout")} /\ given # {Unavailable("direct_merge_not_defined")}
  <2>1. \A d \in {"timeout", "direct_merge_not_defined"} : ~ IsDecided(Unavailable(d))
    BY DEF IsDecided, Unavailable, Row, NotRun, Stage
  <2> QED BY <1>1, <2>1
<1>3. gates = Gates("complete", "disjoint", AllMergeStatus(merges), AllSecondStatus(runs))
  BY <1>1, <1>2 DEF MeasuredGates
<1>4. /\ merges = {"complete"} <=> \A a \in A : results[g].rows[a].merge = "complete"
      /\ runs = {"success"} <=> \A a \in A : results[g].rows[a].run.status = "success"
  OBVIOUS
<1> HIDE DEF A, given, merges, runs
<1>5. AllMergeStatus(merges) \in MergeStatuses /\ (AllMergeStatus(merges) = "complete" <=> merges = {"complete"})
  <2>1. FirstOf(<<"timeout", "merge_invalid", "direct_merge_not_defined">>, merges, "unknown")
          = IF "timeout" \in merges THEN "timeout" ELSE IF "merge_invalid" \in merges THEN "merge_invalid"
            ELSE IF "direct_merge_not_defined" \in merges THEN "direct_merge_not_defined" ELSE "unknown"
    BY FirstOfThree
  <2> QED BY <2>1 DEF AllMergeStatus, MergeStatuses, FatalKinds
<1>6. /\ AllSecondStatus(runs) \in {"complete", "second_round_failed", "timeout", "unknown"}
      /\ AllSecondStatus(runs) = "complete" <=> runs = {"success"}
  BY DEF AllSecondStatus
<1> QED BY <1>3, <1>4, <1>5, <1>6 DEF Gates, A

\* The parts of a group's tables, as the two writers make them.
IsMeasured(t, g) ==
  /\ t.limited = FALSE /\ t.gates \in MeasuredGates(g) /\ t.verdict = results[g].verdict
  /\ t.counts = Counts(Groups[g], MadeProfiles, t.directions, NamedFailures(Groups[g], MadeProfiles))
  /\ DOMAIN t.directions = Groups[g]
  /\ \A a \in Groups[g] : t.directions[a] = MeasuredDirection(results[g].rows[a], MadeProfiles[a])
  /\ \A p \in PairsOfGroup(g) : t.pairs[p] = MeasuredValidation(g, p, payload.witnesses)
  /\ t.physical = SumFunction([a \in Groups[g] |-> t.directions[a].physical])
IsMissing(t, g) ==
  /\ t.limited = TRUE /\ t.gates = MissingGates(Groups[g], MadeProfiles)
  /\ t.verdict = "group_precondition_unavailable"
  /\ t.counts = Counts(Groups[g], MadeProfiles, t.directions, OtherFailures(Groups[g], MadeProfiles))
  /\ DOMAIN t.directions = Groups[g]
  /\ \A a \in Groups[g] : t.directions[a] = MissingDirection(t.gates, MadeProfiles[a])
  /\ \A p \in PairsOfGroup(g) :
       t.pairs[p] = MissingValidation(t.directions[p[1]].status, MadePairs[p].dynamic)
  /\ t.physical = 0

\* The tables of a group, by whether its rows were published.
LEMMA GroupsAreMade ==
  ASSUME PayloadIsMade, payload # NoPayload, NEW g \in DOMAIN Groups
  PROVE  IF g \in DOMAIN results THEN IsMeasured(payload.groups[g], g) ELSE IsMissing(payload.groups[g], g)
<1>1. CASE g \in DOMAIN results
  <2>1. PICK gates \in MeasuredGates(g) :
          payload.groups[g] = MeasuredGroup(g, gates, MadeProfiles, payload.witnesses)
    BY <1>1 DEF PayloadIsMade
  <2>2. PICK ds : ds = [a \in Groups[g] |-> MeasuredDirection(results[g].rows[a], MadeProfiles[a])]
    OBVIOUS
  <2>3. PICK t : t = payload.groups[g]
    OBVIOUS
  <2>4. t = [limited |-> FALSE, gates |-> gates, verdict |-> results[g].verdict,
             counts |-> Counts(Groups[g], MadeProfiles, ds, NamedFailures(Groups[g], MadeProfiles)),
             directions |-> ds,
             pairs |-> [p \in PairsOfGroup(g) |-> MeasuredValidation(g, p, payload.witnesses)],
             physical |-> SumFunction([a \in Groups[g] |-> ds[a].physical])]
    BY <2>1, <2>2, <2>3 DEF MeasuredGroup
  <2>5. IsMeasured(t, g)
    BY <2>2, <2>4 DEF IsMeasured
  <2> QED BY <1>1, <2>3, <2>5
<1>2. CASE g \notin DOMAIN results
  <2>1. payload.groups[g] = MissingGroup(g, MadeProfiles, MadePairs)
    BY <1>2 DEF PayloadIsMade
  <2>2. PICK gates, ds : /\ gates = MissingGates(Groups[g], MadeProfiles)
                         /\ ds = [a \in Groups[g] |-> MissingDirection(gates, MadeProfiles[a])]
    OBVIOUS
  <2>3. PICK t : t = payload.groups[g]
    OBVIOUS
  <2>4. t = [limited |-> TRUE, gates |-> gates, verdict |-> "group_precondition_unavailable",
             counts |-> Counts(Groups[g], MadeProfiles, ds, OtherFailures(Groups[g], MadeProfiles)),
             directions |-> ds,
             pairs |-> [p \in PairsOfGroup(g) |-> MissingValidation(ds[p[1]].status, MadePairs[p].dynamic)],
             physical |-> 0]
    BY <2>1, <2>2, <2>3 DEF MissingGroup
  <2>5. IsMissing(t, g)
    BY <2>2, <2>4 DEF IsMissing
  <2> QED BY <1>2, <2>3, <2>5
<1> QED BY <1>1, <1>2

\* What the recovery makes of a group.
LEMMA MissingRows ==
  ASSUME NEW A, NEW fs, NEW gates, gates = MissingGates(A, fs)
  PROVE  /\ gates.round1 \in {"complete", "timeout", "round1_precondition_failed"}
         /\ gates.disjoint = "unknown" /\ gates.merge \in {"timeout", "unknown"}
         /\ gates.second \in {"timeout", "unknown"}
         /\ \A first : LET r == MissingDirection(gates, first) IN
              /\ r.status = IF gates.round1 = "round1_precondition_failed"
                              THEN "round1_precondition_failed" ELSE "timeout"
              /\ r.second \in {"timeout", "not_run"} /\ r.first = first.status
<1>1. \/ gates = Gates("complete", "unknown", "timeout", "timeout")
      \/ gates = Gates("timeout", "unknown", "unknown", "unknown")
      \/ gates = Gates("round1_precondition_failed", "unknown", "unknown", "unknown")
  BY DEF MissingGates
<1>2. /\ gates.round1 \in {"complete", "timeout", "round1_precondition_failed"}
      /\ gates.disjoint = "unknown" /\ gates.merge \in {"timeout", "unknown"}
      /\ gates.second \in {"timeout", "unknown"}
  BY <1>1 DEF Gates
<1> QED BY <1>2 DEF MissingDirection, Direction

\* The groups of a study are actions and not empty.
LEMMA GroupsAreSets ==
  ASSUME NEW g \in DOMAIN Groups
  PROVE  Groups[g] \subseteq Actions /\ Groups[g] # {} /\ IsFiniteSet(Groups[g])
<1>1. Groups[g] \subseteq Actions /\ Groups[g] # {}
  BY GroupsAssumption
<1> QED BY <1>1, FS_Subset, StudyAssumption

\* The elements of a sequence.
LEMMA ElementsOf ==
  ASSUME NEW R, NEW s \in Seq(R), NEW i \in DOMAIN s
  PROVE  s[i] \in R
OBVIOUS

\* The rows of a published group.
LEMMA ResultsAreTyped ==
  ASSUME GroupInvariant, NEW g \in DOMAIN results, NEW a \in Actions
  PROVE  results[g].rows[a] \in Rows /\ g \in DOMAIN Groups
<1>1. PICK R : /\ R = [rows : [Actions -> Rows],
                       verdict : {"none", "authorized", "rejected", "unknown",
                                  "group_precondition_unavailable"}]
               /\ results \in Seq(R)
  BY DEF GroupInvariant, StudyTyped
<1>2. Len(results) \in Nat /\ DOMAIN results = 1 .. Len(results)
  BY <1>1
<1>3. results[g] \in R
  BY <1>1, ElementsOf
<1>4. results[g].rows \in [Actions -> Rows]
  BY <1>1, <1>3
<1>5. Len(Groups) \in Nat /\ DOMAIN Groups = 1 .. Len(Groups)
  BY GroupsAssumption
<1>6. g \in DOMAIN Groups
  <2>1. PICK m, n : m = Len(results) /\ n = Len(Groups)
    OBVIOUS
  <2>2. m <= n
    BY <2>1 DEF GroupInvariant, StudyTyped
  <2> QED BY <1>2, <1>5, <2>1, <2>2
<1> QED BY <1>4, <1>6

\* However a group's tables were made, it was stopped or its actions were decided.
LEMMA GroupsAreSound ==
  ASSUME GroupInvariant, RowsAreShaped, PayloadIsMade, payload # NoPayload, NEW g \in DOMAIN Groups
  PROVE  LET t == payload.groups[g]
             A == Groups[g]
         IN (IsStopped(t, A) \/ IsDecidedGroup(t, A)) /\ WordsOfGroup(t, A)
<1> DEFINE A == Groups[g]
<1>1. A \subseteq Actions /\ A # {}
  BY GroupsAreSets
<1>2. CASE g \notin DOMAIN results
  <2>1. PICK t : t = payload.groups[g] /\ IsMissing(t, g)
    BY <1>2, GroupsAreMade
  <2>2. PICK gates : gates = MissingGates(A, MadeProfiles)
    OBVIOUS
  <2>3. /\ t.gates = gates /\ t.verdict = "group_precondition_unavailable"
        /\ \A a \in A : t.directions[a] = MissingDirection(gates, MadeProfiles[a])
    BY <2>1, <2>2 DEF IsMissing
  <2>4. /\ gates.disjoint = "unknown" /\ gates.merge \in {"timeout", "unknown"}
        /\ gates.second \in {"timeout", "unknown"}
        /\ \A a \in A : t.directions[a].status \in {"timeout", "round1_precondition_failed"}
    BY <2>2, <2>3, MissingRows
  <2>5. IsStopped(t, A) /\ WordsOfGroup(t, A)
    BY <2>3, <2>4 DEF IsStopped, WordsOfGroup, Directions, MergeStatuses, FatalKinds
  <2> QED BY <2>1, <2>5
<1>3. CASE g \in DOMAIN results
  <2>1. PICK t : t = payload.groups[g] /\ IsMeasured(t, g)
    BY <1>3, GroupsAreMade
  <2>2. PICK gates \in MeasuredGates(g) :
          /\ t.gates = gates /\ t.verdict = results[g].verdict
          /\ \A a \in A : t.directions[a] = MeasuredDirection(results[g].rows[a], MadeProfiles[a])
    BY <2>1 DEF IsMeasured
  <2>3. \A a \in A : /\ t.directions[a].status = results[g].rows[a].direction
                     /\ t.directions[a].merge = results[g].rows[a].merge
                     /\ t.directions[a].second = results[g].rows[a].run.status
    <3> SUFFICES ASSUME NEW a \in A
                 PROVE  /\ t.directions[a].status = results[g].rows[a].direction
                        /\ t.directions[a].merge = results[g].rows[a].merge
                        /\ t.directions[a].second = results[g].rows[a].run.status
      OBVIOUS
    <3>1. PICK d : d = t.directions[a] /\ d = MeasuredDirection(results[g].rows[a], MadeProfiles[a])
      BY <2>2
    <3> QED BY <3>1 DEF MeasuredDirection, Direction
  <2>4. IsReported(A, profiles, results[g].rows, results[g].verdict)
    BY <1>3 DEF RowsAreShaped, ResultsAreShaped
  <2>5. CASE IsGivenUp(A, profiles, results[g].rows, results[g].verdict)
    <3>1. /\ gates.disjoint # "disjoint" /\ gates.merge \in MergeStatuses \ {"complete"}
          /\ gates.second = "unknown"
      BY <1>1, <1>3, <2>5, GivenUpGates
    <3>2. \A a \in A : t.directions[a].status
                         \in {"timeout", "round1_precondition_failed", "direct_merge_not_defined"}
      BY <2>3, <2>5 DEF IsGivenUp, Reasons, Unavailable, Row
    <3>3. t.verdict = "group_precondition_unavailable"
      BY <2>2, <2>5 DEF IsGivenUp
    <3>4. IsStopped(t, A) /\ WordsOfGroup(t, A)
      BY <2>2, <3>1, <3>2, <3>3 DEF IsStopped, WordsOfGroup, Directions
    <3> QED BY <2>1, <3>4
  <2>6. CASE IsJudged(A, profiles, results[g].rows, results[g].verdict)
    <3>1. /\ gates.round1 = "complete" /\ gates.disjoint = "disjoint"
          /\ gates.merge \in MergeStatuses
          /\ gates.second \in {"complete", "second_round_failed", "timeout", "unknown"}
          /\ gates.merge = "complete" <=> \A a \in A : t.directions[a].merge = "complete"
          /\ gates.second = "complete" <=> \A a \in A : t.directions[a].second = "success"
      BY <1>1, <1>3, <2>3, <2>6, JudgedGates
    <3>2. \A a \in A : IsDecided(results[g].rows[a])
      BY <2>6 DEF IsJudged
    <3>3. \A a \in A : IsDecision(t.directions[a])
      <4> SUFFICES ASSUME NEW a \in A PROVE IsDecision(t.directions[a])
        OBVIOUS
      <4>1. IsDecided(results[g].rows[a]) /\ NotRun.status = "not_run"
        BY <3>2 DEF NotRun, Stage
      <4> QED BY <2>3, <4>1 DEF IsDecided, IsDecision
    <3>4. \A a \in A : t.directions[a].status \in Directions
      <4> SUFFICES ASSUME NEW a \in A PROVE t.directions[a].status \in Directions
        OBVIOUS
      <4> QED BY <2>3, <3>2 DEF IsDecided, Directions, MergeStatuses, FatalKinds
    <3>5. t.verdict = VerdictOf(A, results[g].rows)
      BY <2>2, <2>6 DEF IsJudged
    <3>6. IsDecidedGroup(t, A)
      BY <2>2, <2>3, <3>1, <3>3, <3>5 DEF IsDecidedGroup, VerdictOf, Authorized
    <3> QED BY <2>1, <2>2, <3>1, <3>4, <3>6 DEF WordsOfGroup
  <2> QED BY <2>4, <2>5, <2>6 DEF IsReported
<1> QED BY <1>2, <1>3

Compared == {"authorized_all_others", "rejected_effect_changed"}

\* What the tables say of one group.
TablesOfGroup(t, A) ==
  /\ \A i \in 1 .. 4 : Funnel(t)[i + 1] => Funnel(t)[i]
  /\ t.verdict \in {"authorized", "rejected"} <=> GroupFailure(t) = ""
  /\ t.verdict \in {"authorized", "rejected"} => Limitations(t) = {}
  /\ \/ t.verdict \in {"authorized", "rejected"} \/ Limitations(t) # {}
     \/ \E a \in A : t.directions[a].status \in FatalKinds
  /\ t.verdict \in {"authorized", "rejected"} <=> \A a \in A : t.directions[a].status \in Compared
  /\ t.verdict = ExpectedVerdict(t, A)

\* Each gate of the funnel is behind the one before it.
LEMMA FunnelOf ==
  ASSUME NEW t, t.gates.second = "complete" => t.gates.merge = "complete",
         t.gates.disjoint = "disjoint" => t.gates.round1 = "complete",
         t.gates.merge = "complete" => t.gates.disjoint = "disjoint",
         t.verdict = "authorized" => t.gates.second = "complete"
  PROVE  \A i \in 1 .. 4 : Funnel(t)[i + 1] => Funnel(t)[i]
<1> SUFFICES ASSUME NEW i \in 1 .. 4 PROVE Funnel(t)[i + 1] => Funnel(t)[i]
  OBVIOUS
<1>1. /\ Funnel(t)[1] <=> t.gates.round1 = "complete"
      /\ Funnel(t)[2] <=> t.gates.disjoint = "disjoint"
      /\ Funnel(t)[3] <=> t.gates.merge = "complete"
      /\ Funnel(t)[4] <=> t.gates.second = "complete"
      /\ Funnel(t)[5] <=> t.verdict = "authorized"
  BY DEF Funnel
<1>2. i = 1 \/ i = 2 \/ i = 3 \/ i = 4
  OBVIOUS
<1>3. CASE i = 1
  BY <1>1, <1>3
<1>4. CASE i = 2
  BY <1>1, <1>4
<1>5. CASE i = 3
  BY <1>1, <1>5
<1>6. CASE i = 4
  BY <1>1, <1>6
<1> QED BY <1>2, <1>3, <1>4, <1>5, <1>6

\* The tables of a group that was stopped.
LEMMA StoppedTables ==
  ASSUME NEW t, NEW A, A # {}, IsStopped(t, A)
  PROVE  TablesOfGroup(t, A)
<1>1. \A i \in 1 .. 4 : Funnel(t)[i + 1] => Funnel(t)[i]
  BY FunnelOf DEF IsStopped
<1>2. GroupFailure(t) # ""
  BY DEF IsStopped, GroupFailure
<1>3. "second_round_incomplete" \in Limitations(t)
  BY DEF IsStopped, Limitations
<1>4. t.verdict = ExpectedVerdict(t, A)
  BY DEF IsStopped, ExpectedVerdict
<1>5. \E a \in A : t.directions[a].status \notin Compared
  BY DEF IsStopped, Compared
<1>6. t.verdict \notin {"authorized", "rejected"}
  BY DEF IsStopped
<1> QED BY <1>1, <1>2, <1>3, <1>4, <1>5, <1>6 DEF TablesOfGroup

\* The tables of a group whose actions were decided.
LEMMA DecidedTables ==
  ASSUME NEW t, NEW A, A # {}, DOMAIN t.directions = A, IsDecidedGroup(t, A)
  PROVE  TablesOfGroup(t, A)
<1> DEFINE merges == \A a \in A : t.directions[a].merge = "complete"
           seconds == \A a \in A : t.directions[a].second = "success"
           all == \A a \in A : t.directions[a].status = "authorized_all_others"
           compared == \A a \in A : t.directions[a].status \in Compared
<1>1. /\ all => compared
      /\ compared => merges /\ seconds
      /\ seconds => merges
      /\ seconds /\ ~ compared => \E a \in A : t.directions[a].status \in FatalKinds
  <2>1. ASSUME NEW a \in A
        PROVE  /\ t.directions[a].status \in Compared =>
                    t.directions[a].merge = "complete" /\ t.directions[a].second = "success"
               /\ t.directions[a].second = "success" =>
                    /\ t.directions[a].merge = "complete"
                    /\ t.directions[a].status \in Compared \cup FatalKinds
    <3>1. PICK r : r = t.directions[a] /\ IsDecision(r)
      BY DEF IsDecidedGroup
    <3> QED BY <3>1 DEF IsDecision, Compared, FatalKinds, MergeStatuses, VerifiedRun
  <2> QED BY <2>1 DEF Compared
<1>2. /\ t.gates.round1 = "complete" /\ t.gates.disjoint = "disjoint"
      /\ t.gates.merge = "complete" <=> merges
      /\ t.gates.second = "complete" <=> seconds
      /\ t.verdict = IF all THEN "authorized"
                     ELSE IF ~ (merges /\ seconds) THEN "group_precondition_unavailable"
                     ELSE IF compared THEN "rejected"
                     ELSE "unknown"
  BY DEF IsDecidedGroup, Compared
<1>3. {t.directions[a].status : a \in A} = {"authorized_all_others"} <=> all
  OBVIOUS
<1>4. {t.directions[a].status : a \in A} \subseteq {"authorized_all_others", "rejected_effect_changed"}
        <=> compared
  BY DEF Compared
<1> HIDE DEF merges, seconds, all
<1>5. \A i \in 1 .. 4 : Funnel(t)[i + 1] => Funnel(t)[i]
  BY <1>1, <1>2, FunnelOf
<1>6. t.verdict \in {"authorized", "rejected"} <=> compared
  BY <1>1, <1>2
<1>7. compared <=> GroupFailure(t) = ""
  BY <1>1, <1>2 DEF GroupFailure
<1>8. compared => Limitations(t) = {}
  <2> SUFFICES ASSUME compared PROVE Limitations(t) = {}
    OBVIOUS
  <2>1. ~ \E a \in DOMAIN t.directions : t.directions[a].status = "direct_merge_not_defined"
    BY DEF Compared
  <2>2. t.gates.round1 = "complete" /\ t.gates.disjoint = "disjoint" /\ t.gates.merge = "complete"
        /\ t.gates.second = "complete"
    BY <1>1, <1>2
  <2> QED BY <2>1, <2>2 DEF Limitations
<1>9. compared \/ Limitations(t) # {} \/ \E a \in A : t.directions[a].status \in FatalKinds
  <2>1. ~ seconds => "second_round_incomplete" \in Limitations(t)
    BY <1>2 DEF Limitations
  <2> QED BY <1>1, <2>1
<1>10. t.verdict = ExpectedVerdict(t, A)
  BY <1>1, <1>2, <1>3, <1>4 DEF ExpectedVerdict
<1> QED BY <1>5, <1>6, <1>7, <1>8, <1>9, <1>10 DEF TablesOfGroup

\* What the sum of the numbers w[a] is, for 0, 1 and 2.
SumOf(w, s) == Cardinality({x \in s : w[x] >= 1}) + Cardinality({x \in s : w[x] = 2})

\* One number is taken out of the sum.
LEMMA SumStep ==
  ASSUME NEW S, IsFiniteSet(S), NEW w \in [S -> 0 .. 2], NEW s \in SUBSET S, NEW x \in s
  PROVE  SumOf(w, s) = w[x] + SumOf(w, s \ {x}) /\ SumOf(w, s) \in Nat
<1> DEFINE one(t) == {y \in t : w[y] >= 1}
           two(t) == {y \in t : w[y] = 2}
<1>1. /\ one(s) \in SUBSET S /\ two(s) \in SUBSET S
      /\ one(s \ {x}) = one(s) \ {x} /\ two(s \ {x}) = two(s) \ {x}
  OBVIOUS
<1>2. IsFiniteSet(one(s)) /\ IsFiniteSet(two(s))
  BY <1>1, FS_Subset
<1>3. Cardinality(one(s)) \in Nat /\ Cardinality(two(s)) \in Nat
  BY <1>2, FS_CardinalityType
<1>4. /\ Cardinality(one(s) \ {x}) = IF x \in one(s) THEN Cardinality(one(s)) - 1 ELSE Cardinality(one(s))
      /\ Cardinality(two(s) \ {x}) = IF x \in two(s) THEN Cardinality(two(s)) - 1 ELSE Cardinality(two(s))
  BY <1>2, FS_RemoveElement
<1>5. w[x] \in 0 .. 2 /\ (x \in one(s) <=> w[x] >= 1) /\ (x \in two(s) <=> w[x] = 2)
  OBVIOUS
<1>6. SumOf(w, s) = Cardinality(one(s)) + Cardinality(two(s))
      /\ SumOf(w, s \ {x}) = Cardinality(one(s) \ {x}) + Cardinality(two(s) \ {x})
  BY <1>1 DEF SumOf
<1> HIDE DEF one, two
<1> QED BY <1>3, <1>4, <1>5, <1>6

\* The fold of the community module is that sum: otherwise a smallest set of
\* numbers is summed wrongly.
LEMMA SumIsSum ==
  ASSUME NEW S, IsFiniteSet(S), NEW w \in [S -> 0 .. 2]
  PROVE  SumFunction(w) = SumOf(w, S)
<1> DEFINE next(f, s) == IF s = {} THEN 0 ELSE w[CHOOSE x \in s : TRUE] + f[s \ {CHOOSE x \in s : TRUE}]
           iter == CHOOSE f : f = [s \in SUBSET S |-> next(f, s)]
           sum == [s \in SUBSET S |-> SumOf(w, s)]
<1>1. SumFunction(w) = iter[S]
  BY DEF SumFunction, SumFunctionOnSet, FoldFunctionOnSet, MapThenFoldSet
<1>2. \A s \in SUBSET S : sum[s] = next(sum, s)
  <2> SUFFICES ASSUME NEW s \in SUBSET S PROVE sum[s] = next(sum, s)
    OBVIOUS
  <2>1. CASE s = {}
    <3>1. SumOf(w, s) = 0
      <4>1. {x \in s : w[x] >= 1} = {} /\ {x \in s : w[x] = 2} = {}
        BY <2>1
      <4> QED BY <4>1, FS_EmptySet DEF SumOf
    <3> QED BY <2>1, <3>1
  <2>2. CASE s # {}
    <3>1. PICK x \in s : x = CHOOSE y \in s : TRUE
      BY <2>2
    <3>2. SumOf(w, s) = w[x] + SumOf(w, s \ {x})
      BY SumStep
    <3> QED BY <2>2, <3>1, <3>2
  <2> QED BY <2>1, <2>2
<1>3. sum = [s \in SUBSET S |-> next(sum, s)]
  BY <1>2
<1> HIDE DEF next
<1>4. iter = [s \in SUBSET S |-> next(iter, s)]
  BY <1>3
<1>5. \A s \in SUBSET S : iter[s] = next(iter, s)
  BY <1>4
<1> HIDE DEF iter
<1>6. ASSUME NEW s \in SUBSET S, s # {},
             \A t \in SUBSET S : Cardinality(t) < Cardinality(s) => iter[t] = SumOf(w, t)
      PROVE  iter[s] = SumOf(w, s)
  <2>1. PICK x \in s : x = CHOOSE y \in s : TRUE
    BY <1>6
  <2>2. IsFiniteSet(s) /\ Cardinality(s) \in Nat
    BY FS_Subset, FS_CardinalityType
  <2>3. Cardinality(s \ {x}) < Cardinality(s)
    <3>1. Cardinality(s \ {x}) = IF x \in s THEN Cardinality(s) - 1 ELSE Cardinality(s)
      BY <2>2, FS_RemoveElement
    <3> QED BY <2>2, <3>1
  <2>4. iter[s \ {x}] = SumOf(w, s \ {x})
    BY <1>6, <2>3
  <2>5. iter[s] = w[x] + iter[s \ {x}]
    BY <1>5, <1>6, <2>1 DEF next
  <2> QED BY <2>4, <2>5, SumStep
<1>7. ASSUME NEW s \in SUBSET S, s = {}
      PROVE  iter[s] = SumOf(w, s)
  BY <1>2, <1>5, <1>7 DEF next
<1>8. \A s \in SUBSET S : iter[s] = SumOf(w, s)
  <2> DEFINE Wrong == {s \in SUBSET S : iter[s] # SumOf(w, s)}
             Sizes == {Cardinality(s) : s \in Wrong}
  <2> SUFFICES ASSUME Wrong # {} PROVE FALSE
    OBVIOUS
  <2>1. Sizes \in SUBSET Nat /\ Sizes # {}
    BY FS_Subset, FS_CardinalityType
  <2>2. PICK n \in Sizes : \A m \in Sizes : n <= m
    BY <2>1, LeastExists
  <2>3. PICK s \in Wrong : n = Cardinality(s)
    OBVIOUS
  <2>4. \A t \in SUBSET S : Cardinality(t) < Cardinality(s) => iter[t] = SumOf(w, t)
    <3> SUFFICES ASSUME NEW t \in SUBSET S, Cardinality(t) < Cardinality(s), t \in Wrong PROVE FALSE
      OBVIOUS
    <3>1. Cardinality(t) \in Nat /\ n <= Cardinality(t)
      BY <2>1, <2>2
    <3> QED BY <2>1, <2>3, <3>1
  <2> QED BY <1>6, <1>7, <2>3, <2>4
<1> QED BY <1>1, <1>8

\* As many as there are is all of them.
LEMMA AllOfThem ==
  ASSUME NEW S, IsFiniteSet(S), NEW T \in SUBSET S
  PROVE  Cardinality(T) = Cardinality(S) <=> T = S
BY FS_Subset

\* The sizes of three parts add up.
LEMMA ThreeParts ==
  ASSUME NEW S, IsFiniteSet(S), NEW T, NEW U, NEW V, S = T \cup U \cup V,
         T \cap U = {}, T \cap V = {}, U \cap V = {}
  PROVE  Cardinality(T) + Cardinality(U) + Cardinality(V) = Cardinality(S)
<1>1. IsFiniteSet(T) /\ IsFiniteSet(U) /\ IsFiniteSet(V)
  BY FS_Subset
<1>2. Cardinality(T) \in Nat /\ Cardinality(U) \in Nat /\ Cardinality(V) \in Nat
  BY <1>1, FS_CardinalityType
<1>3. Cardinality(T \cap U) = 0 /\ Cardinality((T \cup U) \cap V) = 0
  <2>1. (T \cup U) \cap V = {}
    OBVIOUS
  <2> QED BY <2>1, FS_EmptySet, Zenon
<1>4. Cardinality(T \cup U) = Cardinality(T) + Cardinality(U) - Cardinality(T \cap U)
      /\ IsFiniteSet(T \cup U)
  BY <1>1, FS_Union
<1>5. Cardinality((T \cup U) \cup V) =
        Cardinality(T \cup U) + Cardinality(V) - Cardinality((T \cup U) \cap V)
  BY <1>1, <1>4, FS_Union
<1>6. (T \cup U) \cup V = S
  OBVIOUS
<1>7. Cardinality(T \cup U) = Cardinality(T) + Cardinality(U)
  BY <1>2, <1>3, <1>4
<1>8. Cardinality(S) = Cardinality(T \cup U) + Cardinality(V)
  <2>1. Cardinality((T \cup U) \cup V) = Cardinality(T \cup U) + Cardinality(V)
    BY <1>2, <1>3, <1>5, <1>7
  <2> QED BY <1>6, <2>1
<1> QED BY <1>2, <1>7, <1>8

\* A pair is counted in one column.
Validations == {"agree", "false_authorization", "unavailable", "ground_truth_failed",
                "ground_truth_timeout", "ground_truth_unknown"}

\* A group has finitely many pairs.
LEMMA PairsAreFinite ==
  ASSUME NEW g
  PROVE  IsFiniteSet(PairsOfGroup(g)) /\ PairsOfGroup(g) \subseteq Pairs /\ IsFiniteSet(Pairs)
<1>1. IsFiniteSet(Actions \X Actions)
  BY StudyAssumption, FS_Product
<1>2. IsFiniteSet(Pairs)
  BY <1>1, FS_Subset DEF Pairs
<1>3. PairsOfGroup(g) \in SUBSET Pairs
  BY DEF PairsOfGroup
<1> QED BY <1>2, <1>3, FS_Subset

\* The three columns of a group count each of its pairs once.
LEMMA ValidationsAdd ==
  ASSUME NEW x, NEW g, \A p \in PairsOfGroup(g) : x.groups[g].pairs[p].validation \in Validations
  PROVE  Metrics(x, g).agreement + Metrics(x, g).false + Metrics(x, g).unavailable
           = Cardinality(PairsOfGroup(g))
<1> DEFINE t == x.groups[g]
           of(s) == {p \in PairsOfGroup(g) : t.pairs[p].validation \in s}
           agree == of({"agree"})
           false == of({"false_authorization"})
           rest == of({"unavailable", "ground_truth_failed", "ground_truth_timeout",
                       "ground_truth_unknown", "unknown"})
<1>1. /\ Metrics(x, g).agreement = Cardinality(agree) /\ Metrics(x, g).false = Cardinality(false)
      /\ Metrics(x, g).unavailable = Cardinality(rest)
  BY DEF Metrics, Quantify
<1>2. /\ PairsOfGroup(g) = agree \cup false \cup rest
      /\ agree \cap false = {} /\ agree \cap rest = {} /\ false \cap rest = {}
  BY DEF Validations
<1>3. IsFiniteSet(PairsOfGroup(g))
  BY PairsAreFinite
<1> HIDE DEF agree, false, rest
<1>4. Cardinality(agree) + Cardinality(false) + Cardinality(rest) = Cardinality(PairsOfGroup(g))
  BY <1>2, <1>3, ThreeParts
<1> QED BY <1>1, <1>4

\* All actions of a group are available when each of them was compared.
LEMMA AvailableAll ==
  ASSUME NEW x, NEW g \in DOMAIN Groups
  PROVE  Metrics(x, g).available = Cardinality(Groups[g])
           <=> \A a \in Groups[g] : x.groups[g].directions[a].status \in Compared
<1> DEFINE available == {a \in Groups[g] : x.groups[g].directions[a].status \in Compared}
<1>1. Metrics(x, g).available = Cardinality(available)
  BY DEF Metrics, Quantify, Compared
<1>2. Cardinality(available) = Cardinality(Groups[g]) <=> available = Groups[g]
  BY AllOfThem, GroupsAreSets
<1> QED BY <1>1, <1>2

\* A group's entry in the ledger.
LEMMA GroupEntry ==
  ASSUME NEW x, NEW g \in DOMAIN Groups
  PROVE  GroupFailure(x.groups[g]) = "" <=> \A e \in Ledger(x) : <<e[1], e[2]>> # <<"group", g>>
<1>1. ASSUME NEW e \in Ledger(x), <<e[1], e[2]>> = <<"group", g>>
      PROVE  GroupFailure(x.groups[g]) # ""
  <2>1. e[1] = "group" /\ e[2] = g
    BY <1>1
  <2>2. CASE \E h \in DOMAIN Groups : GroupFailure(x.groups[h]) # ""
                                     /\ e = <<"group", h, GroupFailure(x.groups[h])>>
    <3>1. PICK h \in DOMAIN Groups : GroupFailure(x.groups[h]) # ""
                                     /\ e = <<"group", h, GroupFailure(x.groups[h])>>
      BY <2>2
    <3>2. e[2] = h
      BY <3>1
    <3> QED BY <2>1, <3>1, <3>2
  <2>3. CASE \E p \in Pairs : e = <<"pair", p, PairFailure(x.pairs[p])>>
    <3>1. PICK p \in Pairs : e = <<"pair", p, PairFailure(x.pairs[p])>>
      BY <2>3
    <3>2. e[1] = "pair"
      BY <3>1
    <3> QED BY <2>1, <3>2
  <2> QED BY <2>2, <2>3 DEF Ledger
<1>2. ASSUME GroupFailure(x.groups[g]) # ""
      PROVE  \E e \in Ledger(x) : <<e[1], e[2]>> = <<"group", g>>
  <2>1. <<"group", g, GroupFailure(x.groups[g])>> \in Ledger(x)
    BY <1>2 DEF Ledger
  <2> QED BY <2>1
<1> QED BY <1>1, <1>2

\* What is known when a program is decided.
Decided ==
  /\ GroupInvariant /\ StudyIsOrdered /\ StableReplaysAreReal /\ RowsAreShaped
  /\ PayloadIsMade /\ payload # NoPayload

\* A group without published rows, in a program that is limited.
LEMMA MissingIsLimited ==
  ASSUME Decided, NEW g \in DOMAIN Groups, g \notin DOMAIN results
  PROVE  payload.limited
<1>1. DOMAIN Groups = 1 .. Len(Groups)
  BY GroupsAssumption
<1>2. PICK m, n : m = Len(results) /\ n = Len(Groups) /\ DOMAIN Groups = 1 .. n
  BY <1>1
<1>3. DOMAIN results = 1 .. m
  <2>1. \E S : results \in Seq(S)
    BY DEF Decided, GroupInvariant, StudyTyped
  <2> QED BY <1>2, <2>1
<1>4. m # n
  BY <1>2, <1>3
<1>5. phase # "done"
  BY <1>2, <1>4 DEF Decided, RowsAreShaped
<1> QED BY <1>5 DEF Decided, PayloadIsMade

\* The matrix of a program with published groups.
LEMMA PublishedPhase ==
  ASSUME StudyIsOrdered, NEW g \in DOMAIN results
  PROVE  phase \notin {"profiles", "pairs"}
BY DEF StudyIsOrdered, PhaseIsOrdered

\* The row of a pair, before the matrix is published and after.
LEMMA MatrixRow ==
  ASSUME NEW p \in Pairs
  PROVE  /\ phase \notin {"profiles", "pairs"} => MadePairs[p] = MeasuredPair(p)
         /\ phase \in {"profiles", "pairs"} =>
              MadePairs[p] = MissingPair(MadeProfiles[p[1]].status, MadeProfiles[p[2]].status)
BY DEF MadePairs

\* The row of a pair in a published group, and in one that the recovery wrote.
IsMeasuredPair(row, t, g, p) ==
  /\ row.left = t.directions[p[1]].status /\ row.right = t.directions[p[2]].status
  /\ row.left = results[g].rows[p[1]].direction /\ row.right = results[g].rows[p[2]].direction
  /\ row.dynamic = payload.pairs[p].dynamic /\ row.dynamic = pairs[p].dynamic
  /\ row.relation = PairStatus(row.left, row.right)
  /\ row.validation = Validation(row.left, row.right, row.dynamic)
  /\ row.false = (row.validation = "false_authorization")
  /\ row.validation = "false_authorization" <=> FalseAuthorization(g, p)
  /\ row.replay = IF FalseAuthorization(g, p)
                    THEN WrittenBack({payload.witnesses[c] : c \in CasesOf(g, p)}) ELSE NotRequired
  /\ row.stable => \A f \in Families : row.replay[f] = "stable"
IsMissingPair(row, t, p) ==
  /\ row.left = t.directions[p[1]].status /\ row.right = t.directions[p[2]].status
  /\ row.left \in {"timeout", "round1_precondition_failed"}
  /\ row.right \in {"timeout", "round1_precondition_failed"}
  /\ row.dynamic = payload.pairs[p].dynamic
  /\ row.relation = PairStatus(row.left, row.right)
  /\ row.validation = IF row.dynamic = "timeout" THEN "ground_truth_timeout"
                      ELSE IF row.dynamic = "failed" THEN "ground_truth_failed"
                      ELSE "unavailable"
  /\ row.false = FALSE /\ row.replay = NotRequired
  /\ row.stable => \A f \in Families : row.replay[f] = "stable"

\* The row of a pair of a published group (_two_n_pair_rows).
LEMMA MeasuredPairRow ==
  ASSUME Decided, NEW g \in DOMAIN Groups, g \in DOMAIN results, NEW p \in PairsOfGroup(g)
  PROVE  IsMeasuredPair(payload.groups[g].pairs[p], payload.groups[g], g, p)
<1>1. PICK t : t = payload.groups[g] /\ IsMeasured(t, g)
  BY GroupsAreMade DEF Decided
<1>2. p \in Pairs /\ p[1] \in Groups[g] /\ p[2] \in Groups[g]
  BY DEF PairsOfGroup
<1>3. payload.pairs[p].dynamic = pairs[p].dynamic
  <2>1. payload.pairs[p] = MeasuredPair(p)
    BY <1>2, PublishedPhase, MatrixRow DEF Decided, PayloadIsMade
  <2> QED BY <2>1 DEF MeasuredPair, PairRow
<1>4. PICK left, right, dynamic, replay :
        /\ left = results[g].rows[p[1]].direction /\ right = results[g].rows[p[2]].direction
        /\ dynamic = pairs[p].dynamic
        /\ replay = IF FalseAuthorization(g, p)
                      THEN WrittenBack({payload.witnesses[c] : c \in CasesOf(g, p)})
                      ELSE NotRequired
  OBVIOUS
<1>5. PICK row, v : /\ row = t.pairs[p] /\ v = Validation(left, right, dynamic)
                    /\ row = ValidationRow(left, right, dynamic, v, replay)
  BY <1>1, <1>4 DEF IsMeasured, MeasuredValidation
<1>6. /\ row.left = left /\ row.right = right /\ row.relation = PairStatus(left, right)
      /\ row.dynamic = dynamic /\ row.validation = v /\ row.false = (v = "false_authorization")
      /\ row.stable = (\A f \in Families : replay[f] = "stable") /\ row.replay = replay
  BY <1>5 DEF ValidationRow
<1>7. left = t.directions[p[1]].status /\ right = t.directions[p[2]].status
  <2>1. ASSUME NEW a \in Groups[g]
        PROVE  t.directions[a].status = results[g].rows[a].direction
    <3>1. PICK d : d = t.directions[a] /\ d = MeasuredDirection(results[g].rows[a], MadeProfiles[a])
      BY <1>1 DEF IsMeasured
    <3> QED BY <3>1 DEF MeasuredDirection, Direction
  <2> QED BY <1>2, <1>4, <2>1
<1>8. v = "false_authorization" <=> FalseAuthorization(g, p)
  BY <1>4, <1>5 DEF Validation, FalseAuthorization, Authorized
<1>9. IsMeasuredPair(row, t, g, p)
  BY <1>3, <1>4, <1>5, <1>6, <1>7, <1>8 DEF IsMeasuredPair
<1> QED BY <1>1, <1>5, <1>9

\* The row of a pair of a group that the recovery wrote (missing_two_n).
LEMMA MissingPairRow ==
  ASSUME Decided, NEW g \in DOMAIN Groups, g \notin DOMAIN results, NEW p \in PairsOfGroup(g)
  PROVE  IsMissingPair(payload.groups[g].pairs[p], payload.groups[g], p)
<1>1. PICK t : t = payload.groups[g] /\ IsMissing(t, g)
  BY GroupsAreMade DEF Decided
<1>2. p \in Pairs /\ p[1] \in Groups[g] /\ p[2] \in Groups[g]
  BY DEF PairsOfGroup
<1>3. PICK d, dynamic, row :
        /\ d = t.directions[p[1]].status /\ dynamic = payload.pairs[p].dynamic
        /\ row = t.pairs[p] /\ row = MissingValidation(d, dynamic)
  BY <1>1 DEF IsMissing, Decided, PayloadIsMade
<1>4. /\ \A a \in Groups[g] : t.directions[a].status =
           IF t.gates.round1 = "round1_precondition_failed" THEN "round1_precondition_failed" ELSE "timeout"
  BY <1>1, MissingRows DEF IsMissing
<1>5. d = t.directions[p[2]].status /\ d \in {"timeout", "round1_precondition_failed"}
  BY <1>2, <1>3, <1>4
<1>6. PICK v : /\ v = IF dynamic = "timeout" THEN "ground_truth_timeout"
                      ELSE IF dynamic = "failed" THEN "ground_truth_failed" ELSE "unavailable"
               /\ row = ValidationRow(d, d, dynamic, v, NotRequired)
  BY <1>3 DEF MissingValidation
<1>7. /\ row.left = d /\ row.right = d /\ row.relation = PairStatus(d, d)
      /\ row.dynamic = dynamic /\ row.validation = v /\ row.false = (v = "false_authorization")
      /\ row.stable = (\A f \in Families : NotRequired[f] = "stable") /\ row.replay = NotRequired
  BY <1>6 DEF ValidationRow
<1>8. row.false = FALSE
  BY <1>6, <1>7
<1>9. IsMissingPair(row, t, p)
  BY <1>3, <1>5, <1>6, <1>7, <1>8 DEF IsMissingPair
<1> QED BY <1>1, <1>3, <1>9

\* What a row says of its pair, whoever wrote it.
LEMMA PairRowSays ==
  ASSUME Decided, NEW g \in DOMAIN Groups, NEW p \in PairsOfGroup(g)
  PROVE  /\ payload.groups[g].pairs[p].false \in BOOLEAN
         /\ payload.groups[g].pairs[p].false <=> g \in DOMAIN results /\ FalseAuthorization(g, p)
         /\ payload.groups[g].pairs[p].validation \in Validations
<1>1. CASE g \in DOMAIN results
  <2>1. PICK row, t : /\ row = payload.groups[g].pairs[p] /\ t = payload.groups[g]
                      /\ IsMeasuredPair(row, t, g, p)
    BY <1>1, MeasuredPairRow
  <2>2. row.validation \in Validations
    BY <2>1 DEF IsMeasuredPair, Validation, Validations
  <2> QED BY <1>1, <2>1, <2>2 DEF IsMeasuredPair
<1>2. CASE g \notin DOMAIN results
  <2>1. PICK row, t : /\ row = payload.groups[g].pairs[p] /\ t = payload.groups[g]
                      /\ IsMissingPair(row, t, p)
    BY <1>2, MissingPairRow
  <2> QED BY <1>2, <2>1 DEF IsMissingPair, Validations
<1> QED BY <1>1, <1>2

\* The directions of a group with published rows.
LEMMA DirectionSays ==
  ASSUME Decided, NEW g \in DOMAIN Groups, NEW a \in Groups[g]
  PROVE  g \in DOMAIN results => payload.groups[g].directions[a].status = results[g].rows[a].direction
<1> SUFFICES ASSUME g \in DOMAIN results
             PROVE  payload.groups[g].directions[a].status = results[g].rows[a].direction
  OBVIOUS
<1>1. PICK t : t = payload.groups[g] /\ IsMeasured(t, g)
  BY GroupsAreMade DEF Decided
<1>2. PICK d : d = t.directions[a] /\ d = MeasuredDirection(results[g].rows[a], MadeProfiles[a])
  BY <1>1 DEF IsMeasured
<1> QED BY <1>1, <1>2 DEF MeasuredDirection, Direction

\* A pair is two actions in their order.
LEMMA PairsAreOrdered ==
  ASSUME NEW p \in Pairs
  PROVE  p = <<p[1], p[2]>> /\ p[1] \in Actions /\ p[2] \in Actions
BY DEF Pairs

\* The cases of a group and pair, among all cases.
LEMMA CasesOfPair ==
  ASSUME Decided, NEW g \in DOMAIN results, NEW p \in PairsOfGroup(g), FalseAuthorization(g, p)
  PROVE  CasesOf(g, p) = {c \in Cases : c[1] = g /\ <<c[2], c[3]>> = p}
<1>1. p \in Pairs /\ p = <<p[1], p[2]>>
  BY PairsAreOrdered DEF PairsOfGroup
<1>2. ASSUME NEW c \in CasesOf(g, p)
      PROVE  c \in Cases /\ c[1] = g /\ <<c[2], c[3]>> = p
  <2>1. PICK d \in {p[1], p[2]} : c = <<g, p[1], p[2], d>>
    BY <1>2 DEF CasesOf
  <2>2. c[1] = g /\ c[2] = p[1] /\ c[3] = p[2]
    BY <2>1
  <2>3. <<g, p>> \in FalseAuthorizations
    BY <1>1 DEF FalseAuthorizations
  <2>4. PICK x : x \in FalseAuthorizations /\ x = <<g, p>>
    BY <2>3
  <2>5. x[1] = g /\ x[2] = p
    BY <2>4
  <2>6. c \in CasesOf(x[1], x[2])
    BY <1>2, <2>5
  <2>7. c \in Cases
    BY <2>4, <2>6 DEF Cases
  <2> QED BY <1>1, <2>2, <2>7
<1>3. ASSUME NEW c \in Cases, c[1] = g, <<c[2], c[3]>> = p
      PROVE  c \in CasesOf(g, p)
  <2>1. /\ c[4] \in {c[2], c[3]} /\ Authorized(results[c[1]].rows, c[4])
        /\ c \in Nat \X Nat \X Nat \X Nat
    BY CaseShape DEF Decided
  <2>2. c[2] = p[1] /\ c[3] = p[2]
    BY <1>3
  <2>3. c = <<g, p[1], p[2], c[4]>>
    BY <1>3, <2>1, <2>2
  <2> QED BY <1>3, <2>1, <2>2, <2>3 DEF CasesOf
<1> QED BY <1>2, <1>3

\* The witnesses of a program are the cases that its rows ask for.
LEMMA WitnessesAreCases ==
  ASSUME Decided
  PROVE  DOMAIN payload.witnesses = Cases
<1>1. DOMAIN replays \subseteq Cases
  BY DEF Decided, StableReplaysAreReal
<1> QED BY <1>1 DEF Decided, PayloadIsMade, OpenCases

\* The checkpoint asks for the cases that were replayed, no more and no fewer.
LEMMA CasesAreExpected ==
  ASSUME Decided
  PROVE  ExpectedCases(payload) = Cases
<1>1. ASSUME NEW c \in Cases
      PROVE  c \in ExpectedCases(payload)
  <2>1. /\ c[1] \in DOMAIN results /\ c[1] \in 1 .. Len(Groups) /\ Groups[c[1]] \in SUBSET Actions
        /\ c[2] \in Groups[c[1]] /\ c[3] \in Groups[c[1]] /\ c[4] \in {c[2], c[3]}
        /\ <<c[2], c[3]>> \in Pairs
        /\ Authorized(results[c[1]].rows, c[4])
        /\ pairs[<<c[2], c[3]>>].dynamic \in {"order_sensitive", "failed"}
        /\ c \in Nat \X Nat \X Nat \X Nat
    BY CaseShape DEF Decided
  <2>2. PICK g, p : g = c[1] /\ p = <<c[2], c[3]>> /\ p[1] = c[2] /\ p[2] = c[3]
    <3>1. <<c[2], c[3]>>[1] = c[2] /\ <<c[2], c[3]>>[2] = c[3]
      OBVIOUS
    <3> QED BY <3>1
  <2>3. g \in DOMAIN Groups
    BY <2>1, <2>2, GroupsAssumption
  <2>4. p \in PairsOfGroup(g) /\ FalseAuthorization(g, p)
    BY <2>1, <2>2 DEF PairsOfGroup, FalseAuthorization
  <2>5. payload.groups[g].pairs[p].false
    BY <2>1, <2>2, <2>3, <2>4, PairRowSays
  <2>6. payload.groups[g].directions[c[4]].status = "authorized_all_others"
    BY <2>1, <2>2, <2>3, DirectionSays DEF Authorized
  <2>7. c \in (DOMAIN Groups) \X Actions \X Actions \X Actions
    BY <2>1, <2>2, <2>3
  <2> QED BY <2>1, <2>2, <2>4, <2>5, <2>6, <2>7 DEF ExpectedCases
<1>2. ASSUME NEW c \in ExpectedCases(payload)
      PROVE  c \in Cases
  <2>1. /\ c \in (DOMAIN Groups) \X Actions \X Actions \X Actions
        /\ <<c[2], c[3]>> \in PairsOfGroup(c[1]) /\ c[4] \in {c[2], c[3]}
        /\ payload.groups[c[1]].pairs[<<c[2], c[3]>>].false
        /\ payload.groups[c[1]].directions[c[4]].status = "authorized_all_others"
    BY DEF ExpectedCases
  <2>2. PICK g, p : g = c[1] /\ p = <<c[2], c[3]>> /\ p[1] = c[2] /\ p[2] = c[3]
    <3>1. <<c[2], c[3]>>[1] = c[2] /\ <<c[2], c[3]>>[2] = c[3]
      OBVIOUS
    <3> QED BY <3>1
  <2>3. g \in DOMAIN Groups /\ p \in PairsOfGroup(g) /\ c = <<g, p[1], p[2], c[4]>>
    BY <2>1, <2>2
  <2>4. g \in DOMAIN results /\ FalseAuthorization(g, p)
    BY <2>1, <2>2, <2>3, PairRowSays
  <2>5. c[4] \in {p[1], p[2]} /\ c[4] \in Groups[g]
    BY <2>1, <2>2, <2>3 DEF PairsOfGroup
  <2>6. Authorized(results[g].rows, c[4])
    BY <2>1, <2>2, <2>3, <2>4, <2>5, DirectionSays DEF Authorized
  <2>7. c \in CasesOf(g, p)
    BY <2>3, <2>5, <2>6 DEF CasesOf
  <2> QED BY <2>4, <2>7, <2>3, CasesOfPair
<1> QED BY <1>1, <1>2

\* The replays of a row are those of its cases.
LEMMA RowsAreWrittenBack ==
  ASSUME Decided, NEW g \in DOMAIN Groups, NEW p \in PairsOfGroup(g)
  PROVE  IsWrittenBack(payload, g, p)
<1>1. CASE g \in DOMAIN results
  <2>1. PICK row, t : /\ row = payload.groups[g].pairs[p] /\ t = payload.groups[g]
                      /\ IsMeasuredPair(row, t, g, p)
    BY <1>1, MeasuredPairRow
  <2>2. CASE FalseAuthorization(g, p)
    <3>1. {c \in ExpectedCases(payload) : c[1] = g /\ <<c[2], c[3]>> = p} = CasesOf(g, p)
      BY <1>1, <2>2, CasesAreExpected, CasesOfPair
    <3>2. row.false /\ row.replay = WrittenBack({payload.witnesses[c] : c \in CasesOf(g, p)})
      BY <2>1, <2>2 DEF IsMeasuredPair
    <3> QED BY <2>1, <3>1, <3>2 DEF IsWrittenBack
  <2>3. CASE ~ FalseAuthorization(g, p)
    BY <2>1, <2>3 DEF IsMeasuredPair, IsWrittenBack
  <2> QED BY <2>2, <2>3
<1>2. CASE g \notin DOMAIN results
  <2>1. PICK row, t : /\ row = payload.groups[g].pairs[p] /\ t = payload.groups[g]
                      /\ IsMissingPair(row, t, p)
    BY <1>2, MissingPairRow
  <2> QED BY <2>1 DEF IsMissingPair, IsWrittenBack
<1> QED BY <1>1, <1>2

\* Every column of a row of pairs follows from its directions and the matrix.
LEMMA PairsAreDerived ==
  ASSUME Decided, NEW g \in DOMAIN Groups, NEW p \in PairsOfGroup(g)
  PROVE  PairIsDerived(payload, g, p)
<1>1. CASE g \in DOMAIN results
  <2>1. PICK row, t : /\ row = payload.groups[g].pairs[p] /\ t = payload.groups[g]
                      /\ IsMeasuredPair(row, t, g, p)
    BY <1>1, MeasuredPairRow
  <2> QED BY <2>1 DEF IsMeasuredPair, PairIsDerived
<1>2. CASE g \notin DOMAIN results
  <2>1. PICK row, t : /\ row = payload.groups[g].pairs[p] /\ t = payload.groups[g]
                      /\ IsMissingPair(row, t, p)
    BY <1>2, MissingPairRow
  <2>2. Validation(row.left, row.right, row.dynamic) = "unavailable"
    BY <2>1 DEF IsMissingPair, Validation
  <2>3. payload.limited
    BY <1>2, MissingIsLimited
  <2>4. row.validation = "unavailable" \/ LimitedValidation(payload, row)
    BY <2>1, <2>3 DEF IsMissingPair, LimitedValidation
  <2> QED BY <2>1, <2>2, <2>4 DEF IsMissingPair, PairIsDerived
<1> QED BY <1>1, <1>2

Ended == {"success", "invalid", "error", "timeout"}

\* What a row of the matrix says, whoever wrote it.
RowIsSound(q) ==
  /\ q.a \in Ended /\ q.b \in Ended
  /\ IF q.a = "success" /\ q.b = "success"
       THEN /\ q.ab \in Ended /\ q.ba \in Ended
            /\ q.dynamic \in IF q.ab = "timeout" \/ q.ba = "timeout" THEN {"timeout"}
                             ELSE IF q.ab # "success" \/ q.ba # "success" THEN {"failed"}
                             ELSE {"commute", "order_sensitive", "unknown"}
       ELSE /\ q.ab = "not_run" /\ q.ba = "not_run"
            /\ q.dynamic = IF q.a = "timeout" \/ q.b = "timeout" THEN "timeout" ELSE "failed"

\* A row of the matrix that the recovery wrote.
LEMMA MissingRowIsSound ==
  ASSUME NEW a \in Ended, NEW b \in Ended
  PROVE  RowIsSound(MissingPair(a, b)) /\ MissingPair(a, b).a = a /\ MissingPair(a, b).b = b
<1>1. CASE a = "success" /\ b = "success"
  <2>1. MissingPair(a, b) = PairRow(a, b, "timeout", "timeout", "timeout")
    BY <1>1 DEF MissingPair
  <2> QED BY <1>1, <2>1 DEF PairRow, RowIsSound, Ended
<1>2. CASE a = "timeout" \/ b = "timeout"
  <2>1. MissingPair(a, b) = PairRow(a, b, "not_run", "not_run", "timeout")
    BY <1>2 DEF MissingPair
  <2> QED BY <1>2, <2>1 DEF PairRow, RowIsSound
<1>3. CASE (a # "success" \/ b # "success") /\ a # "timeout" /\ b # "timeout"
  <2>1. MissingPair(a, b) = PairRow(a, b, "not_run", "not_run", "failed")
    BY <1>3 DEF MissingPair
  <2> QED BY <1>3, <2>1 DEF PairRow, RowIsSound
<1> QED BY <1>1, <1>2, <1>3

\* A row of the matrix, whoever wrote it.
LEMMA MatrixIsSound ==
  ASSUME GroupInvariant, StudyIsOrdered, RowsAreShaped, NEW p \in Pairs
  PROVE  /\ RowIsSound(MadePairs[p])
         /\ MadePairs[p].a = MadeProfiles[p[1]].status /\ MadePairs[p].b = MadeProfiles[p[2]].status
<1>1. p[1] \in Actions /\ p[2] \in Actions
  BY PairsAreOrdered
<1>2. MadeProfiles[p[1]].status \in Ended /\ MadeProfiles[p[2]].status \in Ended
  BY <1>1, ProfilesAreKnown DEF Ended
<1>3. CASE phase \in {"profiles", "pairs"}
  <2>1. MadePairs[p] = MissingPair(MadeProfiles[p[1]].status, MadeProfiles[p[2]].status)
    BY <1>3, MatrixRow
  <2> QED BY <1>2, <2>1, MissingRowIsSound
<1>4. CASE phase \notin {"profiles", "pairs"}
  <2>1. PICK a, b, ab, ba, dynamic :
          /\ a = profiles[p[1]].status /\ b = profiles[p[2]].status
          /\ ab = pairs[p].ab /\ ba = pairs[p].ba /\ dynamic = pairs[p].dynamic
    OBVIOUS
  <2>2. /\ a = MadeProfiles[p[1]].status /\ b = MadeProfiles[p[2]].status
    BY <1>1, <1>4, <2>1, ProfilesAreKnown
  <2>3. MadePairs[p] = PairRow(a, b, ab.status, ba.status, dynamic)
    BY <1>4, <2>1, MatrixRow DEF MeasuredPair
  <2>4. dynamic # "open" /\ PairIsOrdered(p) /\ PairIsShaped(pairs[p])
    BY <1>4, <2>1 DEF StudyIsOrdered, PhaseIsOrdered, MatrixIsOrdered, RowsAreShaped, MatrixIsShaped
  <2>5. ~ Waiting(p)
    BY <2>1, <2>4 DEF Waiting, NoPairs, Pair
  <2>6. CASE a = "success" /\ b = "success"
    <3>1. /\ ab # NotRun /\ ba # NotRun
          /\ dynamic \in {"unknown", Classify(ab, ba, ab.output = ba.output)}
      BY <2>1, <2>4, <2>5, <2>6 DEF PairIsOrdered, Profiled
    <3>2. ab \in Stages /\ ba \in Stages
          /\ (dynamic = "unknown" => ab.status = "success" /\ ba.status = "success")
      BY <2>1, <2>4 DEF PairIsShaped
    <3>3. ab.status \in Ended /\ ba.status \in Ended
      BY <3>1, <3>2 DEF Stages, Successes, Stage, NotRun, Ended
    <3>4. dynamic \in IF ab.status = "timeout" \/ ba.status = "timeout" THEN {"timeout"}
                      ELSE IF ab.status # "success" \/ ba.status # "success" THEN {"failed"}
                      ELSE {"commute", "order_sensitive", "unknown"}
      BY <3>1, <3>2 DEF Classify
    <3>5. RowIsSound(PairRow(a, b, ab.status, ba.status, dynamic))
      BY <1>2, <2>2, <2>6, <3>3, <3>4 DEF RowIsSound, PairRow
    <3> QED BY <2>2, <2>3, <3>5 DEF PairRow
  <2>7. CASE ~ (a = "success" /\ b = "success")
    <3>1. /\ ab = NotRun /\ ba = NotRun
          /\ dynamic = Classify(profiles[p[1]], profiles[p[2]], TRUE)
      BY <2>1, <2>4, <2>5, <2>7 DEF PairIsOrdered, Profiled
    <3>2. dynamic = IF a = "timeout" \/ b = "timeout" THEN "timeout" ELSE "failed"
      BY <2>1, <2>7, <3>1 DEF Classify
    <3>3. ab.status = "not_run" /\ ba.status = "not_run"
      BY <3>1 DEF NotRun, Stage
    <3>4. RowIsSound(PairRow(a, b, ab.status, ba.status, dynamic))
      BY <1>2, <2>2, <2>7, <3>2, <3>3 DEF RowIsSound, PairRow
    <3> QED BY <2>2, <2>3, <3>4 DEF PairRow
  <2> QED BY <2>6, <2>7
<1> QED BY <1>3, <1>4

\* The handoff accepts the matrix.
LEMMA HandoffIsAccepted ==
  ASSUME Decided
  PROVE  HandoffAccepts(payload)
<1> SUFFICES ASSUME NEW p \in Pairs
             PROVE  LET q == payload.pairs[p]
                        ordered == {q.ab, q.ba}
                    IN /\ q.a = payload.profiles[p[1]].status /\ q.b = payload.profiles[p[2]].status
                       /\ IF {q.a, q.b} = {"success"}
                            THEN /\ ordered \subseteq {"success", "error", "timeout", "invalid"}
                                 /\ q.dynamic \in IF "timeout" \in ordered THEN {"timeout"}
                                                  ELSE IF ordered # {"success"} THEN {"failed"}
                                                  ELSE {"commute", "order_sensitive", "unknown"}
                            ELSE /\ ordered = {"not_run"}
                                 /\ q.dynamic = IF "timeout" \in {q.a, q.b} THEN "timeout" ELSE "failed"
  BY DEF HandoffAccepts
<1>1. PICK q : q = payload.pairs[p] /\ RowIsSound(q)
               /\ q.a = payload.profiles[p[1]].status /\ q.b = payload.profiles[p[2]].status
  BY MatrixIsSound DEF Decided, PayloadIsMade
<1>2. CASE q.a = "success" /\ q.b = "success"
  BY <1>1, <1>2 DEF RowIsSound, Ended
<1>3. CASE ~ (q.a = "success" /\ q.b = "success")
  BY <1>1, <1>3 DEF RowIsSound
<1> QED BY <1>2, <1>3

\* How the worst of two runs ended.
LEMMA WorstOfTwo ==
  ASSUME NEW u \in Ended \cup {"not_run"}, NEW v \in Ended \cup {"not_run"}, {u, v} \cap Failed # {}
  PROVE  Worst({u, v}) \in Failed /\ (Worst({u, v}) = "timeout" <=> u = "timeout" \/ v = "timeout")
<1> DEFINE found == {u, v}
<1> HIDE DEF found
<1>1. PICK e : Worst(found) = FirstOf(<<"timeout", "invalid", "error">>, found, e)
  BY Zenon DEF Worst
<1>2. Worst(found) = IF "timeout" \in found THEN "timeout" ELSE IF "invalid" \in found THEN "invalid"
                     ELSE IF "error" \in found THEN "error" ELSE e
  BY <1>1, FirstOfThree
<1> USE DEF found
<1> QED BY <1>2 DEF Failed

\* The kind of failure a pair has in the ledger is the one of its row (_pair_failure_kind).
LEMMA KindsAgree ==
  ASSUME Decided
  PROVE  PairKindsAgree(payload)
<1> SUFFICES ASSUME NEW e \in Ledger(payload), e[1] = "pair"
             PROVE  LET dynamic == payload.pairs[e[2]].dynamic IN
                      /\ e[3] # <<"ab_ba", "failed">>
                      /\ dynamic = "timeout" <=> e[3][2] = "timeout"
                      /\ dynamic = "unknown" <=> e[3][1] = "comparator"
  BY DEF PairKindsAgree
<1>1. PICK p \in Pairs : /\ payload.pairs[p].dynamic \in {"failed", "timeout", "unknown"}
                         /\ e = <<"pair", p, PairFailure(payload.pairs[p])>>
  <2>1. CASE \E h \in DOMAIN Groups : e = <<"group", h, GroupFailure(payload.groups[h])>>
    BY <2>1
  <2> QED BY <2>1 DEF Ledger
<1>2. PICK q, f : /\ q = payload.pairs[p] /\ RowIsSound(q) /\ q.dynamic \in {"failed", "timeout", "unknown"}
                  /\ f = PairFailure(q) /\ e[2] = p /\ e[3] = f
  BY <1>1, MatrixIsSound DEF Decided, PayloadIsMade
<1>3. CASE ~ (q.a = "success" /\ q.b = "success")
  <2>1. {q.a, q.b} \cap Failed # {}
    BY <1>2, <1>3 DEF RowIsSound, Ended, Failed
  <2>2. PICK w : w = Worst({q.a, q.b}) /\ w \in Failed /\ (w = "timeout" <=> q.a = "timeout" \/ q.b = "timeout")
    BY <1>2, <2>1, WorstOfTwo DEF RowIsSound
  <2>3. f = <<"first_round", w>>
    BY <1>2, <2>1, <2>2 DEF PairFailure
  <2>4. f[1] = "first_round" /\ f[2] = w
    BY <2>3
  <2>5. q.dynamic = IF q.a = "timeout" \/ q.b = "timeout" THEN "timeout" ELSE "failed"
    BY <1>2, <1>3 DEF RowIsSound
  <2> QED BY <1>2, <2>2, <2>3, <2>4, <2>5
<1>4. CASE q.a = "success" /\ q.b = "success" /\ {q.ab, q.ba} \cap Failed # {}
  <2>1. {q.a, q.b} \cap Failed = {}
    BY <1>4 DEF Failed
  <2>2. PICK w : w = Worst({q.ab, q.ba}) /\ w \in Failed /\ (w = "timeout" <=> q.ab = "timeout" \/ q.ba = "timeout")
    BY <1>2, <1>4, WorstOfTwo DEF RowIsSound
  <2>3. f = <<"ab_ba", w>>
    BY <1>2, <1>4, <2>1, <2>2 DEF PairFailure
  <2>4. f[1] = "ab_ba" /\ f[2] = w
    BY <2>3
  <2>5. q.dynamic = IF q.ab = "timeout" \/ q.ba = "timeout" THEN "timeout" ELSE "failed"
    BY <1>2, <1>4 DEF RowIsSound, Failed
  <2>6. w # "failed"
    BY <2>2 DEF Failed
  <2> QED BY <1>2, <2>2, <2>3, <2>4, <2>5, <2>6
<1>5. CASE q.a = "success" /\ q.b = "success" /\ {q.ab, q.ba} \cap Failed = {}
  <2>1. {q.a, q.b} \cap Failed = {}
    BY <1>5 DEF Failed
  <2>2. q.dynamic = "unknown"
    BY <1>2, <1>5 DEF RowIsSound, Failed, Ended
  <2>3. f = <<"comparator", "uncertainty">>
    BY <1>2, <1>5, <2>1, <2>2 DEF PairFailure
  <2>4. f[1] = "comparator" /\ f[2] = "uncertainty"
    BY <2>3
  <2> QED BY <1>2, <2>2, <2>3, <2>4
<1> QED BY <1>3, <1>4, <1>5

\* Both writers count the same failures.
LEMMA CountsAgree ==
  ASSUME Decided, NEW g \in DOMAIN Groups
  PROVE  payload.groups[g].counts =
           Counts(Groups[g], payload.profiles, payload.groups[g].directions,
                  NamedFailures(Groups[g], payload.profiles))
<1>1. CASE g \in DOMAIN results
  BY <1>1, GroupsAreMade DEF Decided, PayloadIsMade, IsMeasured
<1>2. CASE g \notin DOMAIN results
  <2>1. \A a \in Groups[g] : MadeProfiles[a].status \in {"success", "invalid", "error", "timeout"}
    BY GroupsAreSets, ProfilesAreKnown DEF Decided
  <2>2. {a \in Groups[g] : MadeProfiles[a].status \notin {"success", "timeout"}}
          = {a \in Groups[g] : MadeProfiles[a].status \in {"invalid", "error", "unknown", "not_run"}}
    BY <2>1
  <2>3. OtherFailures(Groups[g], MadeProfiles) = NamedFailures(Groups[g], MadeProfiles)
    BY <2>2 DEF OtherFailures, NamedFailures, Quantify
  <2>4. IsMissing(payload.groups[g], g)
    BY <1>2, GroupsAreMade DEF Decided
  <2> QED BY <2>3, <2>4 DEF Decided, PayloadIsMade, IsMissing
<1> QED BY <1>1, <1>2

\* What the tables say of a group agrees, however it ended.
LEMMA TablesAreSound ==
  ASSUME Decided, NEW g \in DOMAIN Groups
  PROVE  TablesOfGroup(payload.groups[g], Groups[g]) /\ WordsOfGroup(payload.groups[g], Groups[g])
<1>1. PICK t : t = payload.groups[g]
  OBVIOUS
<1>2. DOMAIN t.directions = Groups[g]
  BY <1>1, GroupsAreMade DEF Decided, IsMeasured, IsMissing
<1>3. (IsStopped(t, Groups[g]) \/ IsDecidedGroup(t, Groups[g])) /\ WordsOfGroup(t, Groups[g])
  BY <1>1, GroupsAreSound DEF Decided
<1>4. Groups[g] # {}
  BY GroupsAreSets
<1> QED BY <1>1, <1>2, <1>3, <1>4, StoppedTables, DecidedTables

\* The checkpoint accepts the groups.
LEMMA CheckpointIsAccepted ==
  ASSUME Decided
  PROVE  CheckpointAccepts(payload)
<1>1. DOMAIN payload.witnesses = ExpectedCases(payload)
  BY WitnessesAreCases, CasesAreExpected
<1>2. ASSUME NEW g \in DOMAIN Groups
      PROVE  payload.groups[g].verdict = ExpectedVerdict(payload.groups[g], Groups[g])
  BY TablesAreSound DEF TablesOfGroup
<1> QED BY <1>1, <1>2, CountsAgree, PairsAreDerived, RowsAreWrittenBack DEF CheckpointAccepts

\* The aggregate accepts the words and the stable rows.
LEMMA AggregateIsAccepted ==
  ASSUME Decided
  PROVE  AggregateAccepts(payload)
<1>1. WordsAreKnown(payload)
  <2>1. ASSUME NEW a \in Actions
        PROVE  /\ payload.profiles[a].status \in {"success", "invalid", "error", "timeout"}
               /\ payload.profiles[a].activity \in {"active", "no_op", "unknown"}
    BY ProfilesAreKnown DEF Decided, PayloadIsMade
  <2>2. ASSUME NEW g \in DOMAIN Groups
        PROVE  WordsOfGroup(payload.groups[g], Groups[g])
    BY TablesAreSound
  <2> QED BY <2>1, <2>2 DEF WordsAreKnown, WordsOfGroup
<1>2. ASSUME NEW g \in DOMAIN Groups, NEW p \in PairsOfGroup(g), payload.groups[g].pairs[p].stable
      PROVE  /\ payload.groups[g].pairs[p].false
             /\ \A f \in Families : payload.groups[g].pairs[p].replay[f] = "stable"
  <2>1. PICK row : row = payload.groups[g].pairs[p]
    OBVIOUS
  <2>2. IsMeasuredPair(row, payload.groups[g], g, p) \/ IsMissingPair(row, payload.groups[g], p)
    BY <2>1, MeasuredPairRow, MissingPairRow
  <2>3. /\ row.stable => \A f \in Families : row.replay[f] = "stable"
        /\ ~ row.false => row.replay = NotRequired
    <3>1. CASE IsMeasuredPair(row, payload.groups[g], g, p)
      BY <3>1 DEF IsMeasuredPair
    <3>2. CASE IsMissingPair(row, payload.groups[g], p)
      BY <3>2 DEF IsMissingPair
    <3> QED BY <2>2, <3>1, <3>2
  <2>4. "worker" \in Families /\ NotRequired["worker"] # "stable"
    BY DEF Families, NotRequired
  <2> QED BY <1>2, <2>1, <2>3, <2>4
<1> QED BY <1>1, <1>2 DEF AggregateAccepts

\* The second rounds that are charged.
LEMMA NothingCharged ==
  ASSUME Decided, NEW g \in DOMAIN Groups, g \notin DOMAIN results
  PROVE  SecondRounds(payload, g) = 0 /\ payload.groups[g].limited
<1> DEFINE w == [a \in Groups[g] |-> MadeProfiles[a].physical]
<1>1. w \in [Groups[g] -> 0 .. 2] /\ IsFiniteSet(Groups[g])
  BY GroupsAreSets, ProfilesAreKnown DEF Decided
<1>2. SumFunction(w) \in Nat
  <2>1. SumOf(w, Groups[g]) \in Nat
    <3>1. /\ IsFiniteSet({x \in Groups[g] : w[x] >= 1}) /\ IsFiniteSet({x \in Groups[g] : w[x] = 2})
      BY <1>1, FS_Subset
    <3> QED BY <3>1, FS_CardinalityType DEF SumOf
  <2> HIDE DEF w
  <2> QED BY <1>1, <2>1, SumIsSum
<1>3. payload.groups[g].physical = 0 /\ payload.groups[g].limited
  BY GroupsAreMade DEF Decided, IsMissing
<1>4. payload.profiles = MadeProfiles
  BY DEF Decided, PayloadIsMade
<1> QED BY <1>2, <1>3, <1>4 DEF SecondRounds

\* A published group is charged one second round for each action that ran one.
LEMMA SecondRoundsCharged ==
  ASSUME Decided, NEW g \in DOMAIN Groups, g \in DOMAIN results
  PROVE  /\ SecondRounds(payload, g) =
              Quantify(Groups[g], LAMBDA a : payload.groups[g].directions[a].second # "not_run")
         /\ payload.groups[g].limited = FALSE
<1> DEFINE A == Groups[g]
           ran == {a \in A : payload.groups[g].directions[a].second # "not_run"}
           w == [a \in A |-> MadeProfiles[a].physical]
           v == [a \in A |-> payload.groups[g].directions[a].physical]
<1>1. PICK t : t = payload.groups[g] /\ IsMeasured(t, g)
  BY GroupsAreMade DEF Decided
<1>2. A \subseteq Actions /\ IsFiniteSet(A)
  BY GroupsAreSets
<1>3. ASSUME NEW a \in A
      PROVE  w[a] = 1 /\ v[a] \in {1, 2} /\ (v[a] = 2 <=> a \in ran)
  <2>1. w[a] = 1
    BY <1>2, PublishedPhase, ProfilesAreKnown DEF Decided
  <2>2. PICK d, run : /\ d = t.directions[a] /\ run = results[g].rows[a].run
                      /\ d = MeasuredDirection(results[g].rows[a], MadeProfiles[a])
    BY <1>1 DEF IsMeasured
  <2>3. d.second = run.status /\ d.physical = IF run = NotRun THEN 1 ELSE 2
    BY <2>2 DEF MeasuredDirection, Direction
  <2>4. run \in Stages
    BY <1>2, <2>2, ResultsAreTyped DEF Decided, Rows
  <2>5. run = NotRun <=> run.status = "not_run"
    BY <2>4 DEF Stages, Successes, Stage, NotRun
  <2>6. v[a] = d.physical /\ (a \in ran <=> d.second # "not_run")
    BY <1>1, <2>2
  <2> QED BY <2>1, <2>3, <2>5, <2>6
<1>4. w \in [A -> 0 .. 2] /\ v \in [A -> 0 .. 2] /\ ran \in SUBSET A
  BY <1>3
<1>5. /\ {x \in A : w[x] >= 1} = A /\ {x \in A : w[x] = 2} = {}
      /\ {x \in A : v[x] >= 1} = A /\ {x \in A : v[x] = 2} = ran
  BY <1>3
<1>6. Cardinality(A) \in Nat /\ Cardinality(ran) \in Nat
  BY <1>2, <1>4, FS_Subset, FS_CardinalityType
<1>7. SecondRounds(payload, g) =
        IF payload.groups[g].physical > SumFunction(w)
          THEN payload.groups[g].physical - SumFunction(w) ELSE 0
  BY DEF SecondRounds, Decided, PayloadIsMade
<1>8. payload.groups[g].physical = SumFunction(v)
  BY <1>1 DEF IsMeasured
<1>9. Quantify(Groups[g], LAMBDA a : payload.groups[g].directions[a].second # "not_run") = Cardinality(ran)
  BY DEF Quantify
<1> HIDE DEF A, ran, w, v
<1>10. SumFunction(w) = SumOf(w, A) /\ SumFunction(v) = SumOf(v, A)
  BY <1>2, <1>4, SumIsSum
<1>11. SumOf(w, A) = Cardinality(A) + Cardinality({}) /\ SumOf(v, A) = Cardinality(A) + Cardinality(ran)
  BY <1>5, Zenon DEF SumOf
<1>12. Cardinality({}) = 0
  BY FS_EmptySet
<1>13. SecondRounds(payload, g) = Cardinality(ran)
  BY <1>6, <1>7, <1>8, <1>10, <1>11, <1>12
<1> QED BY <1>1, <1>9, <1>13 DEF IsMeasured

\* The tables of a group agree with each other (aggregate.py).
LEMMA TablesAgree ==
  ASSUME Decided
  PROVE  GroupTablesAgree(payload)
<1> SUFFICES ASSUME NEW g \in DOMAIN Groups
             PROVE  LET t == payload.groups[g]
                        m == Metrics(payload, g)
                        decided == t.verdict \in {"authorized", "rejected"}
                    IN /\ \A i \in 1 .. 4 : Funnel(t)[i + 1] => Funnel(t)[i]
                       /\ decided <=> \A e \in Ledger(payload) : <<e[1], e[2]>> # <<"group", g>>
                       /\ decided => Limitations(t) = {}
                       /\ \/ decided \/ Limitations(t) # {}
                          \/ \E a \in Groups[g] : t.directions[a].status \in FatalKinds
                       /\ m.agreement + m.false + m.unavailable = Cardinality(PairsOfGroup(g))
                       /\ decided <=> m.available = Cardinality(Groups[g])
                       /\ SecondRounds(payload, g) =
                            IF t.limited THEN 0
                            ELSE Quantify(Groups[g], LAMBDA a : t.directions[a].second # "not_run")
  BY DEF GroupTablesAgree
<1>1. TablesOfGroup(payload.groups[g], Groups[g])
  BY TablesAreSound
<1>2. GroupFailure(payload.groups[g]) = ""
        <=> \A e \in Ledger(payload) : <<e[1], e[2]>> # <<"group", g>>
  BY GroupEntry
<1>3. Metrics(payload, g).agreement + Metrics(payload, g).false + Metrics(payload, g).unavailable
        = Cardinality(PairsOfGroup(g))
  BY PairRowSays, ValidationsAdd
<1>4. Metrics(payload, g).available = Cardinality(Groups[g])
        <=> \A a \in Groups[g] : payload.groups[g].directions[a].status \in Compared
  BY AvailableAll
<1>5. SecondRounds(payload, g) =
        IF payload.groups[g].limited THEN 0
        ELSE Quantify(Groups[g], LAMBDA a : payload.groups[g].directions[a].second # "not_run")
  BY NothingCharged, SecondRoundsCharged
<1> QED BY <1>1, <1>2, <1>3, <1>4, <1>5 DEF TablesOfGroup

\* All readers accept the rows.
LEMMA RowsAccepted ==
  ASSUME Decided
  PROVE  RowsAreAccepted
BY CheckpointIsAccepted, HandoffIsAccepted, AggregateIsAccepted, TablesAgree, KindsAgree
   DEF RowsAreAccepted

-----------------------------------------------------------------------------
\* The cleanup.

\* What CleanUp wrote.
CompactedRow(k, partial, stuck) == Compacted(Written(partial)[k], Plan[k], k \in stuck)
SettledRow(k, partial, stuck) == Settled(k, CompactedRow(k, partial, stuck))
LedgerOf(partial, stuck) ==
  /\ \A k \in Keys :
       /\ ledger.rows[k] = SettledRow(k, partial, stuck)
       /\ ledger.entries[k] =
            Synchronized(Entry(CompactedRow(k, partial, stuck)), SettledRow(k, partial, stuck))
  /\ ledger.written = {k \in Keys : Written(partial)[k].materialized}
  /\ ledger.files = ledger.written \ ({k \in Keys : Plan[k] = "planned"} \ stuck)
LedgerIsMade ==
  ledger # NoLedger => payload # NoPayload /\ \E partial \in BOOLEAN, stuck \in SUBSET Keys : LedgerOf(partial, stuck)

\* The rows with outputs: pairs of the matrix and directions of the groups.
LEMMA KeyShape ==
  ASSUME NEW k \in Keys
  PROVE  \/ /\ IsPair(k) /\ k[2] \in Pairs /\ k = <<"pair", k[2]>>
         \/ /\ ~ IsPair(k) /\ k[2] \in DOMAIN Groups /\ k[3] \in Groups[k[2]]
            /\ k = <<"direction", k[2], k[3]>>
<1>1. CASE \E p \in Pairs : k = <<"pair", p>>
  BY <1>1 DEF IsPair
<1>2. CASE \E g \in DOMAIN Groups : \E a \in Groups[g] : k = <<"direction", g, a>>
  BY <1>2 DEF IsPair
<1> QED BY <1>1, <1>2 DEF Keys

\* A row of the recovery names no runs that succeeded.
LEMMA TypedFailed ==
  ASSUME Decided, NEW k \in Keys
  PROVE  /\ Typed(k) \in BOOLEAN
         /\ Typed(k) => Ran(k) # {"success"}
<1>1. CASE IsPair(k)
  <2>1. k[2] \in Pairs
    BY <1>1, KeyShape
  <2>2. ASSUME phase \in {"profiles", "pairs"}
        PROVE  payload.pairs[k[2]].ab # "success"
    <3>1. PICK a, b : payload.pairs[k[2]] = MissingPair(a, b)
      BY <2>1, <2>2, MatrixRow DEF Decided, PayloadIsMade
    <3>2. MissingPair(a, b).ab \in {"timeout", "not_run"}
      BY DEF MissingPair, PairRow
    <3> QED BY <3>1, <3>2
  <2> QED BY <1>1, <2>2 DEF Typed, Ran
<1>2. CASE ~ IsPair(k)
  <2>1. PICK g, a : g = k[2] /\ a = k[3] /\ g \in DOMAIN Groups /\ a \in Groups[g]
    BY <1>2, KeyShape
  <2>2. CASE g \in DOMAIN results
    <3>1. payload.groups[g].limited = FALSE
      BY <2>1, <2>2, GroupsAreMade DEF Decided, IsMeasured
    <3> QED BY <1>2, <2>1, <3>1 DEF Typed
  <2>3. CASE g \notin DOMAIN results
    <3>1. PICK t : t = payload.groups[g] /\ IsMissing(t, g)
      BY <2>1, <2>3, GroupsAreMade DEF Decided
    <3>2. t.limited = TRUE /\ t.directions[a].second \in {"timeout", "not_run"}
      BY <2>1, <3>1, MissingRows DEF IsMissing
    <3> QED BY <1>2, <2>1, <3>1, <3>2 DEF Typed, Ran
  <2> QED BY <2>2, <2>3
<1> QED BY <1>1, <1>2

\* What is planned for the outputs of a row.
LEMMA PlanOf ==
  ASSUME NEW k \in Keys
  PROVE  /\ Plan[k] = "planned" \/ Plan[k] \in Retentions
         /\ Plan[k] = "planned" => Ran(k) = {"success"} /\ k \notin Protected
         /\ Plan[k] = "planned" /\ IsPair(k) => payload.pairs[k[2]].dynamic = "commute"
BY DEF Plan, Retentions

\* Outputs that were kept, and outputs that were reclaimed.
KeptKey(k) ==
  LET row == ledger.rows[k]
      e == ledger.entries[k]
  IN /\ e.status = "retained" /\ e.actual = row.path /\ row.cleanup \in Retentions
     /\ row.materialized => row.path = "stage"
     /\ row.materialized <=> k \in ledger.written
     /\ k \in ledger.files <=> k \in ledger.written
     /\ Typed(k) => row.cleanup = "retained_runtime_budget_exceeded" /\ row.path = "none"
ReclaimedKey(k) ==
  LET row == ledger.rows[k]
      e == ledger.entries[k]
  IN /\ Plan[k] = "planned" /\ ~ Typed(k)
     /\ e.status = "reclaimed" /\ e.actual = "none"
     /\ row.path = "none" /\ ~ row.materialized /\ row.cleanup = "reclaimed_nonwitness"
     /\ k \in ledger.written /\ k \notin ledger.files
KeyIsSettled(k) ==
  /\ ledger.entries[k].cleanup = ledger.rows[k].cleanup
  /\ ledger.entries[k].materialized = ledger.rows[k].materialized
  /\ Ran(k) = {"success"} => k \in ledger.written
  /\ KeptKey(k) \/ ReclaimedKey(k)

\* After the cleanup the outputs of a row are kept or reclaimed.
LEMMA KeysAreSettled ==
  ASSUME Decided, NEW partial \in BOOLEAN, NEW stuck, LedgerOf(partial, stuck), NEW k \in Keys
  PROVE  KeyIsSettled(k)
<1>1. PICK w : w = Written(partial)[k]
  OBVIOUS
<1>2. PICK plan, c, row, e :
        /\ plan = Plan[k] /\ c = Compacted(w, plan, k \in stuck)
        /\ row = Settled(k, c) /\ e = Synchronized(Entry(c), row)
        /\ ledger.rows[k] = row /\ ledger.entries[k] = e
  BY <1>1 DEF LedgerOf, SettledRow, CompactedRow
<1>3. /\ k \in ledger.written <=> w.materialized
      /\ k \in ledger.files <=> w.materialized /\ (plan # "planned" \/ k \in stuck)
  BY <1>1, <1>2 DEF LedgerOf
<1>4. (plan = "planned" \/ plan \in Retentions) /\ (plan = "planned" => Ran(k) = {"success"})
  BY <1>2, PlanOf
<1>5. Typed(k) => Ran(k) # {"success"}
  BY TypedFailed
<1>6. CASE Typed(k)
  <2>1. w = [path |-> "none", materialized |-> FALSE, cleanup |-> "retained_runtime_budget_exceeded"]
    BY <1>1, <1>6 DEF Written
  <2>2. plan # "planned"
    BY <1>4, <1>5, <1>6
  <2>3. c = [path |-> "none", materialized |-> FALSE, cleanup |-> plan]
    BY <1>2, <2>1, <2>2 DEF Compacted
  <2>4. row = [path |-> "none", materialized |-> FALSE, cleanup |-> "retained_runtime_budget_exceeded"]
    <3>1. row = [c EXCEPT !.materialized = FALSE, !.cleanup = "retained_runtime_budget_exceeded"]
      BY <1>2, <1>6 DEF Settled
    <3> QED BY <2>3, <3>1
  <2>5. plan # "reclaimed_nonwitness"
    BY <1>4, <2>2 DEF Retentions
  <2>6. e.status = "retained" /\ e.actual = "none" /\ e.materialized = FALSE
        /\ e.cleanup = "retained_runtime_budget_exceeded"
    <3>1. PICK f : f = Entry(c) /\ f = [status |-> "retained", reason |-> plan, cleanup |-> plan,
                                        materialized |-> FALSE, actual |-> "none"]
      BY <2>3, <2>5 DEF Entry
    <3>2. e = Synchronized(f, row)
      BY <1>2, <3>1
    <3> QED BY <2>4, <3>1, <3>2 DEF Synchronized
  <2>7. row.path = "none" /\ row.materialized = FALSE /\ row.cleanup = "retained_runtime_budget_exceeded"
        /\ w.materialized = FALSE
    BY <2>1, <2>4
  <2>8. "retained_runtime_budget_exceeded" \in Retentions
    BY DEF Retentions
  <2>9. KeptKey(k)
    BY <1>2, <1>3, <2>6, <2>7, <2>8 DEF KeptKey
  <2> QED BY <1>2, <1>5, <1>6, <2>6, <2>7, <2>9 DEF KeyIsSettled
<1>7. CASE ~ Typed(k)
  <2>1. PICK path, made :
          /\ w = [path |-> path, materialized |-> made, cleanup |-> "not_eligible"]
          /\ made = (\/ Ran(k) = {"success"}
                     \/ partial /\ ~ IsPair(k) /\ Ran(k) # {"not_run"})
          /\ path = IF Ran(k) = {"not_run"} /\ ~ IsPair(k) THEN "none" ELSE "stage"
    BY <1>1, <1>7 DEF Written
  <2>2. /\ made \in BOOLEAN /\ (made => path = "stage") /\ (Ran(k) = {"success"} => made)
    <3>1. {"success"} # {"not_run"}
      OBVIOUS
    <3> QED BY <2>1, <3>1
  <2>3. w.materialized = made
    BY <2>1
  <2>4. ASSUME NEW word, word \in Retentions,
               c = [path |-> path, materialized |-> made, cleanup |-> word],
               k \in ledger.files <=> made
        PROVE  KeyIsSettled(k)
    <3>1. row = c
      BY <1>2, <1>7, <2>4 DEF Settled, Retentions
    <3>2. PICK f : f = Entry(c) /\ f = [status |-> "retained", reason |-> word, cleanup |-> word,
                                        materialized |-> made, actual |-> path]
      BY <2>4 DEF Entry, Retentions
    <3>3. e = Synchronized(f, row)
      BY <1>2, <3>2
    <3>4. e.status = "retained" /\ e.actual = path /\ e.materialized = made /\ e.cleanup = word
      BY <2>4, <3>1, <3>2, <3>3 DEF Synchronized
    <3>5. row.path = path /\ row.materialized = made /\ row.cleanup = word
      BY <2>4, <3>1
    <3> QED BY <1>2, <1>3, <1>7, <2>2, <2>3, <2>4, <3>4, <3>5 DEF KeyIsSettled, KeptKey
  <2>5. CASE plan # "planned"
    <3>1. c = [path |-> path, materialized |-> made, cleanup |-> plan]
      BY <1>2, <2>1, <2>5 DEF Compacted
    <3> QED BY <1>3, <1>4, <2>3, <2>4, <2>5, <3>1
  <2>6. CASE plan = "planned" /\ k \in stuck
    <3>1. c = [path |-> path, materialized |-> made, cleanup |-> "retained_quarantine_move_failed"]
      BY <1>2, <2>1, <2>6 DEF Compacted
    <3>2. "retained_quarantine_move_failed" \in Retentions
      BY DEF Retentions
    <3> QED BY <1>3, <2>3, <2>4, <2>6, <3>1, <3>2
  <2>7. CASE plan = "planned" /\ k \notin stuck
    <3>1. c = [path |-> path, materialized |-> FALSE, cleanup |-> "reclaimed_nonwitness"]
      BY <1>2, <2>1, <2>7 DEF Compacted
    <3>2. row = [path |-> "none", materialized |-> FALSE, cleanup |-> "reclaimed_nonwitness"]
      <4>1. c.cleanup = "reclaimed_nonwitness"
        BY <3>1
      <4>2. row = [c EXCEPT !.path = "none"]
        BY <1>2, <1>7, <4>1 DEF Settled
      <4> QED BY <3>1, <4>2
    <3>3. PICK f, reason :
            f = Entry(c) /\ f = [status |-> "reclaimed", reason |-> reason,
                                 cleanup |-> "reclaimed_nonwitness",
                                 materialized |-> FALSE, actual |-> "none"]
      BY <3>1 DEF Entry
    <3>4. e = Synchronized(f, row)
      BY <1>2, <3>3
    <3>5. e.status = "reclaimed" /\ e.actual = "none" /\ e.materialized = FALSE
          /\ e.cleanup = "reclaimed_nonwitness"
      BY <3>2, <3>3, <3>4 DEF Synchronized
    <3>6. row.path = "none" /\ row.materialized = FALSE /\ row.cleanup = "reclaimed_nonwitness"
      BY <3>2
    <3>7. k \in ledger.written /\ k \notin ledger.files
      BY <1>3, <1>4, <2>2, <2>3, <2>7
    <3>8. ReclaimedKey(k)
      BY <1>2, <1>7, <2>7, <3>5, <3>6, <3>7 DEF ReclaimedKey
    <3> QED BY <1>2, <3>5, <3>6, <3>7, <3>8 DEF KeyIsSettled
  <2> QED BY <2>5, <2>6, <2>7
<1> QED BY <1>6, <1>7

\* A pair whose orders differ ran, and its outputs are no candidates.
LEMMA OrderSensitiveKept ==
  ASSUME Decided, NEW p \in Pairs, payload.pairs[p].dynamic = "order_sensitive"
  PROVE  <<"pair", p>> \in Keys /\ Plan[<<"pair", p>>] # "planned" /\ Ran(<<"pair", p>>) = {"success"}
<1>1. PICK q : q = payload.pairs[p] /\ RowIsSound(q) /\ q.dynamic = "order_sensitive"
  BY MatrixIsSound DEF Decided, PayloadIsMade
<1>2. q.ab = "success" /\ q.ba = "success"
  BY <1>1 DEF RowIsSound, Ended
<1>3. PICK k : k = <<"pair", p>> /\ k \in Keys /\ IsPair(k) /\ k[2] = p
  <2>1. <<"pair", p>> \in Keys
    BY DEF Keys
  <2>2. <<"pair", p>>[1] = "pair" /\ <<"pair", p>>[2] = p
    OBVIOUS
  <2> QED BY <2>1, <2>2 DEF IsPair
<1>4. Ran(k) = {"success"}
  BY <1>1, <1>2, <1>3 DEF Ran
<1>5. Plan[k] # "planned"
  BY <1>1, <1>3, PlanOf
<1> QED BY <1>3, <1>4, <1>5

\* The directions of a false authorisation are protected.
LEMMA FalseKept ==
  ASSUME Decided, NEW g \in DOMAIN Groups, NEW p \in PairsOfGroup(g), NEW a \in {p[1], p[2]},
         payload.groups[g].pairs[p].false
  PROVE  <<"direction", g, a>> \in Protected
<1>1. g \in DOMAIN results /\ FalseAuthorization(g, p)
  BY PairRowSays
<1>2. PICK d \in {p[1], p[2]} : Authorized(results[g].rows, d)
  BY <1>1 DEF FalseAuthorization
<1>3. PICK c : c = <<g, p[1], p[2], d>>
  OBVIOUS
<1>4. c \in CasesOf(g, p) /\ c[1] = g /\ c[2] = p[1] /\ c[3] = p[2]
  BY <1>2, <1>3 DEF CasesOf
<1>5. c \in DOMAIN payload.witnesses
  BY <1>1, <1>4, CasesOfPair, WitnessesAreCases
<1>6. <<"direction", g, a>> \in {<<"pair", <<c[2], c[3]>>>>, <<"direction", c[1], c[2]>>,
                                 <<"direction", c[1], c[3]>>}
  BY <1>4
<1> QED BY <1>5, <1>6 DEF Protected

\* After the cleanup the rows, the ledger and the disk agree.
LEMMA LedgerAccepted ==
  ASSUME Decided, ledger # NoLedger, LedgerIsMade
  PROVE  /\ TypedRowsKept /\ EvidenceIsKept
         /\ \A k \in Keys : EntryFits(k) /\ HandoffFits(k) /\ BindingFits(k)
<1>1. PICK partial \in BOOLEAN, stuck \in SUBSET Keys : LedgerOf(partial, stuck)
  BY DEF LedgerIsMade
<1>2. \A k \in Keys : KeyIsSettled(k)
  BY <1>1, KeysAreSettled
<1>3. ledger.written \subseteq Keys /\ ledger.files \subseteq ledger.written
  BY <1>1 DEF LedgerOf
<1>4. ASSUME NEW k \in Keys
      PROVE  /\ EntryFits(k) /\ HandoffFits(k) /\ BindingFits(k)
             /\ Typed(k) => ledger.rows[k].cleanup = "retained_runtime_budget_exceeded"
             /\ k \in Bound <=> k \in ledger.files
             /\ k \in Indexed <=> ~ (IsPair(k) /\ ledger.entries[k].status = "reclaimed")
             /\ Plan[k] # "planned" /\ k \in ledger.written => k \in ledger.files
             /\ Ran(k) = {"success"} => k \in ledger.written
  <2>1. KeyIsSettled(k) /\ (k \in Bound <=> ledger.rows[k].materialized)
    BY <1>2 DEF Bound
  <2>2. CASE KeptKey(k)
    <3>1. EntryFits(k) /\ ledger.entries[k].status # "reclaimed"
      BY <2>1, <2>2 DEF EntryFits, KeyIsSettled, KeptKey
    <3>2. HandoffFits(k)
      BY <3>1 DEF HandoffFits
    <3>3. BindingFits(k) /\ (k \in Bound <=> k \in ledger.files)
      BY <2>1, <2>2 DEF BindingFits, KeptKey
    <3>4. k \in Indexed
      BY <2>2 DEF Indexed, KeptKey
    <3> QED BY <2>1, <2>2, <3>1, <3>2, <3>3, <3>4 DEF KeyIsSettled, KeptKey
  <2>3. CASE ReclaimedKey(k)
    <3>1. EntryFits(k)
      BY <2>1, <2>3 DEF EntryFits, KeyIsSettled, ReclaimedKey
    <3>2. Ran(k) = {"success"}
      BY <2>3, PlanOf DEF ReclaimedKey
    <3>3. HandoffFits(k)
      BY <3>1, <3>2 DEF HandoffFits
    <3>4. BindingFits(k) /\ (k \in Bound <=> k \in ledger.files)
      BY <2>1, <2>3 DEF BindingFits, ReclaimedKey
    <3>5. k \in Indexed <=> ~ IsPair(k)
      BY <2>1, <2>3 DEF Indexed, ReclaimedKey, Retentions
    <3> QED BY <2>1, <2>3, <3>1, <3>3, <3>4, <3>5 DEF KeyIsSettled, ReclaimedKey
  <2> QED BY <2>1, <2>2, <2>3 DEF KeyIsSettled
<1>5. TypedRowsKept
  BY <1>4 DEF TypedRowsKept
<1>6. EvidenceIsKept
  <2>1. ledger.files = Bound
    BY <1>3, <1>4 DEF Bound
  <2>2. Keys \ Indexed = {k \in Keys : IsPair(k) /\ ledger.entries[k].status = "reclaimed"}
    BY <1>4
  <2>3. ASSUME NEW p \in Pairs, payload.pairs[p].dynamic = "order_sensitive"
        PROVE  <<"pair", p>> \in ledger.files
    BY <1>4, <2>3, OrderSensitiveKept
  <2>4. ASSUME NEW g \in DOMAIN Groups, NEW p \in PairsOfGroup(g), NEW a \in Groups[g],
               payload.groups[g].pairs[p].false, a \in {p[1], p[2]},
               <<"direction", g, a>> \in ledger.written
        PROVE  <<"direction", g, a>> \in ledger.files
    <3>1. PICK k : k = <<"direction", g, a>>
      OBVIOUS
    <3>2. k \in Keys /\ k \in Protected
      BY <1>3, <2>4, <3>1, FalseKept
    <3>3. Plan[k] # "planned"
      BY <3>2, PlanOf
    <3> QED BY <1>4, <2>4, <3>1, <3>2, <3>3
  <2> QED BY <2>1, <2>2, <2>3, <2>4 DEF EvidenceIsKept
<1> QED BY <1>4, <1>5, <1>6

-----------------------------------------------------------------------------
\* The invariant of the decision and the cleanup.

LedgerInvariant ==
  GroupInvariant /\ BlameInvariant /\ RowsAreShaped /\ PayloadIsMade /\ LedgerIsMade

\* What the invariants of the study say of a step of it.
LEMMA InvariantStep ==
  ASSUME GroupInvariant, BlameInvariant, [Next]_vars
  PROVE  GroupInvariant' /\ BlameInvariant'
<1>1. GroupInvariant'
  BY GroupStep
<1>2. StudyIsOrdered /\ MisbehaviourIsCharged
  BY DEF BlameInvariant
<1>3. StudyIsOrdered' /\ MisbehaviourIsCharged' /\ StableReplaysAreReal'
  BY <1>1, <1>2, OrderedStep, ChargedStep, RealStep
<1> QED BY <1>1, <1>3 DEF BlameInvariant

\* Nothing changes what was decided.
LEMMA SamePayload ==
  ASSUME UNCHANGED vars, UNCHANGED payload, PayloadIsMade
  PROVE  PayloadIsMade'
<1>1. UNCHANGED <<study, failures, phase, profiles, pairs, results, replays>>
  BY DEF vars, studyVars
<1>2. MadeProfiles' = MadeProfiles
  BY <1>1 DEF MadeProfiles, ProfileRow, Root
<1>3. MadePairs' = MadePairs /\ OpenCases' = OpenCases
  BY <1>1, <1>2, SameCases DEF MadePairs, MeasuredPair
<1>4. \A g, gs, fs, ws : /\ MeasuredGates(g)' = MeasuredGates(g)
                        /\ MeasuredGroup(g, gs, fs, ws)' = MeasuredGroup(g, gs, fs, ws)
  BY <1>1 DEF MeasuredGates, MeasuredGroup, MeasuredValidation, FalseAuthorization, CasesOf, Authorized,
              Root
<1> QED BY <1>1, <1>2, <1>3, <1>4 DEF PayloadIsMade, NoPayload

\* The readings of a payload that stays.
LEMMA SameReadings ==
  ASSUME UNCHANGED <<phase, payload>>, NEW partial, NEW stuck
  PROVE  /\ Keys' = Keys /\ Plan' = Plan /\ Written(partial)' = Written(partial)
         /\ \A k : /\ CompactedRow(k, partial, stuck)' = CompactedRow(k, partial, stuck)
                   /\ SettledRow(k, partial, stuck)' = SettledRow(k, partial, stuck)
<1>1. Keys' = Keys /\ Protected' = Protected
  BY DEF Keys, Pairs, Protected
<1>2. Plan' = Plan
  BY <1>1 DEF Plan, Ran
<1>3. Written(partial)' = Written(partial)
  BY <1>1 DEF Written, Ran, Typed
<1> QED BY <1>1, <1>2, <1>3 DEF CompactedRow, SettledRow, Settled, Typed

\* Nothing changes what was cleaned up.
LEMMA SameLedger ==
  ASSUME UNCHANGED rowVars, UNCHANGED ledger, LedgerIsMade
  PROVE  LedgerIsMade'
<1>1. UNCHANGED <<phase, payload>>
  BY DEF rowVars, vars, studyVars
<1>2. ASSUME NEW partial \in BOOLEAN, NEW stuck \in SUBSET Keys, LedgerOf(partial, stuck)
      PROVE  LedgerOf(partial, stuck)'
  BY <1>1, <1>2, SameReadings DEF LedgerOf
<1>3. Keys' = Keys
  BY DEF Keys, Pairs
<1> QED BY <1>1, <1>2, <1>3 DEF LedgerIsMade, NoLedger, NoPayload

\* The cleanup writes these rows.
LEMMA CleanUpMakes ==
  ASSUME CleanUp
  PROVE  LedgerIsMade'
<1>1. UNCHANGED rowVars /\ payload # NoPayload
  BY DEF CleanUp
<1>2. PICK partial \in BOOLEAN, stuck \in {{}, {k \in Keys : Plan[k] = "planned"}}
                                          \cup {{k} : k \in {j \in Keys : Plan[j] = "planned"}} :
        LET compacted == [k \in Keys |-> CompactedRow(k, partial, stuck)]
            settled == [k \in Keys |-> Settled(k, compacted[k])]
            made == {k \in Keys : Written(partial)[k].materialized}
        IN ledger' = [rows |-> settled, written |-> made,
                      files |-> made \ ({k \in Keys : Plan[k] = "planned"} \ stuck),
                      entries |-> [k \in Keys |-> Synchronized(Entry(compacted[k]), settled[k])]]
  BY DEF CleanUp, CompactedRow
<1>3. stuck \in SUBSET Keys
  OBVIOUS
<1>4. PICK settled, entries, made :
        /\ settled = [k \in Keys |-> SettledRow(k, partial, stuck)]
        /\ entries = [k \in Keys |-> Synchronized(Entry(CompactedRow(k, partial, stuck)),
                                                  SettledRow(k, partial, stuck))]
        /\ made = {k \in Keys : Written(partial)[k].materialized}
        /\ ledger' = [rows |-> settled, written |-> made,
                      files |-> made \ ({k \in Keys : Plan[k] = "planned"} \ stuck),
                      entries |-> entries]
  BY <1>2 DEF SettledRow
<1>5. /\ ledger'.rows = settled /\ ledger'.entries = entries /\ ledger'.written = made
      /\ ledger'.files = made \ ({k \in Keys : Plan[k] = "planned"} \ stuck)
  BY <1>4
<1>6. UNCHANGED <<phase, payload>>
  BY <1>1 DEF rowVars, vars, studyVars
<1>7. /\ Keys' = Keys /\ Plan' = Plan /\ Written(partial)' = Written(partial)
      /\ \A k : /\ CompactedRow(k, partial, stuck)' = CompactedRow(k, partial, stuck)
                /\ SettledRow(k, partial, stuck)' = SettledRow(k, partial, stuck)
  BY <1>6, SameReadings
<1>8. LedgerOf(partial, stuck)'
  BY <1>4, <1>5, <1>7 DEF LedgerOf
<1> QED BY <1>1, <1>3, <1>6, <1>8 DEF LedgerIsMade

\* A step before the program is decided; its decision; the cleanup.
LEMMA LedgerStep ==
  ASSUME LedgerInvariant, [LedgerNext]_ledgerVars
  PROVE  LedgerInvariant'
<1>1. CASE payload = NoPayload /\ [Next]_vars /\ UNCHANGED <<payload, ledger>>
  <2>1. GroupInvariant' /\ BlameInvariant'
    BY <1>1, InvariantStep DEF LedgerInvariant
  <2>2. RowsAreShaped'
    BY <1>1, ShapeStep DEF LedgerInvariant, BlameInvariant
  <2>3. PayloadIsMade' /\ LedgerIsMade'
    BY <1>1 DEF LedgerInvariant, PayloadIsMade, LedgerIsMade, NoPayload, NoLedger
  <2> QED BY <2>1, <2>2, <2>3 DEF LedgerInvariant
<1>2. CASE DecideProgram /\ UNCHANGED ledger
  <2>1. PayloadIsMade' /\ UNCHANGED vars
    BY <1>2, DecideMakes
  <2>2. GroupInvariant' /\ BlameInvariant' /\ RowsAreShaped'
    BY <2>1, InvariantStep, ShapeStep DEF LedgerInvariant, BlameInvariant
  <2>3. ledger' = NoLedger
    BY <1>2 DEF DecideProgram, LedgerInvariant, LedgerIsMade
  <2>4. LedgerIsMade'
    BY <2>3 DEF LedgerIsMade, NoLedger
  <2> QED BY <2>1, <2>2, <2>4 DEF LedgerInvariant
<1>3. ASSUME UNCHANGED rowVars
      PROVE  GroupInvariant' /\ BlameInvariant' /\ RowsAreShaped' /\ PayloadIsMade'
  <2>1. UNCHANGED vars /\ UNCHANGED payload
    BY <1>3 DEF rowVars
  <2>2. GroupInvariant' /\ BlameInvariant' /\ RowsAreShaped'
    BY <2>1, InvariantStep, ShapeStep DEF LedgerInvariant, BlameInvariant
  <2>3. PayloadIsMade'
    BY <2>1, SamePayload DEF LedgerInvariant
  <2> QED BY <2>2, <2>3
<1>4. CASE CleanUp
  BY <1>3, <1>4, CleanUpMakes DEF LedgerInvariant, CleanUp
<1>5. CASE UNCHANGED ledgerVars
  <2>1. UNCHANGED rowVars /\ UNCHANGED ledger
    BY <1>5 DEF ledgerVars
  <2>2. LedgerIsMade'
    BY <2>1, SameLedger DEF LedgerInvariant
  <2> QED BY <1>3, <2>1, <2>2 DEF LedgerInvariant
<1>6. ASSUME RowsNext, UNCHANGED ledger
      PROVE  \/ payload = NoPayload /\ [Next]_vars /\ UNCHANGED <<payload, ledger>>
             \/ DecideProgram
  BY <1>6 DEF RowsNext
<1> QED BY <1>1, <1>2, <1>4, <1>5, <1>6 DEF LedgerNext, Settle

\* However a program is decided and cleaned up (recover_runtime_budget_limited_program,
\* finalize_program_evidence), its rows pass their three readers (program_runtime.py,
\* cli.py, aggregate.py) and their tables agree, and afterwards the rows, the ledger
\* and the disk agree and no evidence is lost.
THEOREM PayloadAlwaysAccepted == LedgerSpec => []PayloadIsAccepted
<1>1. LedgerInit => LedgerInvariant
  <2> SUFFICES ASSUME LedgerInit PROVE LedgerInvariant
    OBVIOUS
  <2>1. Init /\ payload = NoPayload /\ ledger = NoLedger
    BY DEF LedgerInit, RowsInit
  <2> QED BY <2>1, GroupInit, BlameInit, ShapeInit DEF LedgerInvariant, PayloadIsMade, LedgerIsMade
<1>2. LedgerInvariant /\ [LedgerNext]_ledgerVars => LedgerInvariant'
  BY LedgerStep
<1>3. LedgerInvariant => PayloadIsAccepted
  <2> SUFFICES ASSUME LedgerInvariant PROVE PayloadIsAccepted
    OBVIOUS
  <2>1. payload # NoPayload => Decided
    BY DEF LedgerInvariant, BlameInvariant, Decided
  <2>2. ledger # NoLedger => payload # NoPayload
    BY DEF LedgerInvariant, LedgerIsMade
  <2> QED BY <2>1, <2>2, RowsAccepted, LedgerAccepted DEF PayloadIsAccepted, LedgerInvariant
<1> QED BY <1>1, <1>2, <1>3, PTL DEF LedgerSpec
=============================================================================
