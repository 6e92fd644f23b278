----------------------------- MODULE GroupStudy -----------------------------
(***************************************************************************)
(* One program of the advisor study (orchestration.py and the callbacks of *)
(* cli.py): every action runs on the root, every pair runs in both orders, *)
(* the direct-merge rule judges each group, and wherever it authorised an  *)
(* action of a pair whose orders differ (a false authorisation) the case   *)
(* is replayed six times: twice each in the worker, in opt and with the    *)
(* whole rule again.  Each of the four stages is published when it is      *)
(* complete; a restart of the study resumes after the last published one.  *)
(***************************************************************************)
EXTENDS GroupEvaluation, Sequences

CONSTANTS
  Groups,           \* the groups, growing, none empty; the last is Uall, all actions
  Jobs              \* pairs tested at a time

ASSUME GroupsAssumption ==
  /\ Jobs \in Nat \ {0}
  /\ Groups \in Seq(SUBSET Actions) /\ Groups # <<>>
  /\ \A g \in 1 .. Len(Groups) - 1 : Groups[g] \subseteq Groups[g + 1]
  /\ Groups[Len(Groups)] = Actions
  /\ \A g \in DOMAIN Groups : Groups[g] # {}

VARIABLES
  phase,            \* the stage that runs
  profiles,         \* the published runs on the root
  pairs,            \* the pair matrix
  results,          \* the published rows and verdict of each group
  orders,           \* A, B, AB and BA of the two_n replay under way
  records,          \* the finished replays of the case under way
  replays           \* family statuses of the published cases

studyVars == <<phase, profiles, pairs, results, orders, records, replays>>
vars == <<study, failures, client, evalVars, studyVars>>

-----------------------------------------------------------------------------
\* The pair matrix.

Pairs == {p \in Actions \X Actions : p[1] < p[2]}

\* s comes before t in the canonical order of rows and cases.
Before(s, t) == \E i \in DOMAIN s : s[i] < t[i] /\ \A j \in 1 .. i - 1 : s[j] = t[j]
First(S) == CHOOSE s \in S : \A t \in S \ {s} : Before(s, t)

\* A row of the matrix: the two orders, and dynamic_result ("open" until then).
Pair(ab, ba, dynamic) == [ab |-> ab, ba |-> ba, dynamic |-> dynamic]
NoPairs == [p \in Pairs |-> Pair(NotRun, NotRun, "open")]

Waiting(p) == pairs[p] = NoPairs[p]
Running(p) == pairs[p].dynamic = "open" /\ ~ Waiting(p)
Profiled(p) == profiles[p[1]].status = "success" /\ profiles[p[2]].status = "success"

\* classify_pair; equal says whether the comparator folded the outputs.
Classify(ab, ba, equal) ==
  IF "timeout" \in {ab.status, ba.status} THEN "timeout"
  ELSE IF ab.status # "success" \/ ba.status # "success" THEN "failed"
  ELSE IF equal THEN "commute" ELSE "order_sensitive"

\* A thread of the pair executor takes the next pair: A's output goes on with
\* B.  A pair without both first runs has its row at once.
StartPair ==
  /\ phase = "pairs" /\ \E p \in Pairs : Waiting(p)
  /\ Cardinality({p \in Pairs : Running(p)}) < Jobs
  /\ LET p == First({q \in Pairs : Waiting(q)}) IN
       \/ /\ Profiled(p)
          /\ \E stage \in Reports(profiles[p[1]].output, p[2], VerifiedRun) :
               /\ Misbehave(Charge(profiles[p[1]].output, p[2], stage))
               /\ pairs' = [pairs EXCEPT ![p].ab = stage]
       \/ /\ ~ Profiled(p)
          /\ pairs' = [pairs EXCEPT ![p].dynamic = Classify(profiles[p[1]], profiles[p[2]], TRUE)]
          /\ UNCHANGED failures
  /\ UNCHANGED <<study, client, evalVars, phase, profiles, results, orders, records, replays>>

\* B's output goes on with A.
SecondOrder(p) ==
  /\ phase = "pairs" /\ Running(p) /\ pairs[p].ba = NotRun
  /\ \E stage \in Reports(profiles[p[2]].output, p[1], VerifiedRun) :
       /\ Misbehave(Charge(profiles[p[2]].output, p[1], stage))
       /\ pairs' = [pairs EXCEPT ![p].ba = stage]
  /\ UNCHANGED <<study, client, evalVars, phase, profiles, results, orders, records, replays>>

\* Outputs of one hash are equal; others go to the comparator, which may fail.
FinishPair(p) ==
  /\ phase = "pairs" /\ Running(p) /\ pairs[p].ba # NotRun
  /\ LET equal == pairs[p].ab.output = pairs[p].ba.output
         result == Classify(pairs[p].ab, pairs[p].ba, equal) IN
       \/ /\ pairs' = [pairs EXCEPT ![p].dynamic = result]
          /\ UNCHANGED failures
       \/ /\ result = "order_sensitive"
          /\ Misbehave(1)
          /\ pairs' = [pairs EXCEPT ![p].dynamic = "unknown"]
  /\ UNCHANGED <<study, client, evalVars, phase, profiles, results, orders, records, replays>>

PublishPairs ==
  /\ phase = "pairs" /\ \A p \in Pairs : pairs[p].dynamic # "open"
  /\ phase' = "groups"
  /\ UNCHANGED <<study, failures, client, evalVars, profiles, pairs, results, orders, records, replays>>

-----------------------------------------------------------------------------
\* Profiles and groups.

StartProfiles ==
  /\ phase = "profiles"
  /\ Evaluate(Actions, NoFirsts, "profile")
  /\ UNCHANGED <<study, failures, client, studyVars>>

PublishProfiles ==
  /\ phase = "profiles" /\ step = "profile" /\ Unprofiled = {}
  /\ profiles' = firsts
  /\ phase' = "pairs"
  /\ NotEvaluated
  /\ UNCHANGED <<study, failures, client, pairs, results, orders, records, replays>>

Only(A, fs) == [a \in Actions |-> IF a \in A THEN fs[a] ELSE NotRun]

StartGroup ==
  /\ phase = "groups" /\ Len(results) < Len(Groups)
  /\ LET A == Groups[Len(results) + 1] IN Evaluate(A, Only(A, profiles), "gate")
  /\ UNCHANGED <<study, failures, client, studyVars>>

PublishGroup ==
  /\ phase = "groups" /\ step = "reported"
  /\ results' = Append(results, [rows |-> rows, verdict |-> verdict])
  /\ phase' = IF Len(results) + 1 = Len(Groups) THEN "replay" ELSE "groups"
  /\ NotEvaluated
  /\ UNCHANGED <<study, failures, client, profiles, pairs, orders, records, replays>>

-----------------------------------------------------------------------------
\* Replays of the false authorisations.

PairsOfGroup(g) == {p \in Pairs : p[1] \in Groups[g] /\ p[2] \in Groups[g]}

\* derive_two_n_pair_fields.
FalseAuthorization(g, p) ==
  /\ Authorized(results[g].rows, p[1]) \/ Authorized(results[g].rows, p[2])
  /\ pairs[p].dynamic \in {"order_sensitive", "failed"}

\* One case for each authorised action of such a pair: group, pair, action.
CasesOf(g, p) ==
  {<<g, p[1], p[2], d>> : d \in {c \in {p[1], p[2]} : Authorized(results[g].rows, c)}}
FalseAuthorizations == {x \in (DOMAIN results) \X Pairs :
                          x[2] \in PairsOfGroup(x[1]) /\ FalseAuthorization(x[1], x[2])}
Cases == UNION {CasesOf(x[1], x[2]) : x \in FalseAuthorizations}
OpenCases == Cases \ DOMAIN replays
Case1 == First(OpenCases)

\* The three families, each replayed twice.
Schedule == <<"worker", "worker", "external_opt", "external_opt", "two_n", "two_n">>
Family == Schedule[Len(records) + 1]

\* Replays trust the worker; opt's output is verified.
ReplayRun(family) == IF family = "external_opt" THEN VerifiedRun ELSE {"error", "timeout"}

\* An order is not run when its first action failed.
Onward(stage, a, kinds) ==
  IF stage.status = "success" THEN Reports(stage.output, a, kinds) ELSE {NotRun}
OnwardCharge(first, a, stage) ==
  IF first.status = "success" THEN Charge(first.output, a, stage) ELSE 0

Record(status, stages, rule) == [status |-> status, stages |-> stages, rule |-> rule]
NoRule == [input |-> NoModule]

\* A, B, AB and BA from the root again.  A worker or opt replay ends here; a
\* two_n replay goes on with the runs of the group and the whole rule.
ReplayPair ==
  /\ phase = "replay" /\ step = "idle" /\ OpenCases # {} /\ Len(records) < Len(Schedule)
  /\ LET a == Case1[2]
         b == Case1[3]
         kinds == ReplayRun(Family) IN
     \E sa \in Reports(Root, a, kinds), sb \in Reports(Root, b, kinds) :
     \E sab \in Onward(sa, b, kinds), sba \in Onward(sb, a, kinds) :
       /\ Misbehave(Charge(Root, a, sa) + Charge(Root, b, sb)
                      + OnwardCharge(sa, b, sab) + OnwardCharge(sb, a, sba))
       /\ \/ /\ Family # "two_n"
             /\ records' = Append(records, Record("success", <<sa, sb, sab, sba>>, NoRule))
             /\ UNCHANGED <<evalVars, orders>>
          \/ /\ Family = "two_n"
             /\ orders' = <<sa, sb, sab, sba>>
             /\ Evaluate(Groups[Case1[1]], NoFirsts, "profile")
             /\ UNCHANGED records
  /\ UNCHANGED <<study, client, phase, profiles, pairs, results, replays>>

ReplayRule ==
  /\ phase = "replay" /\ step = "profile" /\ Unprofiled = {}
  /\ step' = "gate"
  /\ UNCHANGED <<study, failures, client, members, firsts, patched, merged, second, rows,
                 verdict, studyVars>>

\* What a two_n replay is compared by: the two directions, and the effect and
\* the merged module of the authorised action d.
RuleOf(fs, rs, c) ==
  [left |-> rs[c[2]].direction, right |-> rs[c[3]].direction,
   effect |-> Patch(Root, fs[c[4]].output), input |-> rs[c[4]].input]

FinishReplay ==
  /\ phase = "replay" /\ step = "reported"
  /\ records' = Append(records,
       IF Authorized(rows, Case1[4])
         THEN Record("success", orders, RuleOf(firsts, rows, Case1))
         ELSE Record("error", orders, NoRule))
  /\ orders' = <<>>
  /\ NotEvaluated
  /\ UNCHANGED <<study, failures, client, phase, profiles, pairs, results, replays>>

Expected(c) == <<profiles[c[2]], profiles[c[3]], pairs[<<c[2], c[3]>>].ab, pairs[<<c[2], c[3]>>].ba>>

\* Faulty variant: the replays are compared with each other alone.
FamilyAgreement(r, s, stages, rule) ==
  IF r.status # "success" \/ s.status # "success" THEN "failed"
  ELSE IF r # s THEN "nondeterministic"
  ELSE "stable"

\* _replay_family_status of the two records r and s.
FamilyStatus(r, s, stages, rule) ==
  IF r.status # "success" \/ s.status # "success" THEN "failed"
  ELSE IF r # s THEN "nondeterministic"
  ELSE IF r.stages # stages \/ r.rule # rule THEN "mismatch"
  ELSE "stable"

CaseStatuses(c) ==
  [worker       |-> FamilyStatus(records[1], records[2], Expected(c), NoRule),
   external_opt |-> FamilyStatus(records[3], records[4], Expected(c), NoRule),
   two_n        |-> FamilyStatus(records[5], records[6], Expected(c),
                                 RuleOf(profiles, results[c[1]].rows, c))]

PublishReplay ==
  /\ phase = "replay" /\ Len(records) = Len(Schedule)
  /\ replays' = [c \in DOMAIN replays \cup {Case1} |->
                   IF c = Case1 THEN CaseStatuses(c) ELSE replays[c]]
  /\ records' = <<>>
  /\ UNCHANGED <<study, failures, client, evalVars, phase, profiles, pairs, results, orders>>

\* _writeback_replay_results: every family of every case of the pair is stable.
StableFalseAuthorization(g, p) ==
  /\ FalseAuthorization(g, p) /\ CasesOf(g, p) \subseteq DOMAIN replays
  /\ \A c \in CasesOf(g, p) : \A f \in DOMAIN replays[c] : replays[c][f] = "stable"

Finish ==
  /\ phase = "replay" /\ OpenCases = {}
  /\ phase' = "done"
  /\ UNCHANGED <<study, failures, client, evalVars, profiles, pairs, results, orders, records, replays>>

-----------------------------------------------------------------------------

\* The process ends; the next one resumes after the last published stage,
\* with new tools.
Restart ==
  /\ phase # "done"
  /\ Misbehave(1)
  /\ client' = "open"
  /\ NotEvaluated
  /\ pairs' = IF phase = "pairs" THEN NoPairs ELSE pairs
  /\ orders' = <<>> /\ records' = <<>>
  /\ UNCHANGED <<study, phase, profiles, results, replays>>

Done == phase = "done" /\ UNCHANGED vars

Init ==
  /\ study \in DOMAIN Studies
  /\ failures = 0 /\ client = "open"
  /\ step = "idle" /\ members = {} /\ firsts = NoFirsts /\ patched = {}
  /\ merged = NoModule /\ second = NotRun /\ rows = NoRows /\ verdict = "none"
  /\ phase = "profiles" /\ profiles = NoFirsts /\ pairs = NoPairs
  /\ results = <<>> /\ orders = <<>> /\ records = <<>> /\ replays = <<>>

Next ==
  \/ EvaluationStep /\ UNCHANGED studyVars
  \/ StartProfiles \/ PublishProfiles
  \/ StartPair \/ \E p \in Pairs : SecondOrder(p) \/ FinishPair(p)
  \/ PublishPairs
  \/ StartGroup \/ PublishGroup
  \/ ReplayPair \/ ReplayRule \/ FinishReplay \/ PublishReplay
  \/ Finish \/ Restart \/ Done

Spec == Init /\ [][Next]_vars

-----------------------------------------------------------------------------
\* What the passes really do.

Applied(a) == Studies[study].act[a]
Chain(a, b) == IF Applied(a)[Root] = NoModule THEN NoModule ELSE Applied(b)[Applied(a)[Root]]

TrueDynamic(p) ==
  IF NoModule \in {Chain(p[1], p[2]), Chain(p[2], p[1])} THEN "failed"
  ELSE IF Chain(p[1], p[2]) = Chain(p[2], p[1]) THEN "commute" ELSE "order_sensitive"

\* Action a after the merge of the rest of A makes the merge of all of A.
TrulyAuthorized(A, a) ==
  LET output == [b \in A |-> Applied(b)[Root]] IN
    /\ \A b \in A : output[b] # NoModule /\ Patchable(Root, output[b])
    /\ ~ Overlap(Root, output, A)
    /\ MergeOf(Root, output, A \ {a}) \notin Studies[study].broken
    /\ Applied(a)[MergeOf(Root, output, A \ {a})] = MergeOf(Root, output, A)

\* When nothing misbehaves, the study reports the passes as they are: both
\* orders of every pair, the authorised actions of every group and no others;
\* and at its end all its false authorisations are stable.
EvidenceIsTrue ==
  failures = 0 =>
    /\ \A p \in Pairs : pairs[p].dynamic \in {"open", TrueDynamic(p)}
    /\ \A g \in DOMAIN results : \A a \in Groups[g] :
         Authorized(results[g].rows, a) <=> TrulyAuthorized(Groups[g], a)
    /\ phase = "done" =>
         \A g \in DOMAIN results : \A p \in PairsOfGroup(g) :
           FalseAuthorization(g, p) => StableFalseAuthorization(g, p)

\* Whatever misbehaves, fewer than three times (a run of the group and the same
\* run of both replays may go wrong alike): a false authorisation reported as
\* stable is one.  Its action is authorised by the rule, and the two orders of
\* its pair really differ, or really fail.
StableIsReal ==
  failures < 3 =>
    \A g \in DOMAIN results : \A p \in PairsOfGroup(g) :
      StableFalseAuthorization(g, p) =>
        /\ pairs[p].dynamic = TrueDynamic(p)
        /\ \A c \in CasesOf(g, p) : TrulyAuthorized(Groups[g], c[4])
=============================================================================
