--------------------------- MODULE GroupEvaluation ---------------------------
(***************************************************************************)
(* evaluate_group_2n of the advisor study: the direct-merge rule that says *)
(* of each action of a group whether it may run after all the others.      *)
(* First every action has run on the root alone (firsts).  If all          *)
(* succeeded and their patches are disjoint, then for each action the      *)
(* outputs of the others are merged, the action runs on the merged module  *)
(* (second), and it is authorised when it does there what it did to the    *)
(* root.  Merging, patches and effects come from a helper process behind   *)
(* DirectMergeClient, which closes itself for good at the first            *)
(* misbehaviour; actions run in a worker, which restarts itself.           *)
(***************************************************************************)
EXTENDS BodyPatch

CONSTANTS
  Actions,          \* action ids in their canonical order: positions from 1
  Studies           \* what passes do to modules and what may go wrong

NoModule == [frame |-> "none"]

(***************************************************************************)
(* A study names the root module, what each action makes of each module    *)
(* (NoModule when the pass fails on it), the merged modules the verifier   *)
(* rejects, wrong outputs that a run may produce when it misbehaves, and   *)
(* how many times anything may misbehave.                                  *)
(***************************************************************************)
Study == [root   : Modules,
          act    : [Actions -> [Modules -> Modules \cup {NoModule}]],
          broken : SUBSET Modules,
          strays : SUBSET Modules,
          budget : Nat]

ASSUME StudyAssumption ==
  /\ Actions \subseteq Nat /\ IsFiniteSet(Actions)
  /\ NoModule \notin Modules
  /\ Studies \in [DOMAIN Studies -> Study]

VARIABLES
  study,            \* the study that runs, an index of Studies
  failures,         \* how many times something misbehaved
  client,           \* DirectMergeClient: "open" or "closed"
  step,             \* where the evaluation stands
  members,          \* the actions of the group
  firsts,           \* their runs on the root
  patched,          \* the actions whose patch has been inspected
  merged,           \* the merged module of the action whose turn it is
  second,           \* its run on that module
  rows,             \* the directional rows
  verdict           \* group_authorization_status

evalVars == <<step, members, firsts, patched, merged, second, rows, verdict>>

-----------------------------------------------------------------------------
\* Runs of a pass.

Stage(status, output) == [status |-> status, output |-> output]
NotRun == Stage("not_run", NoModule)
Successes == {Stage("success", m) : m \in Modules}
Stages == Successes \cup {Stage(s, NoModule) : s \in {"not_run", "error", "timeout", "invalid"}}

Root == Studies[study].root

\* What the compiler makes of module m with action a.
Result(m, a) ==
  IF Studies[study].act[a][m] = NoModule
    THEN Stage("error", NoModule)
    ELSE Stage("success", Studies[study].act[a][m])

\* What a run may report: the result and, as long as something may misbehave, a
\* wrong module or one of the failures.
Reports(m, a, kinds) ==
  {Result(m, a)} \cup
    (IF failures < Studies[study].budget
       THEN {Stage("success", s) : s \in Studies[study].strays} \cup {Stage(k, NoModule) : k \in kinds}
       ELSE {})

\* Runs in the study's worker are checked by opt -passes=verify afterwards; a
\* verifier that fails or times out counts as a rejection.
VerifiedRun == {"error", "timeout", "invalid"}

Charge(m, a, stage) == IF stage = Result(m, a) THEN 0 ELSE 1

Misbehave(n) == failures' = failures + n /\ failures' <= Studies[study].budget

-----------------------------------------------------------------------------
\* Requests to the helper.

\* _two_n_merge_error_status of an exchange that went wrong: a timeout or a
\* malformed answer closes the client, an error reply does not.
FatalKinds == {"timeout", "unknown"}
MergeStatuses == FatalKinds \cup {"complete", "merge_invalid", "direct_merge_not_defined"}

\* A request to a closed client.
ClosedReply == "unknown"

\* The helper's answer to a request whose right answer is right.
Ask(right, reply) ==
  \/ /\ client = "open" /\ reply = right
     /\ UNCHANGED <<client, failures>>
  \/ /\ client = "closed" /\ reply = ClosedReply
     /\ UNCHANGED <<client, failures>>
  \/ /\ client = "open" /\ reply = "direct_merge_not_defined"
     /\ Misbehave(1)
     /\ UNCHANGED client
  \/ /\ client = "open" /\ reply \in FatalKinds
     /\ Misbehave(1)
     /\ client' = "closed"

\* The right answers: inspect_patch finds a patch or none; merge verifies what
\* it built.  compare_effect begins with an inspection of the second run.
InspectAnswer(base, output) ==
  IF Patchable(base, output) THEN "complete" ELSE "direct_merge_not_defined"

MergeAnswer(module) ==
  IF module \in Studies[study].broken THEN "merge_invalid" ELSE "complete"

-----------------------------------------------------------------------------
\* Rows.

Directions == {"authorized_all_others", "rejected_effect_changed", "merge_invalid",
               "direct_merge_not_defined", "second_round_failed",
               "round1_precondition_failed", "timeout", "unknown"}

Row(direction, merge, input, run) ==
  [direction |-> direction, merge |-> merge, input |-> input, run |-> run]
NoRow == Row("open", "unknown", NoModule, NotRun)
Unavailable(direction) == Row(direction, "unknown", NoModule, NotRun)
Rows == [direction : Directions \cup {"open"}, merge : MergeStatuses,
         input : Modules \cup {NoModule}, run : Stages]

NoRows == [a \in Actions |-> NoRow]
NoFirsts == [a \in Actions |-> NotRun]

Authorized(rs, a) == rs[a].direction = "authorized_all_others"

\* The evaluator works through the actions in canonical order.
Next1(S) == CHOOSE a \in S : \A b \in S : a <= b

Outputs == [a \in members |-> firsts[a].output]

NotEvaluated ==
  /\ step' = "idle" /\ members' = {} /\ firsts' = NoFirsts /\ patched' = {}
  /\ merged' = NoModule /\ second' = NotRun /\ rows' = NoRows /\ verdict' = "none"

\* An evaluation of group A begins at s with the runs fs.
Evaluate(A, fs, s) ==
  /\ step = "idle"
  /\ step' = s /\ members' = A /\ firsts' = fs
  /\ patched' = {} /\ merged' = NoModule /\ second' = NotRun
  /\ rows' = NoRows /\ verdict' = "none"

-----------------------------------------------------------------------------
\* First round.

Unprofiled == {a \in members : firsts[a] = NotRun}

\* One action runs on the root; the helper is asked for the effect of a
\* success, and what it answers stays in the row.  lost = 1: it misbehaves.
RunFirst ==
  /\ step = "profile" /\ Unprofiled # {}
  /\ \E stage \in Reports(Root, Next1(Unprofiled), VerifiedRun), lost \in {0, 1} :
       /\ lost = 1 => client = "open" /\ stage.status = "success"
       /\ Misbehave(lost + Charge(Root, Next1(Unprofiled), stage))
       /\ client' = IF lost = 1 THEN "closed" ELSE client
       /\ firsts' = [firsts EXCEPT ![Next1(Unprofiled)] = stage]
  /\ UNCHANGED <<study, step, members, patched, merged, second, rows, verdict>>

\* No row is more than the reason why the group cannot be evaluated.
GiveUp(direction) ==
  /\ rows' = [a \in Actions |-> IF a \in members THEN Unavailable(direction) ELSE NoRow]
  /\ verdict' = "group_precondition_unavailable"
  /\ step' = "reported"

\* A first round that did not succeed throughout.
RefuseFirstRound ==
  /\ step = "gate" /\ \E a \in members : firsts[a].status # "success"
  /\ GiveUp(IF \E a \in members : firsts[a].status = "timeout"
              THEN "timeout" ELSE "round1_precondition_failed")
  /\ UNCHANGED <<study, failures, client, members, firsts, patched, merged, second>>

AcceptFirstRound ==
  /\ step = "gate" /\ \A a \in members : firsts[a].status = "success"
  /\ step' = "inspect"
  /\ UNCHANGED <<study, failures, client, members, firsts, patched, merged, second, rows, verdict>>

\* The first patch that cannot be had ends the evaluation.
Inspect ==
  /\ step = "inspect" /\ patched # members
  /\ LET a == Next1(members \ patched) IN
     \E reply \in MergeStatuses :
       /\ Ask(InspectAnswer(Root, firsts[a].output), reply)
       /\ \/ /\ reply = "complete"
             /\ patched' = patched \cup {a}
             /\ UNCHANGED <<step, rows, verdict>>
          \/ /\ reply # "complete"
             /\ GiveUp(IF reply = "timeout" THEN "timeout" ELSE "direct_merge_not_defined")
             /\ UNCHANGED patched
  /\ UNCHANGED <<study, members, firsts, merged, second>>

CheckOverlap ==
  /\ step = "inspect" /\ patched = members
  /\ \/ /\ Overlap(Root, Outputs, members)
        /\ GiveUp("direct_merge_not_defined")
     \/ /\ ~ Overlap(Root, Outputs, members)
        /\ step' = "merge"
        /\ UNCHANGED <<rows, verdict>>
  /\ UNCHANGED <<study, failures, client, members, firsts, patched, merged, second>>

-----------------------------------------------------------------------------
\* Second round, one action after the other.

Undecided == {a \in members : rows[a] = NoRow}
Turn == Next1(Undecided)

\* The row of the action whose turn it is; the next one may begin.
Decide(row) ==
  /\ rows' = [rows EXCEPT ![Turn] = row]
  /\ merged' = NoModule /\ second' = NotRun
  /\ step' = "merge"

\* Faulty variant: the action itself is merged too.
AllMerged == MergeOf(Root, Outputs, members)

OthersMerged == MergeOf(Root, Outputs, members \ {Turn})

MergeOthers ==
  /\ step = "merge" /\ Undecided # {}
  /\ \E reply \in MergeStatuses :
       /\ Ask(MergeAnswer(OthersMerged), reply)
       /\ \/ /\ reply = "complete"
             /\ merged' = OthersMerged
             /\ step' = "second"
             /\ UNCHANGED <<second, rows>>
          \/ /\ reply # "complete"
             /\ Decide(Row(reply, reply, NoModule, NotRun))
  /\ UNCHANGED <<study, members, firsts, patched, verdict>>

RunSecond ==
  /\ step = "second"
  /\ \E stage \in Reports(merged, Turn, VerifiedRun) :
       /\ Misbehave(Charge(merged, Turn, stage))
       /\ \/ /\ stage.status = "success"
             /\ second' = stage
             /\ step' = "compare"
             /\ UNCHANGED <<merged, rows>>
          \/ /\ stage.status # "success"
             /\ Decide(Row(IF stage.status = "timeout" THEN "timeout" ELSE "second_round_failed",
                           "complete", merged, stage))
  /\ UNCHANGED <<study, client, members, firsts, patched, verdict>>

\* What the comparison, or the failure to compare, makes of the action.
EffectDirection(reply) ==
  CASE reply = "timeout"  -> "timeout"
    [] reply = "complete" ->
         IF SameEffect(Root, firsts[Turn].output, merged, second.output)
           THEN "authorized_all_others" ELSE "rejected_effect_changed"
    [] OTHER              -> "unknown"

CompareEffect ==
  /\ step = "compare"
  /\ \E reply \in MergeStatuses :
       /\ Ask(InspectAnswer(merged, second.output), reply)
       /\ Decide(Row(EffectDirection(reply), "complete", merged, second))
  /\ UNCHANGED <<study, members, firsts, patched, verdict>>

\* _two_n_group_authorization.
GroupVerdict ==
  IF \A a \in members : Authorized(rows, a) THEN "authorized"
  ELSE IF \E a \in members : rows[a].merge # "complete" \/ rows[a].run.status # "success"
    THEN "group_precondition_unavailable"
  ELSE IF \A a \in members : rows[a].direction \in {"authorized_all_others", "rejected_effect_changed"}
    THEN "rejected"
  ELSE "unknown"

FinishGroup ==
  /\ step = "merge" /\ Undecided = {}
  /\ verdict' = GroupVerdict
  /\ step' = "reported"
  /\ UNCHANGED <<study, failures, client, members, firsts, patched, merged, second, rows>>

EvaluationStep ==
  \/ RunFirst \/ RefuseFirstRound \/ AcceptFirstRound \/ Inspect \/ CheckOverlap
  \/ MergeOthers \/ RunSecond \/ CompareEffect \/ FinishGroup

-----------------------------------------------------------------------------

TypeOK ==
  /\ study \in DOMAIN Studies
  /\ failures \in Nat
  /\ client \in {"open", "closed"}
  /\ step \in {"idle", "profile", "gate", "inspect", "merge", "second", "compare", "reported"}
  /\ members \subseteq Actions
  /\ firsts \in [Actions -> Stages]
  /\ patched \subseteq members
  /\ merged \in Modules \cup {NoModule}
  /\ second \in Stages
  /\ rows \in [Actions -> Rows]
  /\ verdict \in {"none", "authorized", "rejected", "unknown", "group_precondition_unavailable"}

\* An authorised action: the whole group ran on the root and changed bodies
\* only, no two in the same function; the action ran on the merge of all the
\* others, and what came out is the merge of the whole group.
AuthorizationIsEarned ==
  \A a \in members : Authorized(rows, a) =>
    /\ \A b \in members : firsts[b].status = "success" /\ Patchable(Root, firsts[b].output)
    /\ ~ Overlap(Root, Outputs, members)
    /\ rows[a].input = MergeOf(Root, Outputs, members \ {a})
    /\ rows[a].run.output = MergeOf(Root, Outputs, members)

\* In a group of two the rule is what it replaces, the test of both orders:
\* each second run starts from the other's output and both end in one module.
\* (In larger groups it is not: two authorised actions may well not commute.)
PairsOfTwoCommute ==
  \A a, b \in members :
    a # b /\ members = {a, b} /\ Authorized(rows, a) /\ Authorized(rows, b) =>
      /\ rows[a].input = firsts[b].output
      /\ rows[b].input = firsts[a].output
      /\ rows[a].run.output = rows[b].run.output
=============================================================================
