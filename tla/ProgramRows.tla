----------------------------- MODULE ProgramRows -----------------------------
(***************************************************************************)
(* The tables of one program of the advisor study, and who reads them.     *)
(* Rows come from two places: the stages that were published, and, for a   *)
(* program that ran out of its wall-time budget, the recovery, which types *)
(* what is missing as timeouts, or as failures where a first run already   *)
(* failed.  Three readers, written apart from the writers, recompute or    *)
(* check them: the program's checkpoint, the raw handoff and the aggregate *)
(* tables.  A row that one of them refuses leaves the study undecided for  *)
(* ever, since the stage that made it is never run again.                  *)
(***************************************************************************)
EXTENDS GroupStudy, FiniteSetsExt

VARIABLE payload      \* the rows of the program, once it is decided

rowVars == <<vars, payload>>
NoPayload == [limited |-> "open"]

-----------------------------------------------------------------------------
\* Rows of the first runs and of the pair matrix.

ProfileRow(stage) ==
  [status |-> stage.status, physical |-> 1,
   activity |-> IF stage.status # "success" THEN "unknown"
                ELSE IF stage.output = Root THEN "no_op" ELSE "active"]
MissingProfile == [status |-> "timeout", physical |-> 0, activity |-> "unknown"]

PairRow(a, b, ab, ba, dynamic) == [a |-> a, b |-> b, ab |-> ab, ba |-> ba, dynamic |-> dynamic]

MeasuredPair(p) ==
  PairRow(profiles[p[1]].status, profiles[p[2]].status, pairs[p].ab.status, pairs[p].ba.status,
          pairs[p].dynamic)

\* Faulty variant: the orders that were never run are not typed.
MissingPairUntyped(a, b) ==
  CASE {a, b} = {"success"}  -> PairRow(a, b, "not_run", "not_run", "timeout")
    [] "timeout" \in {a, b}  -> PairRow(a, b, "not_run", "not_run", "timeout")
    [] OTHER                 -> PairRow(a, b, "not_run", "not_run", "failed")

\* missing_pairs: a known failure of a first run outlives the lost stage.
MissingPair(a, b) ==
  CASE {a, b} = {"success"}  -> PairRow(a, b, "timeout", "timeout", "timeout")
    [] "timeout" \in {a, b}  -> PairRow(a, b, "not_run", "not_run", "timeout")
    [] OTHER                 -> PairRow(a, b, "not_run", "not_run", "failed")

-----------------------------------------------------------------------------
\* Rows of a group: its counts and gates, its directions, its pairs.

Gates(round1, disjoint, merge, run) ==
  [round1 |-> round1, disjoint |-> disjoint, merge |-> merge, second |-> run]

\* The first of the statuses in sought that is among found.
FirstOf(sought, found, else) ==
  IF \E i \in DOMAIN sought : sought[i] \in found
    THEN sought[CHOOSE i \in DOMAIN sought :
                  sought[i] \in found /\ \A j \in 1 .. i - 1 : sought[j] \notin found]
    ELSE else

AllMergeStatus(found) ==
  IF found = {"complete"} THEN "complete"
  ELSE FirstOf(<<"timeout", "merge_invalid", "direct_merge_not_defined">>, found, "unknown")

AllSecondStatus(found) ==
  IF found = {"success"} THEN "complete"
  ELSE IF "timeout" \in found THEN "timeout"
  ELSE IF found \cap {"error", "invalid"} # {} THEN "second_round_failed"
  ELSE "unknown"

\* The gates of a published group.  Its rows do not say whether it was given
\* up for a patch that could not be had, or could not be told, or for an overlap.
MeasuredGates(g) ==
  LET A == Groups[g]
      given == {results[g].rows[a] : a \in A}
      output == [a \in A |-> profiles[a].output]
  IN IF \E a \in A : profiles[a].status = "timeout"
       THEN {Gates("timeout", "unknown", "unknown", "unknown")}
     ELSE IF \E a \in A : profiles[a].status # "success"
       THEN {Gates("round1_precondition_failed", "unknown", "unknown", "unknown")}
     ELSE IF given = {Unavailable("timeout")}
       THEN {Gates("complete", "unknown", "timeout", "unknown")}
     ELSE IF given = {Unavailable("direct_merge_not_defined")}
       THEN {Gates("complete", "unknown", m, "unknown") : m \in
               IF failures > 0 \/ \E a \in A : ~ Patchable(Root, output[a])
                 THEN {"direct_merge_not_defined", "unknown"} ELSE {}}
            \cup (IF Overlap(Root, output, A)
                    THEN {Gates("complete", "overlap", "direct_merge_not_defined", "unknown")}
                    ELSE {})
     ELSE {Gates("complete", "disjoint", AllMergeStatus({r.merge : r \in given}),
                 AllSecondStatus({r.run.status : r \in given}))}

\* missing_two_n.
MissingGates(A, fs) ==
  CASE \A a \in A : fs[a].status = "success" -> Gates("complete", "unknown", "timeout", "timeout")
    [] \E a \in A : fs[a].status = "timeout" -> Gates("timeout", "unknown", "unknown", "unknown")
    [] OTHER -> Gates("round1_precondition_failed", "unknown", "unknown", "unknown")

\* Both writers count alike, but for the failures: here they are named, the
\* recovery takes what is neither a success nor a timeout.
Counts(A, fs, ds, failed) ==
  [successful |-> Quantify(A, LAMBDA a : fs[a].status = "success"),
   active     |-> Quantify(A, LAMBDA a : fs[a].status = "success" /\ fs[a].activity = "active"),
   no_op      |-> Quantify(A, LAMBDA a : fs[a].status = "success" /\ fs[a].activity = "no_op"),
   failed     |-> failed,
   timeout    |-> Quantify(A, LAMBDA a : fs[a].status = "timeout"),
   authorized |-> Quantify(A, LAMBDA a : ds[a].status = "authorized_all_others")]

NamedFailures(A, fs) ==
  Quantify(A, LAMBDA a : fs[a].status \in {"invalid", "error", "unknown", "not_run"})
OtherFailures(A, fs) == Quantify(A, LAMBDA a : fs[a].status \notin {"success", "timeout"})

Direction(status, first, merge, run, physical) ==
  [status |-> status, first |-> first, merge |-> merge, second |-> run, physical |-> physical]

MeasuredDirection(row, first) ==
  Direction(row.direction, first.status, row.merge, row.run.status,
            IF row.run = NotRun THEN 1 ELSE 2)

MissingDirection(gates, first) ==
  Direction(IF gates.round1 = "round1_precondition_failed" THEN gates.round1 ELSE "timeout",
            first.status,
            IF gates.round1 = "complete" THEN "timeout" ELSE "unknown",
            IF gates.round1 = "complete" THEN "timeout" ELSE "not_run", 0)

\* derive_two_n_pair_fields.
PairStatus(left, right) ==
  IF {left, right} = {"authorized_all_others"} THEN "both_directions_authorized"
  ELSE IF "authorized_all_others" \in {left, right} THEN "one_direction_only"
  ELSE IF {left, right} = {"rejected_effect_changed"} THEN "both_rejected"
  ELSE "group_precondition_unavailable"

Validation(left, right, dynamic) ==
  IF "authorized_all_others" \notin {left, right} THEN "unavailable"
  ELSE IF dynamic \in {"order_sensitive", "failed"} THEN "false_authorization"
  ELSE IF dynamic = "commute" THEN "agree"
  ELSE IF dynamic = "timeout" THEN "ground_truth_timeout"
  ELSE "ground_truth_unknown"

Families == {"worker", "external_opt", "two_n"}
NotRequired == [f \in Families |-> "not_required"]

\* _writeback_replay_results: a family's status over the cases of a pair.
WrittenBack(statuses) ==
  [f \in Families |->
     LET found == {s[f] : s \in statuses} IN
       IF found = {"stable"} THEN "stable"
       ELSE FirstOf(<<"nondeterministic", "mismatch", "timeout", "failed", "unavailable">>,
                    found, "unknown")]

ValidationRow(left, right, dynamic, validation, replay) ==
  [left |-> left, right |-> right, relation |-> PairStatus(left, right), dynamic |-> dynamic,
   validation |-> validation, false |-> validation = "false_authorization",
   stable |-> \A f \in Families : replay[f] = "stable", replay |-> replay]

MeasuredValidation(g, p, witnesses) ==
  LET left == results[g].rows[p[1]].direction
      right == results[g].rows[p[2]].direction
  IN ValidationRow(left, right, pairs[p].dynamic, Validation(left, right, pairs[p].dynamic),
                   IF FalseAuthorization(g, p)
                     THEN WrittenBack({witnesses[c] : c \in CasesOf(g, p)}) ELSE NotRequired)

MissingValidation(direction, dynamic) ==
  ValidationRow(direction, direction, dynamic,
                CASE dynamic = "timeout" -> "ground_truth_timeout"
                  [] dynamic = "failed"  -> "ground_truth_failed"
                  [] OTHER               -> "unavailable",
                NotRequired)

\* A directional row counts its first run again: the group row takes it off.
MeasuredGroup(g, gates, fs, witnesses) ==
  LET A == Groups[g]
      ds == [a \in A |-> MeasuredDirection(results[g].rows[a], fs[a])]
  IN [limited |-> FALSE, gates |-> gates, verdict |-> results[g].verdict,
      counts |-> Counts(A, fs, ds, NamedFailures(A, fs)), directions |-> ds,
      pairs |-> [p \in PairsOfGroup(g) |-> MeasuredValidation(g, p, witnesses)],
      physical |-> SumFunction([a \in A |-> ds[a].physical])]

MissingGroup(g, fs, qs) ==
  LET A == Groups[g]
      gates == MissingGates(A, fs)
      ds == [a \in A |-> MissingDirection(gates, fs[a])]
  IN [limited |-> TRUE, gates |-> gates, verdict |-> "group_precondition_unavailable",
      counts |-> Counts(A, fs, ds, OtherFailures(A, fs)), directions |-> ds,
      pairs |-> [p \in PairsOfGroup(g) |-> MissingValidation(ds[p[1]].status, qs[p].dynamic)],
      physical |-> 0]

-----------------------------------------------------------------------------
\* The program is decided: complete, or limited after a charge.

\* How a replay that the recovery has to make may come out.
AllStable == [f \in Families |-> "stable"]
Replayed == {AllStable} \cup {[AllStable EXCEPT ![f] = s] :
                f \in Families, s \in {"failed", "mismatch", "nondeterministic"}}

\* A killed program leaves its published stages only: it is enough to look at
\* it where nothing else is under way.
AtStage == step = "idle" /\ orders = <<>> /\ records = <<>> /\ (phase = "pairs" => pairs = NoPairs)

DecideProgram ==
  /\ payload = NoPayload /\ AtStage
  /\ \E limited \in BOOLEAN, replay \in Replayed :
     \E gates \in [DOMAIN results -> UNION {MeasuredGates(g) : g \in DOMAIN results}] :
       /\ limited \/ phase = "done"
       /\ OpenCases = {} => replay = AllStable
       /\ \A g \in DOMAIN results : gates[g] \in MeasuredGates(g)
       /\ LET fs == [a \in Actions |->
                       IF phase = "profiles" THEN MissingProfile ELSE ProfileRow(profiles[a])]
              qs == [p \in Pairs |->
                       IF phase \in {"profiles", "pairs"}
                         THEN MissingPair(fs[p[1]].status, fs[p[2]].status) ELSE MeasuredPair(p)]
              ws == [c \in DOMAIN replays \cup OpenCases |->
                       IF c \in DOMAIN replays THEN replays[c] ELSE replay]
          IN payload' = [limited |-> limited, profiles |-> fs, pairs |-> qs, witnesses |-> ws,
                         groups |-> [g \in DOMAIN Groups |->
                            IF g \in DOMAIN results THEN MeasuredGroup(g, gates[g], fs, ws)
                                                    ELSE MissingGroup(g, fs, qs)]]
  /\ UNCHANGED vars

RowsInit == Init /\ payload = NoPayload
RowsNext == (payload = NoPayload /\ Next /\ UNCHANGED payload) \/ DecideProgram

-----------------------------------------------------------------------------
\* The readers.

\* _validate_program_checkpoint_payload recomputes the counts, the verdict
\* from the gates and the directions, and the fields of every pair.
ExpectedVerdict(t, A) ==
  LET found == {t.directions[a].status : a \in A} IN
    IF found = {"authorized_all_others"} THEN "authorized"
    ELSE IF {t.gates.merge, t.gates.second} # {"complete"} THEN "group_precondition_unavailable"
    ELSE IF found \subseteq {"authorized_all_others", "rejected_effect_changed"} THEN "rejected"
    ELSE "unknown"

\* The recovery may say of an unavailable pair how its two orders ended.
LimitedValidation(x, row) ==
  /\ x.limited /\ ~ row.false
  /\ {row.left, row.right} \subseteq {"timeout", "round1_precondition_failed"}
  /\ \/ row.dynamic = "timeout" /\ row.validation = "ground_truth_timeout"
     \/ row.dynamic = "failed" /\ row.validation = "ground_truth_failed"

PairIsDerived(x, g, p) ==
  LET row == x.groups[g].pairs[p] IN
    /\ row.left = x.groups[g].directions[p[1]].status
    /\ row.right = x.groups[g].directions[p[2]].status
    /\ row.dynamic = x.pairs[p].dynamic
    /\ row.relation = PairStatus(row.left, row.right)
    /\ row.false = (Validation(row.left, row.right, row.dynamic) = "false_authorization")
    /\ \/ row.validation = Validation(row.left, row.right, row.dynamic)
       \/ LimitedValidation(x, row)

ExpectedCases(x) ==
  {c \in (DOMAIN Groups) \X Actions \X Actions \X Actions :
     /\ <<c[2], c[3]>> \in PairsOfGroup(c[1]) /\ c[4] \in {c[2], c[3]}
     /\ x.groups[c[1]].pairs[<<c[2], c[3]>>].false
     /\ x.groups[c[1]].directions[c[4]].status = "authorized_all_others"}

\* _validate_two_n_pair_replay_writeback: a published row, and what the
\* witnesses of its own cases add to it.
IsWrittenBack(x, g, p) ==
  LET row == x.groups[g].pairs[p]
      own == {c \in ExpectedCases(x) : c[1] = g /\ <<c[2], c[3]>> = p}
  IN row.replay = IF row.false THEN WrittenBack({x.witnesses[c] : c \in own}) ELSE NotRequired

CheckpointAccepts(x) ==
  /\ DOMAIN x.witnesses = ExpectedCases(x)
  /\ \A g \in DOMAIN Groups :
       LET t == x.groups[g]
           A == Groups[g]
       IN /\ t.counts = Counts(A, x.profiles, t.directions, NamedFailures(A, x.profiles))
          /\ t.verdict = ExpectedVerdict(t, A)
          /\ \A p \in PairsOfGroup(g) : PairIsDerived(x, g, p) /\ IsWrittenBack(x, g, p)

\* _validate_raw_coverage: endpoints, orders and result of a pair fit.
HandoffAccepts(x) ==
  \A p \in Pairs :
    LET q == x.pairs[p]
        ordered == {q.ab, q.ba}
    IN /\ q.a = x.profiles[p[1]].status /\ q.b = x.profiles[p[2]].status
       /\ IF {q.a, q.b} = {"success"}
            THEN /\ ordered \subseteq {"success", "error", "timeout", "invalid"}
                 /\ q.dynamic \in IF "timeout" \in ordered THEN {"timeout"}
                                  ELSE IF ordered # {"success"} THEN {"failed"}
                                  ELSE {"commute", "order_sensitive", "unknown"}
            ELSE /\ ordered = {"not_run"}
                 /\ q.dynamic = IF "timeout" \in {q.a, q.b} THEN "timeout" ELSE "failed"

\* The words that each column may hold.
WordsAreKnown(x) ==
  /\ \A a \in Actions :
       /\ x.profiles[a].status \in {"success", "invalid", "error", "timeout"}
       /\ x.profiles[a].activity \in {"active", "no_op", "unknown"}
  /\ \A g \in DOMAIN Groups :
       LET t == x.groups[g] IN
         /\ t.gates.second \in {"complete", "second_round_failed", "timeout", "unknown"}
         /\ t.gates.merge \in MergeStatuses
         /\ \A a \in Groups[g] : t.directions[a].status \in Directions

\* _validate_raw_tables: a false authorisation is stable only if all three
\* families of its replays say so.
AggregateAccepts(x) ==
  /\ WordsAreKnown(x)
  /\ \A g \in DOMAIN Groups : \A p \in PairsOfGroup(g) :
       LET row == x.groups[g].pairs[p] IN
         row.stable => row.false /\ \A f \in Families : row.replay[f] = "stable"

-----------------------------------------------------------------------------
\* The aggregate tables.

\* _two_n_group_failure: the gate that stopped the group, if any.
GroupFailure(t) ==
  IF t.gates.round1 = "timeout" THEN "round1_precondition_timeout"
  ELSE IF t.gates.round1 # "complete" THEN "round1_precondition_failed"
  ELSE IF t.gates.disjoint = "overlap" THEN "overlapping_patch_region"
  ELSE IF t.gates.disjoint # "disjoint" THEN "patch_region_unknown"
  ELSE IF t.gates.merge = "timeout" THEN "direct_merge_timeout"
  ELSE IF t.gates.merge = "merge_invalid" THEN "merged_ir_invalid"
  ELSE IF t.gates.merge # "complete" THEN "direct_merge_undefined"
  ELSE IF t.gates.second = "timeout" THEN "second_round_timeout"
  ELSE IF t.gates.second # "complete" THEN "second_round_failed"
  ELSE IF t.verdict \in {"group_precondition_unavailable", "unknown"}
    THEN "group_authorization_unavailable"
  ELSE ""

\* _pair_failure_kind: the runs that failed, and how the worst of them ended.
Failed == {"timeout", "invalid", "error"}
Worst(found) == FirstOf(<<"timeout", "invalid", "error">>, found, "")
PairFailure(q) ==
  IF {q.a, q.b} \cap Failed # {} THEN <<"first_round", Worst({q.a, q.b})>>
  ELSE IF {q.ab, q.ba} \cap Failed # {} THEN <<"ab_ba", Worst({q.ab, q.ba})>>
  ELSE IF q.dynamic = "unknown" THEN <<"comparator", "uncertainty">>
  ELSE <<"ab_ba", "failed">>

\* The ledger has an entry for a group that was stopped and for a pair of the
\* matrix whose orders were not both compared.
Ledger(x) ==
  {<<"group", g, GroupFailure(x.groups[g])>> :
      g \in {h \in DOMAIN Groups : GroupFailure(x.groups[h]) # ""}}
  \cup {<<"pair", p, PairFailure(x.pairs[p])>> :
          p \in {q \in Pairs : x.pairs[q].dynamic \in {"failed", "timeout", "unknown"}}}

\* Counts of a group that are reported side by side.
Metrics(x, g) ==
  LET t == x.groups[g]
      Directed(s) == Quantify(Groups[g], LAMBDA a : t.directions[a].status \in s)
      Validated(s) == Quantify(PairsOfGroup(g), LAMBDA p : t.pairs[p].validation \in s)
  IN [available   |-> Directed({"authorized_all_others", "rejected_effect_changed"}),
      agreement   |-> Validated({"agree"}),
      false       |-> Validated({"false_authorization"}),
      unavailable |-> Validated({"unavailable", "ground_truth_failed", "ground_truth_timeout",
                                 "ground_truth_unknown", "unknown"})]

\* The gates, of which the funnel counts the programs that passed.
Funnel(t) ==
  <<t.gates.round1 = "complete", t.gates.disjoint = "disjoint", t.gates.merge = "complete",
    t.gates.second = "complete", t.verdict = "authorized">>

\* What study_limitations says of a group; of its directions when they alone
\* could not be merged.
Limitations(t) ==
  {l \in {"round1_precondition", "first_round_overlap", "direct_merge_unavailable",
           "second_round_incomplete"} :
     CASE l = "round1_precondition"     -> t.gates.round1 # "complete"
       [] l = "first_round_overlap"     -> t.gates.disjoint = "overlap"
       [] l = "second_round_incomplete" -> t.gates.second # "complete"
       [] OTHER -> \/ t.gates.merge # "complete"
                   \/ \E a \in DOMAIN t.directions :
                        t.directions[a].status = "direct_merge_not_defined"}

\* _execution_costs: what the group ran beyond the first runs it shares.
SecondRounds(x, g) ==
  LET first == SumFunction([a \in Groups[g] |-> x.profiles[a].physical])
  IN IF x.groups[g].physical > first THEN x.groups[g].physical - first ELSE 0

-----------------------------------------------------------------------------

\* No gate of the funnel is passed without the one before it; a group has no
\* entry in the ledger, no limitation and no unavailable direction exactly when
\* it was decided (a comparison that failed is not among the limitations);
\* every pair is counted in one column; the second rounds charged are those run.
GroupTablesAgree(x) ==
  \A g \in DOMAIN Groups :
    LET t == x.groups[g]
        m == Metrics(x, g)
        decided == t.verdict \in {"authorized", "rejected"}
    IN /\ \A i \in 1 .. 4 : Funnel(t)[i + 1] => Funnel(t)[i]
       /\ decided <=> \A e \in Ledger(x) : <<e[1], e[2]>> # <<"group", g>>
       /\ decided => Limitations(t) = {}
       /\ \/ decided \/ Limitations(t) # {}
          \/ \E a \in Groups[g] : t.directions[a].status \in FatalKinds
       /\ m.agreement + m.false + m.unavailable = Cardinality(PairsOfGroup(g))
       /\ decided <=> m.available = Cardinality(Groups[g])
       /\ SecondRounds(x, g) =
            IF t.limited THEN 0
            ELSE Quantify(Groups[g], LAMBDA a : t.directions[a].second # "not_run")

\* The kind of a pair's entry says what its result was.
PairKindsAgree(x) ==
  \A e \in {f \in Ledger(x) : f[1] = "pair"} :
    LET dynamic == x.pairs[e[2]].dynamic IN
      /\ e[3] # <<"ab_ba", "failed">>
      /\ dynamic = "timeout" <=> e[3][2] = "timeout"
      /\ dynamic = "unknown" <=> e[3][1] = "comparator"

\* The rows of a program pass its checkpoint, the handoff and the aggregate, and
\* the tables made of them agree with what happened.
RowsAreAccepted ==
  /\ CheckpointAccepts(payload)
  /\ HandoffAccepts(payload)
  /\ AggregateAccepts(payload)
  /\ GroupTablesAgree(payload) /\ PairKindsAgree(payload)
=============================================================================
