-------------------------- MODULE ProgramEvidence --------------------------
(***************************************************************************)
(* One program of the advisor study (advisor_study/orchestration.py,       *)
(* program_runtime.py, cleanup.py): the stages profiles, pairs and two_n   *)
(* are published one after the other, the checkpoint of the program is     *)
(* planned, the outputs that are no evidence of a failure (AB and BA of a  *)
(* pair, or the second round of an action) are moved to quarantine and     *)
(* deleted under a journal, and the checkpoint is complete.                *)
(* The process can die before every write; a later run starts again from   *)
(* what is on disk.  The writer locks of the study keep every other        *)
(* process away, so there is one process at a time.                        *)
(*                                                                         *)
(* A slot is a directory of a stage: its rows (value), the rows it was     *)
(* made from (input; the code keeps a digest) and whether its files still  *)
(* match its completion marker (ok).                                       *)
(***************************************************************************)
EXTENDS Naturals, Sequences, FiniteSets

CONSTANTS
  Outputs,      \* the outputs of each cleanup entry: first the pair, then second rounds
  MaxCrashes,   \* bound: processes that are killed
  MaxFaults,    \* bound: operations of the file system or of a tool that fail
  MaxDamage     \* bound: published stages that stop to match their marker

ASSUME EvidenceAssumption ==
  /\ Outputs \in {<<1..2>>, <<1..2, 3..3>>}
  /\ MaxCrashes \in Nat /\ MaxFaults \in Nat /\ MaxDamage \in Nat

Stages == 1..3
Pairs  == 2
TwoN   == 3
Values == {"success", "commute", "differ", "executed", "witness", "timeout"}
Inputs == UNION {[1..n -> Values] : n \in 0..2}
Absent == [value |-> "absent", input |-> <<>>, ok |-> FALSE]

Entries == DOMAIN Outputs
Files   == UNION {Outputs[e] : e \in Entries}
Entry(f) == CHOOSE e \in Entries : f \in Outputs[e]

VARIABLES
  truth,       \* the pair commutes, or differs, and then 2N may authorise it falsely
  skip,        \* the run control holds a skip of the program
  active,      \* slot of each stage
  backup,      \* slot of each stage that is being replaced
  litter,      \* unpublished staging directories beside each stage
  place,       \* where each output is
  journal,     \* state of each output in the cleanup journal
  checkpoint,  \* the checkpoint that active.json selects
  pc, cur,     \* the process: where it is, on which stage or output
  rows,        \* results of the stages it has read
  decision,    \* skip, as it read it
  outcome,     \* what the cleanup of each entry came to
  crashes, faults, damage

disk    == <<active, backup, litter, place, journal, checkpoint>>
process == <<pc, cur, rows, decision, outcome>>
world   == <<truth, skip, crashes, faults, damage>>
vars    == <<disk, process, world>>

NoCheckpoint ==
  [state |-> "none", rows |-> <<>>, limited |-> FALSE, kept |-> {}]
NoOutcome == [e \in Entries |-> "none"]

Init ==
  /\ truth \in {"commute", "differ", "witness"}
  /\ skip = FALSE
  /\ active = [s \in Stages |-> Absent]
  /\ backup = [s \in Stages |-> Absent]
  /\ litter = [s \in Stages |-> 0]
  /\ place = [f \in Files |-> "original"]
  /\ journal = [f \in Files |-> "original"]
  /\ checkpoint = NoCheckpoint
  /\ pc = "down" /\ cur = 1 /\ rows = <<>> /\ decision = FALSE /\ outcome = NoOutcome
  /\ crashes = 0 /\ faults = 0 /\ damage = 0

-----------------------------------------------------------------------------
(* The process.  What it holds in memory is gone when it ends.             *)

Goto(l, i) == pc' = l /\ cur' = i

Ends(l) == Goto(l, 1) /\ rows' = <<>> /\ decision' = FALSE /\ outcome' = NoOutcome

Fault == faults < MaxFaults /\ faults' = faults + 1

Exists(slot) == slot # Absent
Valid(slot)  == Exists(slot) /\ slot.ok

\* A checkpoint is read only with the result of each stage that it binds...
StagesBound ==
  \A s \in {Pairs, TwoN} :
    Exists(active[s]) /\ active[s].value = checkpoint.rows[s]

\* ... and a complete one with every output it keeps, below its own stage.
OutputsBound == \A k \in checkpoint.kept : k = <<k[1], "original">> /\ place[k[1]] = k[2]

Selected(state) ==
  /\ checkpoint.state = state
  /\ state # "none" => StagesBound
  /\ state = "complete" => OutputsBound

\* Faulty variant: a program that is charged is limited, also if it was planned.
LaunchChargedFirst ==
  /\ pc = "down"
  /\ decision' = skip
  /\ outcome' = NoOutcome
  /\ \/ Selected("complete") /\ Goto("done", 1) /\ rows' = <<>>
     \/ ~skip /\ Selected("planned") /\ Goto("litter", 1) /\ rows' = checkpoint.rows
     \/ (skip \/ checkpoint.state = "none") /\ checkpoint.state # "complete"
        /\ Goto("recover", 1) /\ rows' = <<>>
  /\ UNCHANGED <<disk, world>>

\* The loop of the programs: a complete checkpoint is reused, a planned one is
\* resumed where its cleanup begins, else the program runs under the decision
\* of the run control.
Launch ==
  /\ pc = "down"
  /\ decision' = skip
  /\ outcome' = NoOutcome
  /\ \/ Selected("complete") /\ Goto("done", 1) /\ rows' = <<>>
     \/ Selected("planned") /\ Goto("litter", 1) /\ rows' = checkpoint.rows
     \/ Selected("none") /\ Goto("recover", 1) /\ rows' = <<>>
  /\ UNCHANGED <<disk, world>>

-----------------------------------------------------------------------------
(* Publication of a stage.                                                 *)

\* An old publication was interrupted, and neither slot is usable.
Refused(s) == Exists(backup[s]) /\ ~Valid(backup[s]) /\ ~Valid(active[s])

RecoverRefuses == pc = "recover" /\ Refused(cur) /\ Ends("down") /\ UNCHANGED <<disk, world>>

\* The directory is missing: the publication had moved it away.
RecoverRestores ==
  /\ pc = "recover"
  /\ ~Exists(active[cur]) /\ Valid(backup[cur])
  /\ active' = [active EXCEPT ![cur] = backup[cur]]
  /\ backup' = [backup EXCEPT ![cur] = Absent]
  /\ UNCHANGED <<litter, place, journal, checkpoint, process, world>>

\* An invalid directory makes way for the valid backup.
RecoverOrphans ==
  /\ pc = "recover"
  /\ Exists(active[cur]) /\ ~Valid(active[cur]) /\ Valid(backup[cur])
  /\ active' = [active EXCEPT ![cur] = Absent]
  /\ UNCHANGED <<backup, litter, place, journal, checkpoint, process, world>>

\* The backup of a stage that is valid is deleted, file after file: while this
\* goes on it matches no marker. The tail of a publication does the same.
DropBackup ==
  /\ pc = "recover"
  /\ Valid(active[cur]) /\ Exists(backup[cur])
  /\ backup' = [backup EXCEPT ![cur].ok = FALSE]
  /\ Goto("drop", cur)
  /\ UNCHANGED <<active, litter, place, journal, checkpoint, rows, decision, outcome, world>>

BackupDropped ==
  /\ pc = "drop"
  /\ backup' = [backup EXCEPT ![cur] = Absent]
  /\ Goto("load", cur)
  /\ UNCHANGED <<active, litter, place, journal, checkpoint, rows, decision, outcome, world>>

NothingToRecover ==
  /\ pc = "recover" /\ ~Exists(backup[cur])
  /\ Goto("load", cur)
  /\ UNCHANGED <<disk, rows, decision, outcome, world>>

\* The stage was made from the rows of the stages before it.
Current == Valid(active[cur]) /\ active[cur].input = rows

Reuse ==
  /\ pc = "load" /\ Current
  /\ rows' = Append(rows, active[cur].value)
  /\ IF cur + 1 \in Stages THEN Goto("recover", cur + 1) ELSE Goto("plan", 1)
  /\ UNCHANGED <<disk, decision, outcome, world>>

\* Else its producer writes to a directory of its own.
Stage ==
  /\ pc = "load" /\ ~Current
  /\ litter' = [litter EXCEPT ![cur] = @ + 1]
  /\ Goto("produce", cur)
  /\ UNCHANGED <<active, backup, place, journal, checkpoint, rows, decision, outcome, world>>

StageFails ==
  /\ pc = "produce" /\ Fault
  /\ litter' = [litter EXCEPT ![cur] = @ - 1]
  /\ Ends("down")
  /\ UNCHANGED <<active, backup, place, journal, checkpoint, truth, skip, crashes, damage>>

\* The producers of a run.
Executed ==
  <<"success",
    IF truth = "commute" THEN "commute" ELSE "differ",
    IF truth = "witness" THEN "witness" ELSE "executed">>

\* Those of a recovery, which type what is missing.
Missing == <<"timeout", "timeout", "timeout">>

Rows(s) == IF decision THEN Missing[s] ELSE Executed[s]

\* Faulty variant: the old directory is removed first.
RemoveOld ==
  /\ pc = "produce"
  /\ active' = [active EXCEPT ![cur] = Absent]
  /\ Goto("publish", cur)
  /\ UNCHANGED <<backup, litter, place, journal, checkpoint, rows, decision, outcome, world>>

\* The old directory becomes the backup...
MoveOld ==
  /\ pc = "produce"
  /\ active' = [active EXCEPT ![cur] = Absent]
  /\ backup' = [backup EXCEPT ![cur] = active[cur]]
  /\ Goto("publish", cur)
  /\ UNCHANGED <<litter, place, journal, checkpoint, rows, decision, outcome, world>>

\* ... and the new one takes its place.
MoveNew ==
  /\ pc = "publish"
  /\ active' = [active EXCEPT ![cur] = [value |-> Rows(cur), input |-> rows, ok |-> TRUE]]
  /\ litter' = [litter EXCEPT ![cur] = @ - 1]
  /\ Goto("recover", cur)
  /\ UNCHANGED <<backup, place, journal, checkpoint, rows, decision, outcome, world>>

\* The rename fails: the old directory comes back.
MoveNewFails ==
  /\ pc = "publish" /\ Fault
  /\ active' = [active EXCEPT ![cur] = backup[cur]]
  /\ backup' = [backup EXCEPT ![cur] = Absent]
  /\ litter' = [litter EXCEPT ![cur] = @ - 1]
  /\ Ends("down")
  /\ UNCHANGED <<place, journal, checkpoint, truth, skip, crashes, damage>>

-----------------------------------------------------------------------------
(* From the plan to the complete checkpoint.                               *)

Planned ==
  [NoCheckpoint EXCEPT !.state = "planned", !.rows = rows, !.limited = decision]

\* An immutable version is written, then the pointer selects it.
PublishCheckpoint(c) == checkpoint' = c

\* The stages that the checkpoint binds have to be valid.
PublishPlan ==
  /\ pc = "plan"
  /\ Valid(active[Pairs]) /\ Valid(active[TwoN])
  /\ PublishCheckpoint(Planned)
  /\ Goto("litter", 1)
  /\ UNCHANGED <<active, backup, litter, place, journal, rows, decision, outcome, world>>

\* Outputs of a pair that commutes, and of a second round that is not part of a
\* false authorization. What has timed out has no outputs.
Reclaimable(e) ==
  IF e = 1 THEN checkpoint.rows[Pairs] = "commute" ELSE checkpoint.rows[TwoN] = "executed"
Materialized(e) == checkpoint.rows[IF e = 1 THEN Pairs ELSE TwoN] # "timeout"

First(e) == CHOOSE f \in Outputs[e] : \A g \in Outputs[e] : f <= g

\* The next entry of the cleanup with something to reclaim; the others are retained.
NextEntry(after, done) ==
  LET rest == {e \in Entries : e > after /\ Reclaimable(e)}
      next == CHOOSE e \in rest : \A d \in rest : e <= d
  IN /\ IF rest = {} THEN Goto("close", 1) ELSE Goto("reconcile", First(next))
     /\ outcome' = [e \in Entries |->
          IF outcome[e] # "none" THEN outcome[e]
          ELSE IF e = after THEN done
          ELSE IF e > after /\ ~Reclaimable(e) THEN "retained" ELSE "none"]

Unpublished(s) == litter[s] > 0

\* What killed runs left beside the stages is removed, one directory at a time.
ClearLitter ==
  /\ pc = "litter"
  /\ \/ \E s \in Stages :
          /\ Unpublished(s) /\ \A t \in 1..(s - 1) : ~Unpublished(t)
          /\ litter' = [litter EXCEPT ![s] = @ - 1]
          /\ UNCHANGED <<pc, cur, outcome>>
     \/ /\ \A s \in Stages : ~Unpublished(s)
        /\ NextEntry(0, "none")
        /\ UNCHANGED litter
  /\ UNCHANGED <<active, backup, place, journal, checkpoint, rows, decision, world>>

\* The next output of the entry in this loop, or the first one in the next loop.
Siblings == Outputs[Entry(cur)]
Continue(loop, next) ==
  IF cur + 1 \in Siblings THEN Goto(loop, cur + 1) ELSE Goto(next, First(Entry(cur)))

Note(state) == journal' = [journal EXCEPT ![cur] = state]

cleanup_frame == <<backup, litter, checkpoint, rows, decision>>

\* Faulty variant: a deletion that was only prepared does not count.
ReconcileDeleted ==
  /\ pc = "reconcile"
  /\ \/ place[cur] = "quarantine" /\ Note("quarantined")
     \/ place[cur] = "original" /\ UNCHANGED journal
     \/ place[cur] = "gone" /\ journal[cur] = "deleted" /\ UNCHANGED journal
  /\ Continue("reconcile", "move")
  /\ UNCHANGED <<active, place, outcome, cleanup_frame, world>>

\* The first loop brings the journal in line with where the outputs are. An
\* output that is nowhere was deleted if the journal says that it would be; the
\* code gives up on one without that record, which OutputsAreSafe excludes.
Reconcile ==
  /\ pc = "reconcile"
  /\ \/ place[cur] = "quarantine" /\ Note("quarantined")
     \/ place[cur] = "original" /\ UNCHANGED journal
     \/ place[cur] = "gone" /\ journal[cur] \in {"delete_prepared", "deleted"} /\ Note("deleted")
  /\ Continue("reconcile", "move")
  /\ UNCHANGED <<active, place, outcome, cleanup_frame, world>>

PrepareMove ==
  /\ pc = "move"
  /\ IF place[cur] = "original"
     THEN Note("move_prepared") /\ Goto("moving", cur)
     ELSE Continue("move", "delete") /\ UNCHANGED journal
  /\ UNCHANGED <<active, place, outcome, cleanup_frame, world>>

\* The stage no longer matches its marker.
Move ==
  /\ pc = "moving"
  /\ place' = [place EXCEPT ![cur] = "quarantine"]
  /\ active' = [active EXCEPT ![IF Entry(cur) = 1 THEN Pairs ELSE TwoN].ok = FALSE]
  /\ Goto("moved", cur)
  /\ UNCHANGED <<journal, outcome, cleanup_frame, world>>

MoveFails ==
  /\ pc = "moving" /\ Fault
  /\ Note("retained")
  /\ NextEntry(Entry(cur), "retained")
  /\ UNCHANGED <<active, place, cleanup_frame, truth, skip, crashes, damage>>

NoteMove ==
  /\ pc = "moved"
  /\ Note("quarantined")
  /\ Continue("move", "delete")
  /\ UNCHANGED <<active, place, outcome, cleanup_frame, world>>

AfterDelete ==
  IF cur + 1 \in Siblings THEN Goto("delete", cur + 1) /\ UNCHANGED outcome
                          ELSE NextEntry(Entry(cur), "reclaimed")

\* Faulty variant: nothing is noted before a deletion.
PrepareDeleteUnnoted ==
  /\ pc = "delete"
  /\ IF place[cur] = "gone" THEN AfterDelete ELSE Goto("deleting", cur) /\ UNCHANGED outcome
  /\ UNCHANGED <<active, place, journal, cleanup_frame, world>>

PrepareDelete ==
  /\ pc = "delete"
  /\ IF place[cur] = "gone"
     THEN AfterDelete /\ UNCHANGED journal
     ELSE Note("delete_prepared") /\ Goto("deleting", cur) /\ UNCHANGED outcome
  /\ UNCHANGED <<active, place, cleanup_frame, world>>

Delete ==
  /\ pc = "deleting"
  /\ place' = [place EXCEPT ![cur] = "gone"]
  /\ Goto("deleted", cur)
  /\ UNCHANGED <<active, journal, outcome, cleanup_frame, world>>

\* A pair that is deleted in part stays with the planned checkpoint.
DeleteFails ==
  /\ pc = "deleting" /\ Fault
  /\ IF \E f \in Siblings : place[f] = "gone"
     THEN Ends("down") /\ UNCHANGED journal
     ELSE Note("retained") /\ NextEntry(Entry(cur), "retained") /\ UNCHANGED <<rows, decision>>
  /\ UNCHANGED <<active, place, backup, litter, checkpoint, truth, skip, crashes, damage>>

NoteDelete ==
  /\ pc = "deleted"
  /\ Note("deleted")
  /\ AfterDelete
  /\ UNCHANGED <<active, place, cleanup_frame, world>>

Resolved == \A f \in Files : journal[f] \in {"original", "retained", "deleted"}

\* The outputs of the entries that are not reclaimed, each at its place.
Kept ==
  {<<f, place[f]>> : f \in {g \in Files : Materialized(Entry(g)) /\ outcome[Entry(g)] = "retained"}}

\* An output is in between, or kept in quarantine: the plan stays for a later run.
CloseFails ==
  /\ pc = "close" /\ ~(Resolved /\ \A k \in Kept : k[2] = "original")
  /\ Ends("down")
  /\ UNCHANGED <<disk, world>>

\* The checkpoint names the outputs it keeps.
PublishComplete ==
  /\ pc = "close" /\ Resolved
  /\ \A k \in Kept : k[2] = "original"
  /\ PublishCheckpoint([checkpoint EXCEPT !.state = "complete", !.kept = Kept])
  /\ Ends("done")
  /\ UNCHANGED <<active, backup, litter, place, journal, world>>

-----------------------------------------------------------------------------
(* What happens to the process and to the disk from outside.               *)

Crash ==
  /\ pc \notin {"down", "done"}
  /\ crashes < MaxCrashes /\ crashes' = crashes + 1
  /\ Ends("down")
  /\ UNCHANGED <<disk, truth, skip, faults, damage>>

\* The supervisor has killed the process and charges the program.
Charge ==
  /\ pc = "down" /\ crashes > 0 /\ ~skip
  /\ skip' = TRUE
  /\ UNCHANGED <<disk, process, truth, crashes, faults, damage>>

\* Between two runs the files of a stage change, or the code raises the
\* revision that its marker must have.
Spoil(s) ==
  /\ pc = "down" /\ checkpoint.state = "none" /\ Valid(active[s])
  /\ damage < MaxDamage /\ damage' = damage + 1
  /\ active' = [active EXCEPT ![s].ok = FALSE]
  /\ UNCHANGED <<backup, litter, place, journal, checkpoint, process, truth, skip, crashes, faults>>

Publication ==
  \/ RecoverRefuses \/ RecoverRestores \/ RecoverOrphans
  \/ DropBackup \/ BackupDropped \/ NothingToRecover
  \/ Reuse \/ Stage \/ MoveOld \/ MoveNew

Cleanup ==
  \/ PublishPlan \/ ClearLitter
  \/ Reconcile
  \/ PrepareMove \/ Move \/ NoteMove
  \/ PrepareDelete \/ Delete \/ NoteDelete
  \/ CloseFails \/ PublishComplete

Failure == StageFails \/ MoveNewFails \/ MoveFails \/ DeleteFails

Run == Launch \/ Publication \/ Cleanup

Next == Run \/ Failure \/ Crash \/ Charge \/ \E s \in Stages : Spoil(s)

\* A run goes on, and somebody starts another one until the program is done.
Spec == Init /\ [][Next]_vars /\ WF_vars(Run)

-----------------------------------------------------------------------------

\* The variables have the values the code can give them.
TypeOK ==
  LET Slot == {Absent} \cup
              [value : Values, input : Inputs, ok : BOOLEAN]
  IN /\ truth \in {"commute", "differ", "witness"} /\ skip \in BOOLEAN
     /\ active \in [Stages -> Slot] /\ backup \in [Stages -> Slot]
     /\ litter \in [Stages -> 0..(MaxCrashes + 1)]
     /\ place \in [Files -> {"original", "quarantine", "gone"}]
     /\ journal \in [Files -> {"original", "move_prepared", "quarantined",
                               "delete_prepared", "deleted", "retained"}]
     /\ checkpoint.state \in {"none", "planned", "complete"}
     /\ checkpoint.limited \in BOOLEAN
     /\ pc \in {"down", "done", "recover", "drop", "load", "produce", "publish", "plan",
                "litter", "reconcile", "move", "moving", "moved",
                "delete", "deleting", "deleted", "close"}
     /\ cur \in Stages
     /\ decision \in BOOLEAN /\ outcome \in [Entries -> {"none", "reclaimed", "retained"}]
     /\ crashes \in 0..MaxCrashes /\ faults \in 0..MaxFaults /\ damage \in 0..MaxDamage

\* Nothing is moved before a plan that names it is durable, the outputs of a
\* pair that is a witness are never moved, and an output that is nowhere has a
\* journal that says so: finalize_program_evidence and _quarantine_then_delete.
OutputsAreSafe ==
  \A f \in Files :
    /\ place[f] # "original" =>
         /\ checkpoint.state # "none"
         /\ IF Entry(f) = 1 THEN truth = "commute" ELSE truth # "witness"
    /\ place[f] = "gone" => journal[f] \in {"delete_prepared", "deleted"}

\* The complete checkpoint keeps just the outputs that are there, never half a
\* pair, and can be read again; and neither a half publication nor a staging
\* directory is left beside it, whatever killed the runs before:
\* _build_materialized_artifact_bindings, cleanup_journals_resolved and
\* _complete_unpublished_staging_cleanup.
CompleteIsTrue ==
  checkpoint.state = "complete" =>
    /\ Selected("complete")
    /\ \A e \in Entries : Materialized(e) =>
         \/ \A f \in Outputs[e] : <<f, "original">> \in checkpoint.kept
         \/ \A f \in Outputs[e] : place[f] = "gone"
    /\ \A s \in Stages : litter[s] = 0 /\ ~Exists(backup[s])

\* No evidence is lost, and none is half deleted, whatever kills the runs: the
\* two parts above, of finalize_program_evidence and _quarantine_then_delete, in a
\* well-typed state.
EvidenceIsSafe == TypeOK /\ OutputsAreSafe /\ CompleteIsTrue

\* The result of the program is decided once, by the plan, and a limited one
\* only if the program was charged: whatever is killed, the checkpoint keeps the
\* promise of ProgramCheckpoint (finalize_program_evidence).
Promise == INSTANCE ProgramCheckpoint WITH
  Programs <- {1},
  charged  <- IF skip THEN {1} ELSE {},
  state    <- [p \in {1} |-> checkpoint.state],
  limited  <- IF checkpoint.limited THEN {1} ELSE {}

KeepsPromise == Promise!Spec

\* The evidence of a stage that a run can still use. From the plan on it is in
\* the checkpoint.
Nothing == [value |-> "nothing", input |-> <<>>]
Usable(s) ==
  LET slot == IF Valid(active[s]) THEN active[s] ELSE backup[s]
  IN IF checkpoint.state # "none"
     THEN [value |-> checkpoint.rows[s], input |-> SubSeq(checkpoint.rows, 1, s - 1)]
     ELSE IF Valid(slot) THEN [value |-> slot.value, input |-> slot.input]
     ELSE Nothing

\* Every stage looks as if it were published by one atomic write, wherever the
\* process is killed between its renames: _run_or_reuse_stage and
\* _recover_stage_publication.
Durable == INSTANCE DurableStage WITH
  kept    <- [s \in Stages |-> Usable(s)],
  damaged <- damage

StagesAreDurable == Durable!Spec

\* The program gets its complete checkpoint, unless a recovery refuses a stage:
\* no fault, crash or charge leaves a plan that no later run can finish.
RunsEnd == <>(pc = "done" \/ \E s \in Stages : Refused(s))

=============================================================================
