--------------------------- MODULE RunControlProofs ---------------------------
(***************************************************************************)
(* What killed, repeated and competing commands of a study cannot break.   *)
(*                                                                         *)
(* In one program, for any number of killed processes, of faults and of    *)
(* damaged stages: the outputs of a program are moved and deleted only     *)
(* under its plan and its journal, the complete checkpoint is true, the    *)
(* result is decided once, and a stage is published as if by one atomic    *)
(* write.                                                                  *)
(*                                                                         *)
(* In a whole study, for any number of programs, versions, supervisors,    *)
(* summaries and deaths: the evidence is of the frozen inputs, progress,   *)
(* handoff and success say what the checkpoints say, a lone summary swaps  *)
(* both of its directories or none, and results are decided once.          *)
(***************************************************************************)
EXTENDS ProgramEvidence, StudySummary, TLAPS

-----------------------------------------------------------------------------
(* The inductive invariant.                                                *)

\* The process publishes stages; it works on outputs; it cleans up.
Publishing == {"recover", "drop", "load", "produce", "publish"}
Staging    == {"produce", "publish"}
Loops      == {"reconcile", "move", "moving", "moved", "delete", "deleting", "deleted"}
Deleting   == {"delete", "deleting", "deleted"}
Cleaning   == Loops \cup {"litter", "close"}

\* A producer writes what the pair is, or a recovery that it is missing.
Made(s) == {Executed[s], Missing[s]}
MadeSlot(s) == {Absent} \cup [value : Made(s), input : Inputs, ok : BOOLEAN]

SlotsAreMade ==
  \A s \in Stages : active[s] \in MadeSlot(s) /\ backup[s] \in MadeSlot(s)

\* A staging directory is left for each killed process, and one is in use.
InUse(s) == IF pc \in Staging /\ cur = s THEN 1 ELSE 0
StagingIsCounted ==
  \A s \in Stages : litter[s] \in Nat /\ litter[s] >= InUse(s) /\ litter[s] <= crashes + InUse(s)

\* What the process has read, up to the stage it is at, is what is published.
Read == IF pc = "plan" THEN 3 ELSE cur - 1
RowsAreRead ==
  pc \in Publishing \cup {"plan"} =>
    /\ rows \in Seq(Values) /\ Len(rows) = Read
    /\ \A s \in 1..Read :
         /\ active[s] # Absent /\ active[s].ok
         /\ active[s].value = rows[s]
         /\ active[s].input = SubSeq(rows, 1, s - 1)
         /\ backup[s] = Absent

\* The renames of a publication.
RenamesAreOrdered ==
  /\ pc = "drop" => active[cur] # Absent /\ active[cur].ok
  /\ pc \in {"load", "produce"} => backup[cur] = Absent
  /\ pc = "produce" => ~Current
  /\ pc = "publish" => active[cur] = Absent /\ (backup[cur].ok => backup[cur].input # rows)

\* Where the process can be under which checkpoint, and under which decision.
PhasesAreOrdered ==
  /\ pc \in Publishing \cup {"plan"} => checkpoint.state = "none"
  /\ pc \in Cleaning => checkpoint.state = "planned"
  /\ pc \notin {"down", "done"} => decision = skip

\* The checkpoint binds the stages, and they stay.
PlanIsBound ==
  /\ checkpoint.state = "none" => checkpoint = NoCheckpoint
  /\ checkpoint.state # "none" =>
       /\ checkpoint \in [state : {"planned", "complete"}, rows : [Stages -> Values],
                          limited : BOOLEAN, kept : SUBSET (Files \X {"original"})]
       /\ \A s \in Stages :
            /\ checkpoint.rows[s] \in Made(s)
            /\ active[s] # Absent /\ active[s].value = checkpoint.rows[s]
            /\ backup[s] = Absent

\* Outputs are moved under the plan, and deleted under the journal.
OutputsAreBound ==
  \A f \in Files :
    /\ place[f] # "original" => checkpoint.state # "none" /\ Reclaimable(Entry(f))
    /\ place[f] = "gone" => journal[f] \in {"delete_prepared", "deleted"}

\* The loops of the cleanup.
LoopsAreOrdered ==
  /\ pc \in Loops => cur \in Files /\ Reclaimable(Entry(cur))
  /\ pc \in Loops \cup {"close"} => \A s \in Stages : litter[s] = 0
  /\ pc = "moving" => place[cur] = "original"
  /\ pc = "moved" => place[cur] = "quarantine"
  /\ pc = "deleting" => journal[cur] = "delete_prepared"
  /\ pc = "deleted" => place[cur] = "gone"
  /\ pc \in Deleting => \A f \in Outputs[Entry(cur)] : f < cur => place[f] = "gone"

\* What the cleanup of the entries came to.
OutcomesAreTrue ==
  /\ pc \in Publishing \cup {"plan", "litter"} => outcome = NoOutcome
  /\ pc \in Loops => \A e \in Entries :
       /\ e < Entry(cur) => outcome[e] # "none"
       /\ e >= Entry(cur) /\ Reclaimable(e) => outcome[e] = "none"
  /\ pc = "close" => \A e \in Entries : outcome[e] # "none"
  /\ \A e \in Entries : outcome[e] = "reclaimed" => \A f \in Outputs[e] : place[f] = "gone"

\* The complete checkpoint.
CompleteIsBound ==
  checkpoint.state = "complete" =>
    /\ \A s \in Stages : litter[s] = 0
    /\ \A k \in checkpoint.kept : place[k[1]] = "original"
    /\ \A e \in Entries : Materialized(e) =>
         \/ \A f \in Outputs[e] : <<f, "original">> \in checkpoint.kept
         \/ \A f \in Outputs[e] : place[f] = "gone"

EvidenceInvariant ==
  /\ TypeOK
  /\ SlotsAreMade /\ StagingIsCounted /\ RowsAreRead /\ RenamesAreOrdered
  /\ PhasesAreOrdered /\ PlanIsBound /\ OutputsAreBound
  /\ LoopsAreOrdered /\ OutcomesAreTrue /\ CompleteIsBound

-----------------------------------------------------------------------------
(* The entries and their outputs.                                          *)

\* Which outputs each entry has.
LEMMA OutputsAre ==
  /\ 1 \in Entries /\ Outputs[1] = {1, 2}
  /\ \/ Entries = {1} /\ Files = {1, 2}
     \/ Entries = {1, 2} /\ Outputs[2] = {3} /\ Files = {1, 2, 3}
<1>1. 1..2 = {1, 2} /\ 3..3 = {3}
  OBVIOUS
<1>2. CASE Outputs = <<1..2>>
  <2>1. Entries = {1} /\ Outputs[1] = {1, 2}
    BY <1>1, <1>2 DEF Entries
  <2> QED BY <2>1 DEF Files
<1>3. CASE Outputs = <<1..2, 3..3>>
  <2>1. Entries = {1, 2} /\ Outputs[1] = {1, 2} /\ Outputs[2] = {3}
    BY <1>1, <1>3 DEF Entries
  <2> QED BY <2>1 DEF Files
<1> QED BY <1>2, <1>3, EvidenceAssumption

\* The entry of an output, and the first output of an entry.
LEMMA EntryIs ==
  /\ Entry(1) = 1 /\ Entry(2) = 1 /\ First(1) = 1
  /\ 2 \in Entries => Entry(3) = 2 /\ First(2) = 3
<1>1. Entry(1) = 1 /\ Entry(2) = 1
  BY OutputsAre DEF Entry
<1>2. First(1) = 1
  BY OutputsAre DEF First
<1>3. ASSUME 2 \in Entries PROVE Entry(3) = 2 /\ First(2) = 3
  BY <1>3, OutputsAre DEF Entry, First
<1> QED BY <1>1, <1>2, <1>3

\* The process goes on with the next entry that has something to reclaim, or closes.
LEMMA NextEntryIs ==
  ASSUME NEW after \in {0, 1, 2}, NEW done, NextEntry(after, done)
  PROVE  \/ /\ pc' = "close" /\ cur' = 1
            /\ \A e \in Entries : e > after => ~Reclaimable(e)
         \/ /\ pc' = "reconcile" /\ cur' \in Files /\ cur' = First(Entry(cur'))
            /\ Entry(cur') > after /\ Reclaimable(Entry(cur'))
            /\ \A e \in Entries : e > after /\ e < Entry(cur') => ~Reclaimable(e)
<1> DEFINE rest == {e \in Entries : e > after /\ Reclaimable(e)}
<1> DEFINE next == CHOOSE e \in rest : \A d \in rest : e <= d
<1>1. CASE rest = {}
  BY <1>1 DEF NextEntry, Goto
<1>2. CASE rest # {}
  <2>1. pc' = "reconcile" /\ cur' = First(next)
    BY <1>2 DEF NextEntry, Goto
  <2>2. \E e \in rest : \A d \in rest : e <= d
    BY <1>2, OutputsAre
  <2>3. next \in rest /\ \A d \in rest : next <= d
    BY <2>2
  <2>4. cur' \in Files /\ Entry(cur') = next
    BY <2>1, <2>3, OutputsAre, EntryIs
  <2> QED BY <2>1, <2>3, <2>4, OutputsAre
<1> QED BY <1>1, <1>2

\* The outcomes that NextEntry leaves.
LEMMA NextOutcomesAre ==
  ASSUME NEW after \in {0, 1, 2}, NEW done, NextEntry(after, done)
  PROVE  /\ outcome' = [e \in Entries |-> outcome'[e]]
         /\ \A e \in Entries : outcome'[e] =
              IF outcome[e] # "none" THEN outcome[e]
              ELSE IF e = after THEN done
              ELSE IF e > after /\ ~Reclaimable(e) THEN "retained" ELSE "none"
BY DEF NextEntry

-----------------------------------------------------------------------------
(* The invariant holds, part by part.                                      *)

LEMMA InitSafe == Init => EvidenceInvariant
<1> SUFFICES ASSUME Init PROVE EvidenceInvariant
  OBVIOUS
<1> USE DEF Init
<1>1. TypeOK
  <2>1. 0 \in 0..(MaxCrashes + 1) /\ 0 \in 0..MaxCrashes /\ 0 \in 0..MaxFaults /\ 0 \in 0..MaxDamage
    BY EvidenceAssumption
  <2>2. checkpoint.state = "none" /\ checkpoint.limited = FALSE
    BY DEF NoCheckpoint
  <2>3. cur \in Stages
    BY DEF Stages
  <2> QED BY <2>1, <2>2, <2>3 DEF TypeOK, NoOutcome
<1>2. SlotsAreMade /\ RowsAreRead /\ RenamesAreOrdered /\ PhasesAreOrdered
  BY DEF SlotsAreMade, MadeSlot, RowsAreRead, RenamesAreOrdered, PhasesAreOrdered,
         Publishing, Cleaning, Loops
<1>3. StagingIsCounted
  BY DEF StagingIsCounted, InUse, Staging
<1>4. PlanIsBound /\ OutputsAreBound /\ CompleteIsBound
  BY DEF PlanIsBound, OutputsAreBound, CompleteIsBound, NoCheckpoint
<1>5. LoopsAreOrdered /\ OutcomesAreTrue
  BY DEF LoopsAreOrdered, OutcomesAreTrue, Publishing, Loops, Deleting, NoOutcome
<1> QED BY <1>1, <1>2, <1>3, <1>4, <1>5 DEF EvidenceInvariant

\* The output that a loop of the cleanup is at, and its entry.
LEMMA AtAnOutput ==
  ASSUME EvidenceInvariant, pc \in Loops
  PROVE  /\ cur \in Files /\ Entry(cur) \in Entries /\ Entry(cur) \in {0, 1, 2}
         /\ cur \in Outputs[Entry(cur)] /\ Outputs[Entry(cur)] \subseteq Files
         /\ Reclaimable(Entry(cur))
<1>1. cur \in Files /\ Reclaimable(Entry(cur))
  BY DEF EvidenceInvariant, LoopsAreOrdered
<1> QED BY <1>1, OutputsAre, EntryIs

\* What the steps do to the world and to the checkpoint.
LEMMA StepMoves ==
  ASSUME [Next]_vars
  PROVE  /\ truth' = truth /\ skip' \in {skip, TRUE}
         /\ crashes' = crashes \/ (crashes < MaxCrashes /\ crashes' = crashes + 1)
         /\ faults' = faults \/ (faults < MaxFaults /\ faults' = faults + 1)
         /\ damage' = damage \/ (damage < MaxDamage /\ damage' = damage + 1)
         /\ checkpoint.state # "none" => damage' = damage
         /\ \/ checkpoint' = checkpoint
            \/ PublishPlan /\ skip' = skip
            \/ PublishComplete /\ skip' = skip
         /\ pc \in {"down", "done"} => place' = place /\ litter' = litter
<1> USE DEF Next, vars, disk, process, world, Run, Publication, Cleanup, Failure, cleanup_frame, Fault,
  Launch, RecoverRefuses, RecoverRestores, RecoverOrphans, DropBackup, BackupDropped,
  NothingToRecover, Reuse, Stage, MoveOld, MoveNew, PublishPlan, ClearLitter, Reconcile,
  PrepareMove, Move, NoteMove, PrepareDelete, Delete, NoteDelete, CloseFails,
  PublishComplete, StageFails, MoveNewFails, MoveFails, DeleteFails, Crash, Charge, Spoil
<1>1. truth' = truth /\ skip' \in {skip, TRUE}
  OBVIOUS
<1>2. /\ crashes' = crashes \/ (crashes < MaxCrashes /\ crashes' = crashes + 1)
      /\ faults' = faults \/ (faults < MaxFaults /\ faults' = faults + 1)
      /\ damage' = damage \/ (damage < MaxDamage /\ damage' = damage + 1)
  OBVIOUS
<1>3. checkpoint.state # "none" => damage' = damage
  OBVIOUS
<1>4. \/ checkpoint' = checkpoint
      \/ PublishPlan /\ skip' = skip
      \/ PublishComplete /\ skip' = skip
  OBVIOUS
<1>5. pc \in {"down", "done"} => place' = place /\ litter' = litter
  OBVIOUS
<1> QED BY <1>1, <1>2, <1>3, <1>4, <1>5

\* A slot whose files stop to match their marker is still what was made.
LEMMA SpoiledSlot ==
  ASSUME NEW s \in Stages, NEW slot \in MadeSlot(s), slot # Absent
  PROVE  [slot EXCEPT !.ok = FALSE] \in MadeSlot(s)
BY DEF MadeSlot

\* A sequence is a function on its positions.
LEMMA SequenceIsFunction ==
  ASSUME NEW V, NEW q \in Seq(V)
  PROVE  q \in [1..Len(q) -> V]
OBVIOUS

\* The rows that a producer starts from.
LEMMA RowsAreInputs ==
  ASSUME EvidenceInvariant, pc \in Publishing
  PROVE  rows \in Inputs
<1>1. cur \in 1..3
  BY DEF EvidenceInvariant, TypeOK, Stages
<1>2. cur - 1 \in 0..2 /\ rows \in Seq(Values) /\ Len(rows) = cur - 1
  BY <1>1 DEF EvidenceInvariant, RowsAreRead, Read, Publishing
<1>3. rows \in [1..(cur - 1) -> Values]
  BY <1>2
<1> QED BY <1>2, <1>3 DEF Inputs

\* Slots hold what was made.
LEMMA SlotsStep == EvidenceInvariant /\ [Next]_vars => SlotsAreMade'
<1> SUFFICES ASSUME EvidenceInvariant, [Next]_vars PROVE SlotsAreMade'
  OBVIOUS
<1>1. /\ active \in [Stages -> {Absent} \cup [value : Values, input : Inputs, ok : BOOLEAN]]
      /\ backup \in [Stages -> {Absent} \cup [value : Values, input : Inputs, ok : BOOLEAN]]
      /\ cur \in Stages /\ decision \in BOOLEAN
      /\ \A s \in Stages : active[s] \in MadeSlot(s) /\ backup[s] \in MadeSlot(s)
  BY DEF EvidenceInvariant, TypeOK, SlotsAreMade
<1>2. truth' = truth
  BY StepMoves
<1>3. \A s \in Stages : MadeSlot(s)' = MadeSlot(s) /\ Absent \in MadeSlot(s)
  BY <1>2 DEF MadeSlot, Made, Executed
<1>4. CASE active' = active /\ backup' = backup
  BY <1>1, <1>3, <1>4 DEF SlotsAreMade
<1>5. CASE RecoverRestores \/ RecoverOrphans \/ BackupDropped \/ MoveOld \/ MoveNewFails
  BY <1>1, <1>3, <1>5 DEF SlotsAreMade, RecoverRestores, RecoverOrphans, BackupDropped, MoveOld,
     MoveNewFails
<1>6. CASE DropBackup
  BY <1>1, <1>3, <1>6, SpoiledSlot DEF SlotsAreMade, DropBackup, Exists
<1>7. CASE MoveNew
  <2>1. rows \in Inputs
    BY <1>7, RowsAreInputs DEF MoveNew, Publishing
  <2>2. Rows(cur) \in Made(cur)
    BY <1>1 DEF Made, Rows
  <2>3. [value |-> Rows(cur), input |-> rows, ok |-> TRUE] \in MadeSlot(cur)
    BY <2>1, <2>2 DEF MadeSlot
  <2> QED BY <1>1, <1>3, <1>7, <2>3 DEF SlotsAreMade, MoveNew
<1>8. CASE Move
  <2>1. \A s \in Stages : active[s] # Absent
    BY <1>8 DEF Move, EvidenceInvariant, PhasesAreOrdered, PlanIsBound, Cleaning, Loops
  <2>2. Pairs \in Stages /\ TwoN \in Stages
    BY DEF Pairs, TwoN, Stages
  <2>3. PICK s \in Stages : active' = [active EXCEPT ![s].ok = FALSE] /\ backup' = backup
    BY <1>8, <2>2 DEF Move, cleanup_frame
  <2> QED BY <1>1, <1>3, <2>1, <2>3, SpoiledSlot DEF SlotsAreMade
<1>9. CASE \E s \in Stages : Spoil(s)
  BY <1>1, <1>3, <1>9, SpoiledSlot DEF SlotsAreMade, Spoil, Valid, Exists
<1> QED
  BY <1>4, <1>5, <1>6, <1>7, <1>8, <1>9
     DEF Next, vars, disk, process, world, Run, Publication, Cleanup, Failure,
  Launch, RecoverRefuses, 
  NothingToRecover, Reuse, Stage, PublishPlan, ClearLitter, Reconcile,
  PrepareMove, NoteMove, PrepareDelete, Delete, NoteDelete, CloseFails, cleanup_frame,
  PublishComplete, StageFails, MoveFails, DeleteFails, Crash, Charge

\* Staging directories are left by killed processes, and one is in use.
LEMMA StagingStep == EvidenceInvariant /\ [Next]_vars => StagingIsCounted'
<1> SUFFICES ASSUME EvidenceInvariant, [Next]_vars PROVE StagingIsCounted'
  OBVIOUS
<1>1. /\ litter \in [Stages -> 0..(MaxCrashes + 1)] /\ cur \in Stages
      /\ crashes \in Nat
      /\ \A s \in Stages :
           litter[s] \in Nat /\ litter[s] >= InUse(s) /\ litter[s] <= crashes + InUse(s)
  BY EvidenceAssumption DEF EvidenceInvariant, TypeOK, StagingIsCounted
<1>2. CASE litter' = litter /\ crashes' = crashes /\ (pc \in Staging <=> pc' \in Staging)
           /\ (pc \in Staging => cur' = cur)
  BY <1>1, <1>2 DEF StagingIsCounted, InUse
<1>3. CASE Stage
  BY <1>1, <1>3 DEF Stage, Goto, StagingIsCounted, InUse, Staging, world
<1>4. CASE StageFails \/ MoveNew \/ MoveNewFails
  BY <1>1, <1>4 DEF StageFails, MoveNew, MoveNewFails, Goto, Ends, StagingIsCounted, InUse,
     Staging, world
<1>5. CASE ClearLitter
  <2>1. pc' \notin Staging /\ pc \notin Staging /\ crashes' = crashes
    BY <1>5, NextEntryIs DEF ClearLitter, Staging, world
  <2> QED BY <1>1, <1>5, <2>1 DEF ClearLitter, StagingIsCounted, InUse, Unpublished
<1>6. CASE Crash
  BY <1>1, <1>6 DEF Crash, Ends, Goto, StagingIsCounted, InUse, Staging, disk
<1>7. CASE Reconcile \/ PrepareMove \/ NoteMove
  BY <1>2, <1>7 DEF Reconcile, PrepareMove, NoteMove, Continue, Goto, cleanup_frame, world, Staging
<1>8. CASE MoveFails \/ PrepareDelete \/ DeleteFails \/ NoteDelete
  <2>1. Entry(cur) \in {0, 1, 2}
    BY <1>8, AtAnOutput DEF Loops, MoveFails, PrepareDelete, DeleteFails, NoteDelete
  <2> QED BY <1>2, <1>8, <2>1, NextEntryIs
       DEF MoveFails, PrepareDelete, DeleteFails, NoteDelete, AfterDelete, Ends, Goto,
           cleanup_frame, world, Staging
<1> QED
  BY <1>2, <1>3, <1>4, <1>5, <1>6, <1>7, <1>8
     DEF Next, vars, disk, process, world, Run, Publication, Cleanup, Failure,
  Launch, RecoverRefuses, RecoverRestores, RecoverOrphans, DropBackup, BackupDropped,
  NothingToRecover, Reuse, MoveOld, PublishPlan, Move, Delete, CloseFails, cleanup_frame,
  PublishComplete, Charge, Spoil, Goto, Ends, Staging

\* What the process has read is published.
LEMMA RowsStep == EvidenceInvariant /\ [Next]_vars => RowsAreRead'
<1> SUFFICES ASSUME EvidenceInvariant, [Next]_vars PROVE RowsAreRead'
  OBVIOUS
<1>1. /\ active \in [Stages -> {Absent} \cup [value : Values, input : Inputs, ok : BOOLEAN]]
      /\ backup \in [Stages -> {Absent} \cup [value : Values, input : Inputs, ok : BOOLEAN]]
      /\ cur \in 1..3
  BY DEF EvidenceInvariant, TypeOK, Stages
<1>2. RowsAreRead
  BY DEF EvidenceInvariant
<1>3. CASE pc' \notin Publishing \cup {"plan"}
  BY <1>3 DEF RowsAreRead
<1>4. CASE /\ pc \in Publishing /\ pc' \in Publishing /\ cur' = cur /\ rows' = rows
           /\ \A s \in Stages : s # cur => active'[s] = active[s] /\ backup'[s] = backup[s]
  BY <1>1, <1>2, <1>4 DEF RowsAreRead, Read, Publishing, Stages
<1>5. CASE Launch /\ pc' \in Publishing \cup {"plan"}
  <2>1. pc' = "recover" /\ cur' = 1 /\ rows' = <<>>
    BY <1>5 DEF Launch, Goto, Publishing
  <2>2. Read' = 0 /\ 1..0 = {}
    BY <2>1 DEF Read
  <2> QED BY <2>1, <2>2 DEF RowsAreRead
<1>6. CASE Reuse
  <2>1. /\ rows \in Seq(Values) /\ Len(rows) = cur - 1 /\ pc = "load" /\ backup[cur] = Absent
        /\ active[cur] # Absent /\ active[cur].ok /\ active[cur].input = rows
        /\ rows' = Append(rows, active[cur].value) /\ active' = active /\ backup' = backup
    BY <1>2, <1>6 DEF Reuse, Current, Valid, Exists, EvidenceInvariant, RenamesAreOrdered,
       RowsAreRead, Read, Publishing, disk
  <2>2. rows' \in Seq(Values) /\ Len(rows') = cur /\ rows'[cur] = active[cur].value
    BY <1>1, <2>1 DEF Stages
  <2>3. \A s \in 1..(cur - 1) : rows'[s] = rows[s]
    BY <1>1, <2>1
  <2>4. \A s \in 1..cur : SubSeq(rows', 1, s - 1) = SubSeq(rows, 1, s - 1)
    BY <1>1, <2>1, <2>3
  <2>5. SubSeq(rows, 1, cur - 1) = rows
    BY <1>1, <2>1
  <2>6. Read' = cur
    BY <1>1, <1>6 DEF Reuse, Read, Goto, Stages
  <2> QED BY <1>1, <1>2, <2>1, <2>2, <2>3, <2>4, <2>5, <2>6 DEF RowsAreRead, Read, Publishing
<1>7. CASE RecoverRestores \/ RecoverOrphans \/ DropBackup \/ BackupDropped \/ NothingToRecover
  BY <1>1, <1>4, <1>7 DEF RecoverRestores, RecoverOrphans, DropBackup, BackupDropped,
     NothingToRecover, Goto, disk, process, Publishing
<1>8. CASE Stage \/ MoveOld \/ MoveNew
  BY <1>1, <1>4, <1>8 DEF Stage, MoveOld, MoveNew, Goto, Publishing
<1>9. CASE PublishPlan \/ ClearLitter \/ Reconcile \/ PrepareMove \/ Move \/ NoteMove
  BY <1>3, <1>9, NextEntryIs DEF PublishPlan, ClearLitter, Reconcile, PrepareMove, Move, NoteMove,
     Continue, Goto, Publishing
<1>10. CASE PrepareDelete \/ Delete \/ NoteDelete \/ MoveFails \/ DeleteFails
  <2>1. Entry(cur) \in {0, 1, 2}
    BY <1>10, AtAnOutput DEF Loops, MoveFails, PrepareDelete, Delete, DeleteFails, NoteDelete
  <2> QED BY <1>3, <1>10, <2>1, NextEntryIs DEF PrepareDelete, Delete, NoteDelete, MoveFails,
     DeleteFails, AfterDelete, Ends, Goto, Publishing
<1>11. CASE \E s \in Stages : Spoil(s)
  BY <1>3, <1>11 DEF Spoil, process, Publishing
<1> QED
  BY <1>2, <1>3, <1>5, <1>6, <1>7, <1>8, <1>9, <1>10, <1>11
     DEF Next, vars, disk, process, world, Run, Publication, Cleanup, Failure,
  RecoverRefuses, StageFails, MoveNewFails, CloseFails, PublishComplete, Crash, Charge,
  Goto, Ends, Publishing, RowsAreRead, Read

\* The renames of a publication follow each other.
LEMMA RenamesStep == EvidenceInvariant /\ [Next]_vars => RenamesAreOrdered'
<1> SUFFICES ASSUME EvidenceInvariant, [Next]_vars PROVE RenamesAreOrdered'
  OBVIOUS
<1>1. /\ active \in [Stages -> {Absent} \cup [value : Values, input : Inputs, ok : BOOLEAN]]
      /\ backup \in [Stages -> {Absent} \cup [value : Values, input : Inputs, ok : BOOLEAN]]
      /\ cur \in Stages
  BY DEF EvidenceInvariant, TypeOK
<1>2. RenamesAreOrdered
  BY DEF EvidenceInvariant
<1>3. CASE pc' \notin {"drop", "load", "produce", "publish"}
  BY <1>3 DEF RenamesAreOrdered
<1>4. CASE DropBackup
  BY <1>1, <1>4 DEF DropBackup, Goto, Valid, Exists, RenamesAreOrdered
<1>5. CASE BackupDropped \/ NothingToRecover
  BY <1>1, <1>2, <1>5 DEF BackupDropped, NothingToRecover, Goto, Exists, disk, RenamesAreOrdered
<1>6. CASE Stage
  BY <1>1, <1>2, <1>6 DEF Stage, Goto, RenamesAreOrdered, Current
<1>7. CASE MoveOld
  BY <1>1, <1>2, <1>7 DEF MoveOld, Goto, RenamesAreOrdered, Current, Valid, Exists, Absent
<1>8. CASE PublishPlan \/ ClearLitter \/ Reconcile \/ PrepareMove \/ Move \/ NoteMove
  BY <1>3, <1>8, NextEntryIs DEF PublishPlan, ClearLitter, Reconcile, PrepareMove, Move, NoteMove,
     Continue, Goto
<1>9. CASE PrepareDelete \/ Delete \/ NoteDelete \/ MoveFails \/ DeleteFails
  <2>1. Entry(cur) \in {0, 1, 2}
    BY <1>9, AtAnOutput DEF Loops, MoveFails, PrepareDelete, Delete, DeleteFails, NoteDelete
  <2> QED BY <1>3, <1>9, <2>1, NextEntryIs DEF PrepareDelete, Delete, NoteDelete, MoveFails,
     DeleteFails, AfterDelete, Ends, Goto
<1>10. CASE Launch \/ Reuse \/ MoveNew \/ RecoverRestores \/ RecoverOrphans
  BY <1>3, <1>10 DEF Launch, Reuse, MoveNew, RecoverRestores, RecoverOrphans, Goto, process
<1>11. CASE \E s \in Stages : Spoil(s)
  BY <1>3, <1>11 DEF Spoil, process
<1> QED
  BY <1>2, <1>3, <1>4, <1>5, <1>6, <1>7, <1>8, <1>9, <1>10, <1>11
     DEF Next, vars, disk, process, world, Run, Publication, Cleanup, Failure,
  RecoverRefuses, StageFails, MoveNewFails, CloseFails, PublishComplete, Crash, Charge,
  Goto, Ends, RenamesAreOrdered, Current, Valid, Exists

\* Where the process can be under which checkpoint, and under which decision.
LEMMA PhasesStep == EvidenceInvariant /\ [Next]_vars => PhasesAreOrdered'
<1> SUFFICES ASSUME EvidenceInvariant, [Next]_vars PROVE PhasesAreOrdered'
  OBVIOUS
<1>1. PhasesAreOrdered
  BY DEF EvidenceInvariant
<1> USE DEF PhasesAreOrdered, Publishing, Cleaning, Loops
<1>2. CASE Launch
  BY <1>2 DEF Launch, Selected, Goto, disk, world
<1>3. CASE PublishPlan
  BY <1>1, <1>3 DEF PublishPlan, PublishCheckpoint, Planned, NoCheckpoint, Goto, world
<1>4. CASE ClearLitter
  <2>1. pc = "litter" /\ pc' \in {"litter", "reconcile", "close"}
    BY <1>4, NextEntryIs DEF ClearLitter
  <2> QED BY <1>1, <1>4, <2>1 DEF ClearLitter, world
<1>5. CASE Reconcile \/ PrepareMove \/ NoteMove \/ Move
  BY <1>1, <1>5 DEF Reconcile, PrepareMove, NoteMove, Move, Continue, Goto, cleanup_frame, world
<1>6. CASE PrepareDelete \/ Delete \/ NoteDelete \/ MoveFails \/ DeleteFails
  <2>1. Entry(cur) \in {0, 1, 2}
    BY <1>6, AtAnOutput DEF Loops, MoveFails, PrepareDelete, Delete, DeleteFails, NoteDelete
  <2> QED BY <1>1, <1>6, <2>1, NextEntryIs DEF PrepareDelete, Delete, NoteDelete, MoveFails,
     DeleteFails, AfterDelete, Ends, Goto, cleanup_frame, world
<1>7. CASE PublishComplete \/ CloseFails \/ Crash \/ Charge
  BY <1>1, <1>7 DEF PublishComplete, CloseFails, Crash, Charge, PublishCheckpoint, Ends, Goto,
     disk, process, world
<1>8. CASE \E s \in Stages : Spoil(s)
  BY <1>1, <1>8 DEF Spoil, process
<1>9. CASE StageFails \/ MoveNewFails \/ RecoverRefuses
  BY <1>1, <1>9 DEF StageFails, MoveNewFails, RecoverRefuses, Ends, Goto
<1>10. CASE RecoverRestores \/ RecoverOrphans \/ DropBackup \/ BackupDropped \/ NothingToRecover
  BY <1>1, <1>10 DEF RecoverRestores, RecoverOrphans, DropBackup, BackupDropped,
     NothingToRecover, Goto, disk, process, world
<1>11. CASE Reuse \/ Stage \/ MoveOld \/ MoveNew
  BY <1>1, <1>11 DEF Reuse, Stage, MoveOld, MoveNew, Goto, disk, world
<1>12. CASE UNCHANGED vars
  BY <1>1, <1>12 DEF vars, disk, process, world
<1> QED
  BY <1>2, <1>3, <1>4, <1>5, <1>6, <1>7, <1>8, <1>9, <1>10, <1>11, <1>12
     DEF Next, Run, Publication, Cleanup, Failure

\* The evidence of a stage stays what the checkpoint binds.
LEMMA PlanStep == EvidenceInvariant /\ [Next]_vars => PlanIsBound'
<1> SUFFICES ASSUME EvidenceInvariant, [Next]_vars PROVE PlanIsBound'
  OBVIOUS
<1>1. /\ active \in [Stages -> {Absent} \cup [value : Values, input : Inputs, ok : BOOLEAN]]
      /\ backup \in [Stages -> {Absent} \cup [value : Values, input : Inputs, ok : BOOLEAN]]
      /\ cur \in Stages /\ decision \in BOOLEAN
  BY DEF EvidenceInvariant, TypeOK
<1>2. PlanIsBound
  BY DEF EvidenceInvariant
<1>3. pc \in Publishing \cup {"plan"} => checkpoint = NoCheckpoint
  BY <1>2 DEF EvidenceInvariant, PhasesAreOrdered, PlanIsBound
<1>4. CASE checkpoint' = checkpoint /\ truth' = truth /\ active' = active /\ backup' = backup
  BY <1>2, <1>4 DEF PlanIsBound, Made, Executed, Reclaimable
<1>5. CASE checkpoint' = NoCheckpoint
  BY <1>5 DEF PlanIsBound, NoCheckpoint
<1>6. CASE PublishPlan
  <2>1. pc = "plan" /\ active' = active /\ backup' = backup /\ truth' = truth /\ checkpoint' = Planned
    BY <1>6 DEF PublishPlan, PublishCheckpoint, world
  <2>2. /\ rows \in Seq(Values) /\ Len(rows) = 3
        /\ \A s \in 1..3 : active[s] # Absent /\ active[s].value = rows[s] /\ backup[s] = Absent
    BY <2>1 DEF EvidenceInvariant, RowsAreRead, Read
  <2>3. \A s \in Stages : rows[s] \in Made(s)
    BY <2>2 DEF EvidenceInvariant, SlotsAreMade, MadeSlot, Stages
  <2>4. \A s \in Stages : Made(s)' = Made(s)
    BY <2>1 DEF Made, Executed
  <2>5. rows \in [Stages -> Values]
    <3>1. rows \in [1..Len(rows) -> Values]
      BY <2>2, SequenceIsFunction
    <3>2. 1..Len(rows) = Stages
      BY <2>2 DEF Stages
    <3> QED BY <3>1, <3>2
  <2>6. /\ Planned \in [state : {"planned", "complete"}, rows : [Stages -> Values],
                        limited : BOOLEAN, kept : SUBSET (Files \X {"original"})]
        /\ Planned.rows = rows
    BY <1>1, <2>5 DEF Planned, NoCheckpoint
  <2> QED BY <1>1, <2>1, <2>2, <2>3, <2>4, <2>5, <2>6 DEF PlanIsBound, Stages
<1>7. CASE PublishComplete
  <2>1. /\ checkpoint' = [checkpoint EXCEPT !.state = "complete", !.kept = Kept]
        /\ active' = active /\ backup' = backup /\ truth' = truth
    BY <1>7 DEF PublishComplete, PublishCheckpoint, world
  <2>2. checkpoint.state = "planned"
    BY <1>7 DEF PublishComplete, EvidenceInvariant, PhasesAreOrdered, Cleaning
  <2>3. Kept \in SUBSET (Files \X {"original"})
    <3>1. \A k \in Kept : k[1] \in Files /\ k = <<k[1], k[2]>> /\ k[2] = "original"
      BY <1>7 DEF PublishComplete, Kept
    <3> QED BY <3>1
  <2>4. \A s \in Stages : Made(s)' = Made(s)
    BY <2>1 DEF Made, Executed
  <2> QED BY <1>2, <2>1, <2>2, <2>3, <2>4 DEF PlanIsBound
<1>8. CASE Move
  <2>1. checkpoint.state # "none" /\ checkpoint' = checkpoint /\ backup' = backup /\ truth' = truth
    BY <1>8 DEF Move, EvidenceInvariant, PhasesAreOrdered, Cleaning, Loops, cleanup_frame, world
  <2>2. Pairs \in Stages /\ TwoN \in Stages
    BY DEF Pairs, TwoN, Stages
  <2>3. PICK s \in Stages : active' = [active EXCEPT ![s].ok = FALSE]
    BY <1>8, <2>2 DEF Move
  <2>4. \A t \in Stages : active'[t] # Absent /\ active'[t].value = active[t].value
    <3> SUFFICES ASSUME NEW t \in Stages PROVE active'[t] # Absent /\ active'[t].value = active[t].value
      OBVIOUS
    <3>1. active[t] # Absent /\ active[t].value \in Values
      BY <1>1, <1>2, <2>1 DEF PlanIsBound
    <3>2. active'[t] = active[t] \/ active'[t] = [active[t] EXCEPT !.ok = FALSE]
      BY <1>1, <2>3
    <3>3. active'[t].value = active[t].value
      BY <1>1, <3>1, <3>2
    <3> QED BY <3>1, <3>3 DEF Absent, Values
  <2>5. \A t \in Stages : Made(t)' = Made(t)
    BY <2>1 DEF Made, Executed
  <2> QED BY <1>2, <2>1, <2>4, <2>5 DEF PlanIsBound
<1>9. CASE \E s \in Stages : Spoil(s)
  BY <1>2, <1>5, <1>9 DEF Spoil, PlanIsBound
<1>10. CASE Publication \/ StageFails \/ MoveNewFails
  BY <1>3, <1>5, <1>10 DEF Publication, StageFails, MoveNewFails, RecoverRefuses,
     RecoverRestores, RecoverOrphans, DropBackup, BackupDropped, NothingToRecover, Reuse, Stage,
     MoveOld, MoveNew, Publishing, disk
<1> QED
  BY <1>4, <1>6, <1>7, <1>8, <1>9, <1>10
     DEF Next, vars, disk, process, world, Run, Cleanup, Failure, cleanup_frame, Launch,
  ClearLitter, Reconcile, PrepareMove, NoteMove, PrepareDelete, Delete, NoteDelete, CloseFails,
  MoveFails, DeleteFails, Crash, Charge

\* Nothing of a checkpoint is moved before its plan, or gone without a record.
LEMMA OutputsStep == EvidenceInvariant /\ [Next]_vars => OutputsAreBound'
<1> SUFFICES ASSUME EvidenceInvariant, [Next]_vars PROVE OutputsAreBound'
  OBVIOUS
<1>1. /\ place \in [Files -> {"original", "quarantine", "gone"}]
      /\ journal \in [Files -> {"original", "move_prepared", "quarantined", "delete_prepared",
                                "deleted", "retained"}]
      /\ OutputsAreBound
  BY DEF EvidenceInvariant, TypeOK
<1>2. CASE place' = place /\ journal' = journal /\ checkpoint' = checkpoint
  BY <1>1, <1>2 DEF OutputsAreBound, Reclaimable
<1>3. CASE PublishPlan
  <2>1. \A f \in Files : place[f] = "original" /\ place' = place
    BY <1>1, <1>3 DEF PublishPlan, EvidenceInvariant, PhasesAreOrdered, OutputsAreBound
  <2> QED BY <2>1 DEF OutputsAreBound
<1>4. CASE PublishComplete
  <2>1. /\ place' = place /\ journal' = journal
        /\ checkpoint'.rows = checkpoint.rows /\ checkpoint'.state = "complete"
    BY <1>4 DEF PublishComplete, PublishCheckpoint, EvidenceInvariant, PhasesAreOrdered,
       PlanIsBound, Cleaning
  <2> QED BY <1>1, <2>1 DEF OutputsAreBound, Reclaimable
<1>5. CASE Reconcile \/ PrepareMove \/ NoteMove \/ MoveFails \/ PrepareDelete \/ DeleteFails \/ NoteDelete
  <2>1. checkpoint' = checkpoint /\ place' = place /\ pc \in Loops
    BY <1>5 DEF Reconcile, PrepareMove, NoteMove, MoveFails, PrepareDelete, DeleteFails, NoteDelete,
       cleanup_frame, Loops
  <2>2. cur \in Files
    BY <2>1, AtAnOutput
  <2>3. \/ journal' = journal
        \/ \E mark : journal' = [journal EXCEPT ![cur] = mark]
                      /\ (place[cur] = "gone" => mark \in {"delete_prepared", "deleted"})
    <3>1. CASE Reconcile \/ PrepareMove \/ PrepareDelete \/ NoteDelete
      BY <3>1 DEF Reconcile, PrepareMove, PrepareDelete, NoteDelete, Note
    <3>2. CASE NoteMove \/ MoveFails
      BY <3>2 DEF NoteMove, MoveFails, Note, EvidenceInvariant, LoopsAreOrdered
    <3>3. CASE DeleteFails
      <4>1. cur \in Siblings
        BY <2>1, AtAnOutput DEF Siblings
      <4> QED BY <3>3, <4>1 DEF DeleteFails, Note
    <3> QED BY <1>5, <3>1, <3>2, <3>3
  <2> QED BY <1>1, <2>1, <2>2, <2>3 DEF OutputsAreBound, Reclaimable
<1>6. CASE Move \/ Delete
  <2>1. /\ checkpoint' = checkpoint /\ journal' = journal /\ pc \in Loops
        /\ checkpoint.state # "none"
    BY <1>6 DEF Move, Delete, cleanup_frame, Loops, EvidenceInvariant, PhasesAreOrdered, Cleaning
  <2>2. cur \in Files /\ Reclaimable(Entry(cur))
    BY <2>1, AtAnOutput
  <2>3. \/ place' = [place EXCEPT ![cur] = "quarantine"]
        \/ place' = [place EXCEPT ![cur] = "gone"] /\ journal[cur] = "delete_prepared"
    BY <1>6 DEF Move, Delete, EvidenceInvariant, LoopsAreOrdered
  <2> QED BY <1>1, <2>1, <2>2, <2>3 DEF OutputsAreBound, Reclaimable
<1> QED
  BY <1>2, <1>3, <1>4, <1>5, <1>6
     DEF Next, vars, disk, process, world, Run, Publication, Cleanup, Failure,
  Launch, RecoverRefuses, RecoverRestores, RecoverOrphans, DropBackup, BackupDropped,
  NothingToRecover, Reuse, Stage, MoveOld, MoveNew, ClearLitter, CloseFails,
  StageFails, MoveNewFails, Crash, Charge, Spoil

\* The next output of a loop, or the first output for the next loop.
LEMMA ContinueIs ==
  ASSUME NEW loop, NEW next, cur \in Files, Continue(loop, next)
  PROVE  /\ cur' \in Files /\ Entry(cur') = Entry(cur)
         /\ \/ pc' = loop /\ cur' = cur + 1
            \/ /\ pc' = next /\ cur' = First(Entry(cur))
               /\ \A f \in Outputs[Entry(cur)] : f <= cur /\ f >= cur'
BY OutputsAre, EntryIs DEF Continue, Goto, Siblings

\* What follows the deletion of an output.
LEMMA AfterDeleteIs ==
  ASSUME cur \in Files, AfterDelete
  PROVE  \/ /\ pc' = "delete" /\ cur' = cur + 1 /\ outcome' = outcome
            /\ cur' \in Files /\ Entry(cur') = Entry(cur)
         \/ /\ NextEntry(Entry(cur), "reclaimed")
            /\ \A f \in Outputs[Entry(cur)] : f <= cur
BY OutputsAre, EntryIs DEF AfterDelete, Goto, Siblings

\* The loops of the cleanup go over the outputs of an entry.
LEMMA LoopsStep == EvidenceInvariant /\ [Next]_vars => LoopsAreOrdered'
<1> SUFFICES ASSUME EvidenceInvariant, [Next]_vars PROVE LoopsAreOrdered'
  OBVIOUS
<1>1. /\ place \in [Files -> {"original", "quarantine", "gone"}]
      /\ journal \in [Files -> {"original", "move_prepared", "quarantined", "delete_prepared",
                                "deleted", "retained"}]
      /\ LoopsAreOrdered
  BY DEF EvidenceInvariant, TypeOK
<1> USE DEF LoopsAreOrdered, Loops, Deleting
<1>2. CASE pc' \notin Loops \cup {"close"}
  BY <1>2
<1>3. CASE UNCHANGED vars
  BY <1>1, <1>3 DEF vars, disk, process, Reclaimable
<1>4. CASE ClearLitter /\ pc' # "litter"
  <2>1. NextEntry(0, "none") /\ litter' = litter /\ (\A s \in Stages : ~Unpublished(s))
    <3>1. pc = "litter"
      BY <1>4 DEF ClearLitter
    <3> QED BY <1>4, <3>1 DEF ClearLitter
  <2>2. \A s \in Stages : litter[s] = 0
    BY <2>1 DEF EvidenceInvariant, StagingIsCounted, Unpublished
  <2>3. checkpoint' = checkpoint
    BY <1>4 DEF ClearLitter
  <2> QED BY <2>1, <2>2, <2>3, NextEntryIs DEF Reclaimable
<1>5. CASE Reconcile \/ NoteMove
  <2>1. cur \in Files /\ Reclaimable(Entry(cur))
    BY <1>5, AtAnOutput DEF Reconcile, NoteMove
  <2>2. litter' = litter /\ checkpoint' = checkpoint
    BY <1>5 DEF Reconcile, NoteMove, cleanup_frame
  <2>3. Continue("reconcile", "move") \/ Continue("move", "delete")
    BY <1>5 DEF Reconcile, NoteMove
  <2>4. \A s \in Stages : litter[s] = 0
    BY <1>1, <1>5 DEF Reconcile, NoteMove
  <2>5. /\ pc' \in {"reconcile", "move", "delete"}
        /\ cur' \in Files /\ Entry(cur') = Entry(cur)
        /\ pc' = "delete" => \A f \in Outputs[Entry(cur)] : f >= cur'
    BY <2>1, <2>3, ContinueIs
  <2>6. pc' = "delete" => \A f \in Outputs[Entry(cur')] : ~(f < cur')
    BY <2>1, <2>5, OutputsAre, EntryIs
  <2> QED BY <2>1, <2>2, <2>4, <2>5, <2>6 DEF Reclaimable
<1>6. CASE PrepareMove
  <2>1. cur \in Files /\ Reclaimable(Entry(cur))
    BY <1>6, AtAnOutput DEF PrepareMove
  <2>2. litter' = litter /\ checkpoint' = checkpoint /\ place' = place
    BY <1>6 DEF PrepareMove, cleanup_frame
  <2>3. CASE place[cur] = "original"
    BY <1>1, <1>6, <2>1, <2>2, <2>3 DEF Reclaimable, PrepareMove, Goto
  <2>4. CASE place[cur] # "original"
    <3>1. /\ pc' \in {"move", "delete"} /\ cur' \in Files /\ Entry(cur') = Entry(cur)
          /\ pc' = "delete" => \A f \in Outputs[Entry(cur)] : f >= cur'
      BY <1>6, <2>1, <2>4, ContinueIs DEF PrepareMove
    <3>2. pc' = "delete" => \A f \in Outputs[Entry(cur')] : ~(f < cur')
      BY <2>1, <3>1, OutputsAre, EntryIs
    <3>3. \A s \in Stages : litter[s] = 0
      BY <1>1, <1>6 DEF PrepareMove
    <3> QED BY <2>1, <2>2, <3>1, <3>2, <3>3 DEF Reclaimable
  <2> QED BY <2>3, <2>4
<1>7. CASE Move \/ Delete
  <2>1. /\ cur \in Files /\ Reclaimable(Entry(cur))
        /\ Outputs[Entry(cur)] \subseteq Files
    BY <1>7, AtAnOutput DEF Move, Delete
  <2>2. litter' = litter /\ checkpoint' = checkpoint /\ journal' = journal /\ cur' = cur
    BY <1>7 DEF Move, Delete, cleanup_frame, Goto
  <2>3. CASE Move
    BY <1>1, <2>1, <2>2, <2>3 DEF Reclaimable, Move, Goto
  <2>4. CASE Delete
    <3>1. place' = [place EXCEPT ![cur] = "gone"] /\ pc' = "deleted" /\ pc = "deleting"
      BY <2>4 DEF Delete, Goto
    <3>2. \A f \in Outputs[Entry(cur)] : f < cur => place'[f] = "gone"
      BY <1>1, <2>1, <3>1
    <3> QED BY <1>1, <2>1, <2>2, <3>1, <3>2 DEF Reclaimable
  <2> QED BY <1>7, <2>3, <2>4
<1>8. CASE PrepareDelete \/ NoteDelete
  <2>1. cur \in Files /\ Reclaimable(Entry(cur)) /\ Entry(cur) \in {0, 1, 2}
    BY <1>8, AtAnOutput DEF PrepareDelete, NoteDelete
  <2>2. litter' = litter /\ checkpoint' = checkpoint /\ place' = place
    BY <1>8 DEF PrepareDelete, NoteDelete, cleanup_frame
  <2>3. CASE AfterDelete
    <3>1. place[cur] = "gone" /\ \A f \in Outputs[Entry(cur)] : f < cur => place[f] = "gone"
      BY <1>1, <1>8, <2>3, AfterDeleteIs, NextEntryIs, <2>1 DEF PrepareDelete, NoteDelete, Goto
    <3>2. CASE NextEntry(Entry(cur), "reclaimed")
      BY <1>1, <1>8, <2>1, <2>2, <3>2, NextEntryIs DEF Reclaimable, PrepareDelete, NoteDelete
    <3>3. CASE pc' = "delete" /\ cur' = cur + 1 /\ cur' \in Files /\ Entry(cur') = Entry(cur)
      <4>1. \A f \in Outputs[Entry(cur)] : f < cur' => f < cur \/ f = cur
        BY <2>1, <3>3, OutputsAre, EntryIs
      <4> QED BY <1>1, <1>8, <2>1, <2>2, <3>1, <3>3, <4>1
               DEF Reclaimable, PrepareDelete, NoteDelete
    <3> QED BY <2>1, <2>3, <3>2, <3>3, AfterDeleteIs
  <2>4. CASE PrepareDelete /\ ~AfterDelete
    <3>1. Note("delete_prepared") /\ pc' = "deleting" /\ cur' = cur /\ pc = "delete"
      BY <2>4 DEF PrepareDelete, Goto
    <3> QED BY <1>1, <2>1, <2>2, <3>1 DEF Reclaimable, Note
  <2> QED BY <1>8, <2>3, <2>4 DEF NoteDelete
<1>9. CASE (MoveFails \/ DeleteFails) /\ pc' # "down"
  <2>1. Entry(cur) \in {0, 1, 2}
    BY <1>9, AtAnOutput DEF MoveFails, DeleteFails
  <2>2. litter' = litter /\ checkpoint' = checkpoint /\ NextEntry(Entry(cur), "retained")
    BY <1>9 DEF MoveFails, DeleteFails, cleanup_frame, Ends, Goto
  <2> QED BY <1>1, <1>9, <2>1, <2>2, NextEntryIs DEF Reclaimable, MoveFails, DeleteFails
<1>10. CASE \E s \in Stages : Spoil(s)
  BY <1>2, <1>10 DEF Spoil, process
<1> QED
  BY <1>2, <1>3, <1>4, <1>5, <1>6, <1>7, <1>8, <1>9, <1>10
     DEF Next, disk, process, world, Run, Publication, Cleanup, Failure,
  Launch, RecoverRefuses, RecoverRestores, RecoverOrphans, DropBackup, BackupDropped,
  NothingToRecover, Reuse, Stage, MoveOld, MoveNew, PublishPlan, CloseFails, PublishComplete,
  StageFails, MoveNewFails, Crash, Charge, Goto, Ends

\* The next entry of the cleanup keeps what is known of the outcomes.
LEMMA NextEntryKeeps ==
  ASSUME EvidenceInvariant,
         NEW after \in {0, 1, 2}, NEW done, NextEntry(after, done),
         place' = place, checkpoint' = checkpoint,
         \A e \in Entries : e < after => outcome[e] # "none",
         \A e \in Entries : e >= after /\ Reclaimable(e) => outcome[e] = "none",
         after \in Entries => done # "none",
         after \in Entries /\ done = "reclaimed" => \A f \in Outputs[after] : place[f] = "gone"
  PROVE  OutcomesAreTrue'
<1>1. \A e \in Entries : Reclaimable(e)' = Reclaimable(e)
  BY DEF Reclaimable
<1>2. \A e \in Entries : outcome'[e] =
        IF outcome[e] # "none" THEN outcome[e]
        ELSE IF e = after THEN done
        ELSE IF e > after /\ ~Reclaimable(e) THEN "retained" ELSE "none"
  BY NextOutcomesAre
<1>3. \A e \in Entries : outcome'[e] = "reclaimed" => \A f \in Outputs[e] : place'[f] = "gone"
  BY <1>2 DEF EvidenceInvariant, OutcomesAreTrue
<1>4. CASE pc' = "close" /\ \A e \in Entries : e > after => ~Reclaimable(e)
  <2>1. \A e \in Entries : outcome'[e] # "none"
    BY <1>2, <1>4, OutputsAre
  <2> QED BY <1>3, <1>4, <2>1 DEF OutcomesAreTrue, Publishing, Loops
<1>5. CASE /\ pc' = "reconcile" /\ cur' \in Files
           /\ Entry(cur') > after /\ Reclaimable(Entry(cur'))
           /\ \A e \in Entries : e > after /\ e < Entry(cur') => ~Reclaimable(e)
  <2>1. Entry(cur') \in Entries
    BY <1>5, OutputsAre, EntryIs
  <2>2. \A e \in Entries : e < Entry(cur') => outcome'[e] # "none"
    BY <1>2, <1>5, <2>1, OutputsAre
  <2>3. \A e \in Entries : e >= Entry(cur') /\ Reclaimable(e) => outcome'[e] = "none"
    BY <1>2, <1>5, <2>1, OutputsAre
  <2> QED BY <1>1, <1>3, <1>5, <2>2, <2>3 DEF OutcomesAreTrue, Publishing
<1> QED BY <1>4, <1>5, NextEntryIs

\* An entry is reclaimed when all its outputs are gone.
LEMMA OutcomesStep == EvidenceInvariant /\ [Next]_vars => OutcomesAreTrue'
<1> SUFFICES ASSUME EvidenceInvariant, [Next]_vars PROVE OutcomesAreTrue'
  OBVIOUS
<1>1. place \in [Files -> {"original", "quarantine", "gone"}] /\ OutcomesAreTrue
  BY DEF EvidenceInvariant, TypeOK
<1>2. CASE outcome' = NoOutcome /\ pc' \notin Loops \cup {"close"}
  BY <1>2 DEF OutcomesAreTrue, NoOutcome
<1>3. CASE UNCHANGED vars
  BY <1>1, <1>3 DEF OutcomesAreTrue, vars, disk, process, Reclaimable
<1>4. CASE ClearLitter
  <2>1. outcome = NoOutcome /\ place' = place /\ checkpoint' = checkpoint /\ pc = "litter"
    BY <1>1, <1>4 DEF ClearLitter, OutcomesAreTrue
  <2>2. CASE NextEntry(0, "none")
    BY <2>1, <2>2, NextEntryKeeps, OutputsAre DEF NoOutcome
  <2>3. CASE pc' = pc /\ outcome' = outcome
    BY <1>2, <2>1, <2>3 DEF Loops
  <2> QED BY <1>4, <2>2, <2>3 DEF ClearLitter
<1>5. CASE /\ pc \in Loops /\ pc' \in Loops /\ Entry(cur') = Entry(cur) /\ outcome' = outcome
           /\ checkpoint' = checkpoint
           /\ \A f \in Files : place'[f] = place[f] \/ f = cur
  <2>1. \A e \in Entries : Reclaimable(e)' = Reclaimable(e)
    BY <1>5 DEF Reclaimable
  <2>2. outcome[Entry(cur)] = "none" /\ cur \in Files
    BY <1>1, <1>5, AtAnOutput, OutputsAre DEF OutcomesAreTrue
  <2>3. ASSUME NEW e \in Entries, outcome[e] = "reclaimed", NEW f \in Outputs[e]
        PROVE  place'[f] = "gone"
    <3>1. f \in Files /\ f # cur
      BY <2>2, <2>3, OutputsAre, EntryIs
    <3> QED BY <1>1, <1>5, <2>3, <3>1 DEF OutcomesAreTrue
  <2> QED BY <1>1, <1>5, <2>1, <2>3 DEF OutcomesAreTrue, Publishing, Loops
<1>6. CASE Reconcile \/ NoteMove \/ PrepareMove
  <2>1. cur \in Files
    BY <1>6, AtAnOutput DEF Reconcile, NoteMove, PrepareMove, Loops
  <2> QED BY <1>5, <1>6, <2>1, ContinueIs
         DEF Reconcile, NoteMove, PrepareMove, Goto, cleanup_frame, Loops
<1>7. CASE Move \/ Delete
  BY <1>1, <1>5, <1>7 DEF Move, Delete, Goto, cleanup_frame, Loops
<1>8. CASE PrepareDelete \/ NoteDelete
  <2>1. /\ cur \in Files /\ Entry(cur) \in {0, 1, 2} /\ pc \in Loops
    BY <1>8, AtAnOutput DEF PrepareDelete, NoteDelete, Loops
  <2>2. checkpoint' = checkpoint /\ place' = place
    BY <1>8 DEF PrepareDelete, NoteDelete, cleanup_frame
  <2>3. CASE NextEntry(Entry(cur), "reclaimed") /\ \A f \in Outputs[Entry(cur)] : f <= cur
    <3>1. place[cur] = "gone" /\ pc \in Deleting
      <4>1. pc' \in {"close", "reconcile"}
        BY <2>1, <2>3, NextEntryIs
      <4> QED BY <1>8, <4>1 DEF PrepareDelete, NoteDelete, Goto, Deleting,
                    EvidenceInvariant, LoopsAreOrdered
    <3>2. \A f \in Outputs[Entry(cur)] : place[f] = "gone"
      <4>1. \A f \in Outputs[Entry(cur)] : f < cur \/ f = cur
        BY <2>1, <2>3, OutputsAre, EntryIs
      <4> QED BY <3>1, <4>1 DEF EvidenceInvariant, LoopsAreOrdered
    <3>3. /\ \A e \in Entries : e < Entry(cur) => outcome[e] # "none"
          /\ \A e \in Entries : e >= Entry(cur) /\ Reclaimable(e) => outcome[e] = "none"
      BY <1>1, <2>1 DEF OutcomesAreTrue
    <3> QED BY <2>1, <2>2, <2>3, <3>2, <3>3, NextEntryKeeps
  <2>4. CASE /\ pc' = "delete" /\ outcome' = outcome
             /\ cur' \in Files /\ Entry(cur') = Entry(cur)
    BY <1>5, <2>1, <2>2, <2>4 DEF Loops
  <2>5. CASE PrepareDelete /\ ~AfterDelete
    BY <1>5, <2>1, <2>2, <2>5 DEF PrepareDelete, Goto, Loops
  <2> QED BY <1>8, <2>1, <2>3, <2>4, <2>5, AfterDeleteIs DEF NoteDelete
<1>9. CASE MoveFails \/ (DeleteFails /\ pc' # "down")
  <2>1. Entry(cur) \in {0, 1, 2} /\ pc \in Loops
    BY <1>9, AtAnOutput DEF MoveFails, DeleteFails, Loops
  <2>2. /\ place' = place /\ checkpoint' = checkpoint
        /\ NextEntry(Entry(cur), "retained")
    BY <1>9 DEF MoveFails, DeleteFails, cleanup_frame, Ends, Goto
  <2>3. /\ \A e \in Entries : e < Entry(cur) => outcome[e] # "none"
        /\ \A e \in Entries : e >= Entry(cur) /\ Reclaimable(e) => outcome[e] = "none"
    BY <1>1, <2>1 DEF OutcomesAreTrue
  <2> QED BY <2>1, <2>2, <2>3, NextEntryKeeps
<1>10. CASE DeleteFails /\ pc' = "down"
  <2>1. Entry(cur) \in {0, 1, 2}
    BY <1>10, AtAnOutput DEF DeleteFails, Loops
  <2>2. Ends("down")
    BY <1>10, <2>1, NextEntryIs DEF DeleteFails
  <2> QED BY <1>2, <2>2 DEF Ends, Goto, Loops
<1>11. CASE Publication \/ PublishPlan
  <2>1. /\ pc \in Publishing \cup {"plan"} /\ pc' \notin Loops \cup {"close"}
        /\ outcome' = outcome \/ outcome' = NoOutcome
    BY <1>11 DEF PublishPlan, Publication, RecoverRefuses, RecoverRestores, RecoverOrphans,
       DropBackup, BackupDropped, NothingToRecover, Reuse, Stage, MoveOld, MoveNew, Ends, Goto,
       process, Publishing, Loops
  <2> QED BY <1>1, <1>2, <2>1 DEF OutcomesAreTrue
<1>12. CASE Launch \/ CloseFails \/ PublishComplete \/ StageFails \/ MoveNewFails \/ Crash
  BY <1>2, <1>12 DEF Launch, CloseFails, PublishComplete, StageFails, MoveNewFails, Crash,
     Ends, Goto, Loops
<1>13. CASE Charge \/ \E s \in Stages : Spoil(s)
  BY <1>1, <1>13 DEF Charge, Spoil, process, disk, OutcomesAreTrue, Publishing, Loops
<1> QED
  BY <1>3, <1>4, <1>6, <1>7, <1>8, <1>9, <1>10, <1>11, <1>12, <1>13
     DEF Next, Run, Cleanup, Failure

\* The complete checkpoint is true and stays so.
LEMMA CompleteStep == EvidenceInvariant /\ [Next]_vars => CompleteIsBound'
<1> SUFFICES ASSUME EvidenceInvariant, [Next]_vars, checkpoint'.state = "complete"
             PROVE  CompleteIsBound'
  BY DEF CompleteIsBound
<1>1. /\ CompleteIsBound /\ LoopsAreOrdered /\ OutcomesAreTrue /\ PhasesAreOrdered /\ PlanIsBound
      /\ place \in [Files -> {"original", "quarantine", "gone"}]
      /\ outcome \in [Entries -> {"none", "reclaimed", "retained"}]
  BY DEF EvidenceInvariant, TypeOK
<1>2. CASE checkpoint' = checkpoint /\ place' = place /\ litter' = litter
  BY <1>1, <1>2 DEF CompleteIsBound, Materialized
<1>3. CASE PublishComplete
  <2>1. /\ pc = "close" /\ litter' = litter /\ place' = place
        /\ \A k \in Kept : k[2] = "original"
    BY <1>3 DEF PublishComplete
  <2>2. checkpoint'.kept = Kept /\ checkpoint'.rows = checkpoint.rows
    BY <1>1, <1>3 DEF PublishComplete, PublishCheckpoint, PhasesAreOrdered, PlanIsBound, Cleaning
  <2>3. \A s \in Stages : litter'[s] = 0
    BY <1>1, <2>1 DEF LoopsAreOrdered
  <2>4. \A k \in Kept : place[k[1]] = k[2]
    BY DEF Kept
  <2>5. ASSUME NEW e \in Entries, Materialized(e)
        PROVE  \/ \A f \in Outputs[e] : <<f, "original">> \in Kept
               \/ \A f \in Outputs[e] : place[f] = "gone"
    <3>1. outcome[e] \in {"reclaimed", "retained"}
      BY <1>1, <2>1 DEF OutcomesAreTrue
    <3>2. CASE outcome[e] = "retained"
      <4>1. \A f \in Outputs[e] : f \in Files /\ Entry(f) = e
        BY OutputsAre, EntryIs
      <4>2. \A f \in Outputs[e] : <<f, place[f]>> \in Kept
        BY <2>5, <3>2, <4>1 DEF Kept
      <4> QED BY <2>1, <4>2
    <3>3. CASE outcome[e] = "reclaimed"
      BY <1>1, <3>3 DEF OutcomesAreTrue
    <3> QED BY <3>1, <3>2, <3>3
  <2> QED BY <2>1, <2>2, <2>3, <2>4, <2>5 DEF CompleteIsBound, Materialized
<1>4. CASE PublishPlan
  BY <1>4 DEF PublishPlan, PublishCheckpoint, Planned, NoCheckpoint
<1>5. checkpoint' = checkpoint \/ PublishPlan \/ PublishComplete
  BY StepMoves
<1>6. CASE checkpoint' = checkpoint
  <2>1. pc \in {"down", "done"}
    BY <1>1, <1>6 DEF EvidenceInvariant, TypeOK, PhasesAreOrdered, Publishing, Cleaning, Loops
  <2>2. place' = place /\ litter' = litter
    BY <2>1, StepMoves
  <2> QED BY <1>2, <1>6, <2>2
<1> QED BY <1>3, <1>4, <1>5, <1>6

\* The disk keeps its types.
LEMMA DiskTypeStep ==
  ASSUME EvidenceInvariant, [Next]_vars
  PROVE  LET Slot == {Absent} \cup [value : Values, input : Inputs, ok : BOOLEAN]
         IN  /\ active' \in [Stages -> Slot] /\ backup' \in [Stages -> Slot]
             /\ litter' \in [Stages -> Nat]
             /\ place' \in [Files -> {"original", "quarantine", "gone"}]
             /\ journal' \in [Files -> {"original", "move_prepared", "quarantined",
                                      "delete_prepared", "deleted", "retained"}]
<1> DEFINE Slot == {Absent} \cup [value : Values, input : Inputs, ok : BOOLEAN]
<1>1. /\ active \in [Stages -> Slot] /\ backup \in [Stages -> Slot]
      /\ litter \in [Stages -> Nat]
      /\ place \in [Files -> {"original", "quarantine", "gone"}]
      /\ journal \in [Files -> {"original", "move_prepared", "quarantined",
                               "delete_prepared", "deleted", "retained"}]
      /\ cur \in Stages /\ (pc \in Loops => cur \in Files)
  BY EvidenceAssumption DEF EvidenceInvariant, TypeOK, LoopsAreOrdered
<1>2. /\ active' = [s \in Stages |-> active'[s]] /\ backup' = [s \in Stages |-> backup'[s]]
      /\ litter' = [s \in Stages |-> litter'[s]]
      /\ place' \in [Files -> {"original", "quarantine", "gone"}]
      /\ journal' \in [Files -> {"original", "move_prepared", "quarantined",
                               "delete_prepared", "deleted", "retained"}]
  <2> USE <1>1 DEF Next, vars, disk, process, world, Run, Publication, Cleanup, Failure, cleanup_frame, Fault,
    Launch, RecoverRefuses, RecoverRestores, RecoverOrphans, DropBackup, BackupDropped,
    NothingToRecover, Reuse, Stage, MoveOld, MoveNew, PublishPlan, ClearLitter, Reconcile,
    PrepareMove, Move, NoteMove, PrepareDelete, Delete, NoteDelete, CloseFails,
    PublishComplete, StageFails, MoveNewFails, MoveFails, DeleteFails, Crash, Charge, Spoil, Note
  <2>1. active' = [s \in Stages |-> active'[s]] /\ backup' = [s \in Stages |-> backup'[s]]
    OBVIOUS
  <2>2. litter' = [s \in Stages |-> litter'[s]]
    OBVIOUS
  <2>3. place' \in [Files -> {"original", "quarantine", "gone"}]
    OBVIOUS
  <2>4. journal' \in [Files -> {"original", "move_prepared", "quarantined",
                              "delete_prepared", "deleted", "retained"}]
    OBVIOUS
  <2> QED BY <2>1, <2>2, <2>3, <2>4
<1>3. \A s \in Stages : active'[s] \in Slot /\ backup'[s] \in Slot
  <2>1. \A s \in Stages : MadeSlot(s)' \subseteq Slot
    BY DEF MadeSlot, Made, Executed, Missing, Values, Stages
  <2> QED BY <2>1, SlotsStep DEF SlotsAreMade
<1>4. \A s \in Stages : litter'[s] \in Nat
  BY StagingStep DEF StagingIsCounted
<1> QED BY <1>2, <1>3, <1>4

\* The process keeps its types.
LEMMA ProcessTypeStep ==
  ASSUME EvidenceInvariant, [Next]_vars
  PROVE  /\ pc' \in {"down", "done", "plan"} \cup Publishing \cup Cleaning
         /\ cur' \in Stages /\ decision' \in BOOLEAN
         /\ outcome' \in [Entries -> {"none", "reclaimed", "retained"}]
<1>1. /\ pc \in {"down", "done", "plan"} \cup Publishing \cup Cleaning
      /\ cur \in Stages /\ decision \in BOOLEAN /\ skip \in BOOLEAN
      /\ outcome \in [Entries -> {"none", "reclaimed", "retained"}]
  BY DEF EvidenceInvariant, TypeOK, Publishing, Cleaning, Loops
<1>2. 1 \in Stages /\ Files \subseteq Stages
  BY OutputsAre DEF Stages
<1>3. \A after \in {0, 1, 2}, done \in {"none", "reclaimed", "retained"} :
        NextEntry(after, done) =>
          /\ pc' \in {"close", "reconcile"} /\ cur' \in Stages
          /\ outcome' \in [Entries -> {"none", "reclaimed", "retained"}]
  BY <1>1, <1>2, NextEntryIs, NextOutcomesAre
<1>4. CASE Reconcile \/ NoteMove \/ PrepareMove
  <2>1. cur \in Files
    BY <1>4, AtAnOutput DEF Reconcile, NoteMove, PrepareMove, Loops
  <2> QED BY <1>1, <1>2, <1>4, <2>1, ContinueIs
         DEF Reconcile, NoteMove, PrepareMove, Goto, cleanup_frame, Cleaning, Loops
<1>5. CASE PrepareDelete \/ NoteDelete \/ MoveFails \/ DeleteFails
  <2>1. cur \in Files /\ Entry(cur) \in {0, 1, 2}
    BY <1>5, AtAnOutput DEF PrepareDelete, NoteDelete, MoveFails, DeleteFails, Loops
  <2>2. decision' \in BOOLEAN
    BY <1>1, <1>5 DEF PrepareDelete, NoteDelete, MoveFails, DeleteFails, cleanup_frame, Ends
  <2>3. CASE AfterDelete
    BY <1>1, <1>2, <1>3, <2>1, <2>2, <2>3, AfterDeleteIs DEF Cleaning, Loops
  <2>4. CASE NextEntry(Entry(cur), "retained")
    BY <1>3, <2>1, <2>2, <2>4 DEF Cleaning, Loops
  <2>5. CASE Goto("deleting", cur) /\ outcome' = outcome
    BY <1>1, <2>2, <2>5 DEF Goto, Cleaning, Loops
  <2>6. CASE Ends("down")
    BY <1>2, <2>2, <2>6 DEF Ends, Goto, NoOutcome
  <2> QED BY <1>5, <2>3, <2>4, <2>5, <2>6 DEF PrepareDelete, NoteDelete, MoveFails, DeleteFails
<1>6. CASE ClearLitter
  BY <1>1, <1>3, <1>6 DEF ClearLitter, Cleaning, Loops
<1>7. CASE Move \/ Delete \/ PublishPlan
  BY <1>1, <1>2, <1>7 DEF Move, Delete, PublishPlan, Goto, cleanup_frame, Cleaning, Loops
<1>8. CASE Publication
  <2>1. cur + 1 \in Stages => cur + 1 \in Stages
    OBVIOUS
  <2> QED BY <1>1, <1>2, <1>8
    DEF Publication, RecoverRefuses, RecoverRestores, RecoverOrphans, DropBackup, BackupDropped,
        NothingToRecover, Reuse, Stage, MoveOld, MoveNew, Ends, Goto, NoOutcome, process, Publishing
<1>9. CASE \/ Launch \/ CloseFails \/ PublishComplete \/ StageFails \/ MoveNewFails
           \/ Crash \/ Charge \/ (\E s \in Stages : Spoil(s)) \/ UNCHANGED vars
  BY <1>1, <1>2, <1>9 DEF Launch, CloseFails, PublishComplete, StageFails, MoveNewFails, Crash,
     Charge, Spoil, Ends, Goto, NoOutcome, vars, process, Publishing, Cleaning, Loops
<1> QED
  BY <1>4, <1>5, <1>6, <1>7, <1>8, <1>9 DEF Next, Run, Cleanup, Failure

\* The bounds are kept.
LEMMA WorldTypeStep ==
  ASSUME EvidenceInvariant, [Next]_vars
  PROVE  /\ truth' \in {"commute", "differ", "witness"} /\ skip' \in BOOLEAN
         /\ crashes' \in 0..MaxCrashes /\ faults' \in 0..MaxFaults /\ damage' \in 0..MaxDamage
<1>1. /\ truth \in {"commute", "differ", "witness"} /\ skip \in BOOLEAN
      /\ crashes \in 0..MaxCrashes /\ faults \in 0..MaxFaults /\ damage \in 0..MaxDamage
  BY DEF EvidenceInvariant, TypeOK
<1>2. /\ crashes' = crashes \/ (crashes < MaxCrashes /\ crashes' = crashes + 1)
      /\ faults' = faults \/ (faults < MaxFaults /\ faults' = faults + 1)
      /\ damage' = damage \/ (damage < MaxDamage /\ damage' = damage + 1)
  BY StepMoves
<1>3. /\ crashes' \in 0..MaxCrashes
      /\ faults' \in 0..MaxFaults
      /\ damage' \in 0..MaxDamage
  BY <1>1, <1>2, EvidenceAssumption
<1>4. truth' = truth /\ skip' \in {skip, TRUE}
  BY StepMoves
<1> QED BY <1>1, <1>3, <1>4

\* The variables keep their types.
LEMMA TypeStep == EvidenceInvariant /\ [Next]_vars => TypeOK'
<1> SUFFICES ASSUME EvidenceInvariant, [Next]_vars PROVE TypeOK'
  OBVIOUS
<1>1. litter' \in [Stages -> 0..(MaxCrashes + 1)]
  <2>1. \A s \in Stages : litter'[s] \in Nat /\ litter'[s] <= crashes' + 1
    BY StagingStep, WorldTypeStep, EvidenceAssumption DEF StagingIsCounted, InUse
  <2>2. crashes' \in 0..MaxCrashes
    BY WorldTypeStep
  <2>3. \A s \in Stages : litter'[s] \in 0..(MaxCrashes + 1)
    BY <2>1, <2>2, EvidenceAssumption
  <2> QED BY <2>3, DiskTypeStep
<1>2. checkpoint'.state \in {"none", "planned", "complete"} /\ checkpoint'.limited \in BOOLEAN
  <2>1. /\ checkpoint'.state = "none" => checkpoint' = NoCheckpoint
        /\ checkpoint'.state # "none" =>
             checkpoint' \in [state : {"planned", "complete"}, rows : [Stages -> Values],
                              limited : BOOLEAN, kept : SUBSET (Files \X {"original"})]
    BY PlanStep DEF PlanIsBound
  <2>2. CASE checkpoint'.state = "none"
    BY <2>1, <2>2, NoCheckpoint.limited = FALSE DEF NoCheckpoint
  <2>3. CASE checkpoint'.state # "none"
    BY <2>1, <2>3
  <2> QED BY <2>2, <2>3
<1> QED
  BY <1>1, <1>2, DiskTypeStep, ProcessTypeStep, WorldTypeStep
     DEF TypeOK, Publishing, Cleaning, Loops

\* The invariant is inductive.
LEMMA EvidenceStep == EvidenceInvariant /\ [Next]_vars => EvidenceInvariant'
BY TypeStep, SlotsStep, StagingStep, RowsStep, RenamesStep, PhasesStep, PlanStep, OutputsStep,
   LoopsStep, OutcomesStep, CompleteStep DEF EvidenceInvariant

\* In every state of a run, and of the runs after it, the process, the slots, the
\* journal and the checkpoint fit together.
THEOREM EvidenceInvariantHolds == Spec => []EvidenceInvariant
<1>1. Init => EvidenceInvariant
  BY InitSafe
<1>2. EvidenceInvariant /\ [Next]_vars => EvidenceInvariant'
  BY EvidenceStep
<1> QED BY <1>1, <1>2, PTL DEF Spec

-----------------------------------------------------------------------------
(* What it says.                                                           *)

\* Only the outputs of a pair that commutes, and of a second round that is no
\* witness, are reclaimed.
LEMMA ReclaimedIsNoWitness ==
  ASSUME EvidenceInvariant, checkpoint.state # "none", NEW e \in Entries, Reclaimable(e)
  PROVE  IF e = 1 THEN truth = "commute" ELSE truth # "witness"
<1>1. \A s \in Stages : checkpoint.rows[s] \in Made(s)
  BY DEF EvidenceInvariant, PlanIsBound
<1>2. checkpoint.rows[2] \in Made(2) /\ checkpoint.rows[3] \in Made(3)
  BY <1>1 DEF Stages
<1> QED BY <1>2 DEF Reclaimable, Made, Executed, Missing, Pairs, TwoN

\* No evidence is lost and none half deleted, however often the runs are killed:
\* finalize_program_evidence and _quarantine_then_delete.
THEOREM EvidenceAlwaysSafe == Spec => []EvidenceIsSafe
<1>1. EvidenceInvariant => EvidenceIsSafe
  <2> SUFFICES ASSUME EvidenceInvariant PROVE EvidenceIsSafe
    OBVIOUS
  <2>1. TypeOK
    BY DEF EvidenceInvariant
  <2>2. OutputsAreSafe
    <3> SUFFICES ASSUME NEW f \in Files
                 PROVE  /\ place[f] # "original" =>
                             /\ checkpoint.state # "none"
                             /\ IF Entry(f) = 1 THEN truth = "commute" ELSE truth # "witness"
                        /\ place[f] = "gone" => journal[f] \in {"delete_prepared", "deleted"}
      BY DEF OutputsAreSafe
    <3>1. Entry(f) \in Entries
      BY OutputsAre, EntryIs
    <3> QED BY <3>1, ReclaimedIsNoWitness DEF EvidenceInvariant, OutputsAreBound
  <2>3. CompleteIsTrue
    <3> SUFFICES ASSUME checkpoint.state = "complete" 
                 PROVE  /\ Selected("complete")
                        /\ \A e \in Entries : Materialized(e) =>
                             \/ \A f \in Outputs[e] : <<f, "original">> \in checkpoint.kept
                             \/ \A f \in Outputs[e] : place[f] = "gone"
                        /\ \A s \in Stages : litter[s] = 0 /\ ~Exists(backup[s])
      BY DEF CompleteIsTrue
    <3>1. StagesBound
      <4>1. Pairs \in Stages /\ TwoN \in Stages
        BY DEF Pairs, TwoN, Stages
      <4> QED BY <4>1 DEF EvidenceInvariant, PlanIsBound, StagesBound, Exists
    <3>2. OutputsBound
      BY DEF EvidenceInvariant, PlanIsBound, CompleteIsBound, OutputsBound
    <3> QED BY <3>1, <3>2 DEF EvidenceInvariant, PlanIsBound, CompleteIsBound, Selected, Exists
  <2> QED BY <2>1, <2>2, <2>3 DEF EvidenceIsSafe
<1> QED BY <1>1, EvidenceInvariantHolds, PTL

-----------------------------------------------------------------------------
(* What it implements.                                                     *)

\* The result of the program is decided once, by the plan, and is a limited one just
\* if the program was charged before: finalize_program_evidence.
THEOREM CheckpointKeepsPromise == Spec => KeepsPromise
<1>1. Init => Promise!Init
  BY DEF Init, NoCheckpoint, Promise!Init
<1>2. EvidenceInvariant /\ [Next]_vars => [Promise!Next]_(Promise!vars)
  <2> SUFFICES ASSUME EvidenceInvariant, [Next]_vars PROVE [Promise!Next]_(Promise!vars)
    OBVIOUS
  <2>1. skip \in BOOLEAN /\ PhasesAreOrdered /\ PlanIsBound
    BY DEF EvidenceInvariant, TypeOK
  <2>2. CASE checkpoint' = checkpoint /\ skip' \in {skip, TRUE}
    <3>1. CASE skip' = skip
      BY <2>2, <3>1 DEF Promise!vars
    <3>2. CASE skip' # skip
      <4>1. ~skip /\ skip'
        BY <2>1, <2>2, <3>2
      <4> QED BY <2>2, <4>1 DEF Promise!Next, Promise!Charge
    <3> QED BY <3>1, <3>2
  <2>3. CASE PublishPlan /\ skip' = skip
    <3>1. checkpoint = NoCheckpoint /\ checkpoint' = Planned /\ decision = skip
      BY <2>1, <2>3 DEF PublishPlan, PublishCheckpoint, PhasesAreOrdered, PlanIsBound
    <3>2. /\ checkpoint.state = "none" /\ checkpoint.limited = FALSE
          /\ checkpoint'.state = "planned" /\ checkpoint'.limited = skip
      BY <3>1 DEF Planned, NoCheckpoint
    <3>3. Promise!Plan(1)
      BY <2>3, <3>2 DEF Promise!Plan
    <3> QED BY <3>3 DEF Promise!Next
  <2>4. CASE PublishComplete /\ skip' = skip
    <3>1. checkpoint.state = "planned"
      BY <2>1, <2>4 DEF PublishComplete, PhasesAreOrdered, Cleaning
    <3>2. checkpoint'.state = "complete" /\ checkpoint'.limited = checkpoint.limited
      BY <2>1, <2>4, <3>1 DEF PublishComplete, PublishCheckpoint, PlanIsBound
    <3>3. Promise!Finish(1)
      BY <2>4, <3>1, <3>2 DEF Promise!Finish
    <3> QED BY <3>3 DEF Promise!Next
  <2> QED BY <2>2, <2>3, <2>4, StepMoves
<1> QED BY <1>1, <1>2, EvidenceInvariantHolds, PTL DEF Spec, KeepsPromise, Promise!Spec

\* While there is no plan, a stage whose slots are the same has the same evidence.
LEMMA UsableSame ==
  ASSUME checkpoint' = checkpoint, checkpoint.state = "none", NEW s \in Stages,
         active'[s] = active[s], backup'[s] = backup[s]
  PROVE  Usable(s)' = Usable(s)
BY DEF Usable, Valid, Exists

\* The evidence of a stage that was not planned: its valid slot.
LEMMA UsableIs ==
  ASSUME checkpoint.state = "none", NEW s \in Stages
  PROVE  /\ Valid(active[s]) => Usable(s) = [value |-> active[s].value, input |-> active[s].input]
         /\ ~Valid(active[s]) /\ Valid(backup[s]) =>
              Usable(s) = [value |-> backup[s].value, input |-> backup[s].input]
         /\ ~Valid(active[s]) /\ ~Valid(backup[s]) => Usable(s) = Nothing
BY DEF Usable

\* Evidence has the values of slots.
LEMMA UsableTyped ==
  ASSUME EvidenceInvariant, checkpoint.state = "none", NEW s \in Stages
  PROVE  Usable(s) \in [value : Values, input : Inputs] \cup {Nothing}
<1>1. /\ active[s] \in {Absent} \cup [value : Values, input : Inputs, ok : BOOLEAN]
      /\ backup[s] \in {Absent} \cup [value : Values, input : Inputs, ok : BOOLEAN]
  BY DEF EvidenceInvariant, TypeOK
<1> QED BY <1>1 DEF Usable, Valid, Exists

\* The renames of a publication before its last one do not show.
LEMMA RenamesDoNotShow ==
  ASSUME EvidenceInvariant, checkpoint' = checkpoint, checkpoint.state = "none",
         \/ RecoverRestores \/ RecoverOrphans \/ DropBackup \/ BackupDropped
         \/ MoveOld \/ MoveNewFails
  PROVE  \A s \in Stages : Usable(s)' = Usable(s)
<1>1. /\ active \in [Stages -> {Absent} \cup [value : Values, input : Inputs, ok : BOOLEAN]]
      /\ backup \in [Stages -> {Absent} \cup [value : Values, input : Inputs, ok : BOOLEAN]]
      /\ cur \in Stages /\ RenamesAreOrdered
  BY DEF EvidenceInvariant, TypeOK
<1>2. ~Valid(Absent)
  BY DEF Valid, Exists
<1>3. ASSUME NEW s \in Stages, s # cur PROVE Usable(s)' = Usable(s)
  <2>1. active'[s] = active[s] /\ backup'[s] = backup[s]
    BY <1>1, <1>3 DEF RecoverRestores, RecoverOrphans, DropBackup, BackupDropped, MoveOld,
       MoveNewFails
  <2> QED BY <2>1, UsableSame
<1>4. ASSUME NEW s \in Stages, s = cur PROVE Usable(s)' = Usable(s)
  <2>1. CASE RecoverRestores
    BY <1>1, <1>2, <1>4, <2>1 DEF RecoverRestores, Usable, Valid, Exists
  <2>2. CASE RecoverOrphans
    BY <1>1, <1>2, <1>4, <2>2 DEF RecoverOrphans, Usable, Valid, Exists
  <2>3. CASE DropBackup
    BY <1>1, <1>2, <1>4, <2>3 DEF DropBackup, Usable, Valid, Exists
  <2>4. CASE BackupDropped
    BY <1>1, <1>2, <1>4, <2>4 DEF BackupDropped, Usable, Valid, Exists, RenamesAreOrdered
  <2>5. CASE MoveOld
    BY <1>1, <1>2, <1>4, <2>5 DEF MoveOld, Usable, Valid, Exists, RenamesAreOrdered
  <2>6. CASE MoveNewFails
    BY <1>1, <1>2, <1>4, <2>6 DEF MoveNewFails, Usable, Valid, Exists, RenamesAreOrdered
  <2> QED BY <2>1, <2>2, <2>3, <2>4, <2>5, <2>6
<1> QED BY <1>3, <1>4

\* The last one publishes the stage.
LEMMA MoveNewPublishes ==
  ASSUME EvidenceInvariant, MoveNew, NEW c \in Stages, c = cur
  PROVE  Durable!Publish(c)
<1>1. /\ active \in [Stages -> {Absent} \cup [value : Values, input : Inputs, ok : BOOLEAN]]
      /\ backup \in [Stages -> {Absent} \cup [value : Values, input : Inputs, ok : BOOLEAN]]
      /\ cur \in Stages /\ RenamesAreOrdered /\ decision \in BOOLEAN
      /\ checkpoint.state = "none" /\ checkpoint' = checkpoint /\ pc = "publish"
      /\ backup' = backup /\ damage' = damage
      /\ active' = [active EXCEPT ![cur] = [value |-> Rows(cur), input |-> rows, ok |-> TRUE]]
  BY DEF EvidenceInvariant, TypeOK, MoveNew, PhasesAreOrdered, Publishing, world
<1>2. rows \in Inputs /\ Rows(cur) \in Values
  <2>1. rows \in Inputs
    BY <1>1, RowsAreInputs DEF Publishing
  <2>2. Rows(cur) \in Values
    BY <1>1 DEF Rows, Executed, Missing, Values, Stages
  <2> QED BY <2>1, <2>2
<1>3. Usable(c)' = [value |-> Rows(cur), input |-> rows]
  BY <1>1 DEF Usable, Valid, Exists, Absent, Values
<1>4. Usable(c) # Nothing => Usable(c).input # rows
  BY <1>1 DEF Usable, Valid, Exists, RenamesAreOrdered
<1>5. \A s \in Stages : s # c => Usable(s)' = Usable(s)
  BY <1>1, UsableSame
<1>6. Usable(c)' \in [value : Values, input : Inputs] /\ Usable(c)' # Nothing
  BY <1>2, <1>3 DEF Nothing, Values
<1>7. Durable!Changes(c)
  BY <1>1, <1>5, <1>6 DEF Durable!Changes
<1> QED BY <1>1, <1>3, <1>4, <1>6, <1>7 DEF Durable!Publish

\* A damaged stage: its evidence goes, or older evidence comes back.
LEMMA SpoilDamages ==
  ASSUME EvidenceInvariant, NEW c \in Stages, Spoil(c)
  PROVE  Durable!Damage(c)
<1>1. /\ checkpoint.state = "none" /\ checkpoint' = checkpoint /\ damage' = damage + 1
      /\ active \in [Stages -> {Absent} \cup [value : Values, input : Inputs, ok : BOOLEAN]]
      /\ backup \in [Stages -> {Absent} \cup [value : Values, input : Inputs, ok : BOOLEAN]]
      /\ backup' = backup /\ active' = [active EXCEPT ![c].ok = FALSE] /\ active[c] # Absent
  BY DEF EvidenceInvariant, TypeOK, Spoil, Valid, Exists
<1>2. \A s \in Stages : s # c => Usable(s)' = Usable(s)
  BY <1>1, UsableSame
<1>3. Usable(c)' \in [value : Values, input : Inputs] \cup {Nothing}
  <2>1. ~Valid(active'[c])
    BY <1>1 DEF Valid
  <2>2. backup'[c] \in {Absent} \cup [value : Values, input : Inputs, ok : BOOLEAN]
    BY <1>1
  <2>3. checkpoint'.state = "none"
    BY <1>1
  <2> QED BY <2>1, <2>2, <2>3 DEF Usable, Valid, Exists
<1> QED BY <1>1, <1>2, <1>3 DEF Durable!Damage, Durable!Changes

\* The plan binds the evidence that is there.
LEMMA PlanDoesNotShow ==
  ASSUME EvidenceInvariant, PublishPlan
  PROVE  \A s \in Stages : Usable(s)' = Usable(s)
<1>1. /\ checkpoint.state = "none" /\ pc = "plan" /\ active' = active /\ backup' = backup
      /\ checkpoint'.state = "planned" /\ checkpoint'.rows = rows
  BY DEF PublishPlan, PublishCheckpoint, Planned, NoCheckpoint, EvidenceInvariant, PhasesAreOrdered
<1>2. \A s \in 1..3 : /\ active[s] # Absent /\ active[s].ok
                      /\ active[s].value = rows[s]
                      /\ active[s].input = SubSeq(rows, 1, s - 1)
  BY <1>1 DEF EvidenceInvariant, RowsAreRead, Read
<1> SUFFICES ASSUME NEW s \in Stages PROVE Usable(s)' = Usable(s)
  OBVIOUS
<1>3. Usable(s) = [value |-> rows[s], input |-> SubSeq(rows, 1, s - 1)]
  BY <1>1, <1>2 DEF Usable, Valid, Exists, Stages
<1>4. Usable(s)' = [value |-> rows[s], input |-> SubSeq(rows, 1, s - 1)]
  BY <1>1 DEF Usable
<1> QED BY <1>3, <1>4

\* From then on it is in the checkpoint.
LEMMA PlannedStays ==
  ASSUME EvidenceInvariant, [Next]_vars, checkpoint.state # "none"
  PROVE  (\A s \in Stages : Usable(s)' = Usable(s)) /\ damage' = damage
<1>1. checkpoint'.rows = checkpoint.rows /\ checkpoint'.state # "none"
  <2>1. CASE checkpoint' = checkpoint
    BY <2>1
  <2>2. CASE PublishPlan
    BY <2>2 DEF PublishPlan, EvidenceInvariant, PhasesAreOrdered
  <2>3. CASE PublishComplete
    BY <2>3 DEF PublishComplete, PublishCheckpoint, EvidenceInvariant, PlanIsBound
  <2> QED BY <2>1, <2>2, <2>3, StepMoves
<1>2. damage' = damage
  BY StepMoves
<1> QED BY <1>1, <1>2 DEF Usable

\* Every stage looks as if it were published by one atomic write, wherever the
\* runs are killed: _run_or_reuse_stage and _recover_stage_publication.
THEOREM StagesLookAtomic == Spec => StagesAreDurable
<1>1. Init => Durable!Init
  <2> SUFFICES ASSUME Init PROVE Durable!Init
    OBVIOUS
  <2>1. \A s \in Stages : Usable(s) = Nothing
    BY DEF Init, Usable, Valid, Exists, NoCheckpoint
  <2> QED BY <2>1 DEF Durable!Init, Init
<1>2. EvidenceInvariant /\ [Next]_vars =>
        [Durable!Next]_<<[s \in Stages |-> Usable(s)], damage>>
  <2> SUFFICES ASSUME EvidenceInvariant, [Next]_vars
               PROVE  [Durable!Next]_<<[s \in Stages |-> Usable(s)], damage>>
    OBVIOUS
  <2>1. CASE (\A s \in Stages : Usable(s)' = Usable(s)) /\ damage' = damage
    BY <2>1
  <2>2. CASE checkpoint.state # "none"
    BY <2>1, <2>2, PlannedStays
  <2>3. CASE PublishPlan
    BY <2>1, <2>3, PlanDoesNotShow DEF PublishPlan, world
  <2>4. CASE checkpoint.state = "none" /\ ~PublishPlan
    <3>1. checkpoint' = checkpoint
      BY <2>4, StepMoves DEF PublishComplete, EvidenceInvariant, PhasesAreOrdered, Cleaning
    <3>2. CASE MoveNew
      <4>1. cur \in Stages
        BY DEF EvidenceInvariant, TypeOK
      <4>2. PICK c \in Stages : c = cur
        BY <4>1
      <4> QED BY <3>2, <4>2, MoveNewPublishes DEF Durable!Next
    <3>3. CASE \E s \in Stages : Spoil(s)
      BY <3>3, SpoilDamages DEF Durable!Next
    <3>4. CASE \/ RecoverRestores \/ RecoverOrphans \/ DropBackup \/ BackupDropped
               \/ MoveOld \/ MoveNewFails
      BY <2>1, <2>4, <3>1, <3>4, RenamesDoNotShow
         DEF RecoverRestores, RecoverOrphans, DropBackup, BackupDropped, MoveOld, MoveNewFails, world
    <3>5. CASE active' = active /\ backup' = backup /\ damage' = damage
      BY <2>1, <2>4, <3>1, <3>5, UsableSame
    <3>6. CASE Move
      BY <2>4, <3>6 DEF Move, EvidenceInvariant, PhasesAreOrdered, Cleaning, Loops
    <3> QED
      BY <3>2, <3>3, <3>4, <3>5, <3>6
         DEF Next, vars, disk, process, world, Run, Publication, Cleanup, Failure, cleanup_frame,
      Launch, RecoverRefuses, NothingToRecover, Reuse, Stage, PublishPlan, ClearLitter, Reconcile,
      PrepareMove, NoteMove, PrepareDelete, Delete, NoteDelete, CloseFails,
      PublishComplete, StageFails, MoveFails, DeleteFails, Crash, Charge
  <2> QED BY <2>2, <2>3, <2>4
<1> QED BY <1>1, <1>2, EvidenceInvariantHolds, PTL DEF Spec, StagesAreDurable, Durable!Spec

-----------------------------------------------------------------------------
(* A study. The inductive invariant: runs, and summaries.                  *)

\* What the child has read holds until it acts on it.
ChildKnows ==
  /\ Working => Loads /\ child.program \in Programs
  /\ child.at = "work" => /\ state[Key(child.program)] = "none"
                          /\ child.skip = (child.program \in charged)
  /\ child.at = "finish" => state[Key(child.program)] = "planned"
  /\ child.at = "index" => state[Key(child.program)] = "complete"
  /\ child.at \in {"stage", "point"} => progress = AllEntries
  /\ child.at = "point" => progress \in published
  /\ child.at = "done" => pointer # {}

\* A program is charged while no child works.
SupervisorKnows ==
  /\ event.start => event.program \in Programs
  /\ sup.at = "charge" => child = NoChild /\ sup.active \in Programs

\* What a child is,
Children == [at : {"none", "boundary", "work", "finish", "index", "notify", "combine",
                   "stage", "point", "compare", "done", "failed"},
             program : Programs \cup {NoProgram}, skip : BOOLEAN]
\* a supervisor,
Supervisors == [at : {"off", "launch", "launched", "watch", "charge", "success", "failed"},
                active : Programs \cup {NoProgram}]
\* an event,
Events == [program : Programs \cup {NoProgram}, start : BOOLEAN, fresh : BOOLEAN]
\* an entry.
Marks == [key : Programs \X Versions, limited : BOOLEAN]

\* What is on the disk.
DiskIsTyped ==
  /\ PrepareTypeOK
  /\ version \in Versions /\ charged \subseteq Programs
  /\ state \in [Programs \X Versions -> {"none", "planned", "complete"}]
  /\ limited \subseteq Programs \X Versions /\ basis \subseteq PossibleInputs
  /\ progress \subseteq Marks /\ pointer \subseteq Marks
  /\ \A H \in published : H \subseteq Marks
  /\ torn \in BOOLEAN
\* The processes.
ProcessesAreTyped ==
  /\ event \in Events /\ child \in Children /\ sup \in Supervisors
  /\ starts \in 0 .. MaxStarts /\ deaths \in 0 .. MaxDeaths

\* Everything of a run, and of the prepares.
RunInvariant ==
  /\ DiskIsTyped /\ ProcessesAreTyped
  /\ FrozenInputs /\ RowsAgree /\ ChildKnows /\ SupervisorKnows

\* A shelf as the one summary at work has left it.
ShelfIsKnown(s, d) ==
  IF d \in summary[s].new
  THEN shelf[d] = s /\ IF d \in summary[s].old THEN aside[s][d] = due[d] ELSE due[d] = Empty
  ELSE IF d \in summary[s].old
       THEN shelf[d] = Empty /\ aside[s][d] = due[d]
       ELSE shelf[d] = due[d]

\* Where a summary is.
Places == [at : {"idle", "old", "new", "undo", "over"}, old : SUBSET Shelves, new : SUBSET Shelves]

\* What a summary has moved, by what it does.
MovesAreOrdered(s) ==
  /\ AtRest(s) => summary[s].old = {} /\ summary[s].new = {}
  /\ summary[s].at \in {"old", "new"} => "figures" \notin summary[s].new

\* Summaries run after a handoff, and one that is alone is accounted for.
SwapIsKnown ==
  /\ Summarizing # {} => pointer # {}
  /\ \A s \in Summaries : MovesAreOrdered(s)
  /\ due # Anything =>
       /\ \A s, t \in Summarizing : s = t
       /\ \A s \in Summarizing, d \in Shelves : ShelfIsKnown(s, d)

\* The directories and the summaries.
SummariesAreTyped ==
  /\ shelf \in [Shelves -> Summaries \cup {Empty}]
  /\ aside \in [Summaries -> [Shelves -> Summaries \cup {Empty}]]
  /\ summary \in [Summaries -> Places]
  /\ due \in [Shelves -> 0 .. MaxSummaries + 1]
\* Everything of the summaries.
SummaryInvariant == SummariesAreTyped /\ SwapIsKnown /\ BundleIsWhole

\* The inductive invariant of a study.
StudyInvariant == RunInvariant /\ SummaryInvariant

\* The invariant says what the results have to be.
LEMMA InvariantAgrees == StudyInvariant => ResultsAgree
BY DEF StudyInvariant, RunInvariant, SummaryInvariant, ResultsAgree, StudyTypeOK, DiskIsTyped,
       ProcessesAreTyped, SummariesAreTyped, Marks, Children, Supervisors, Events, Places

\* At first there is no study,
LEMMA RunBegins == PrepareInit /\ RunInit => RunInvariant
<1> SUFFICES ASSUME PrepareInit, RunInit PROVE RunInvariant
  OBVIOUS
<1> USE PrepareAssumption, StudyAssumption DEF PrepareInit, RunInit, NoChild, Sup, NoProgram
<1>1. DiskIsTyped
  <2>1. 1 \in PossibleInputs /\ 1 \in Versions
    BY DEF PossibleInputs, Versions
  <2>2. PrepareTypeOK
    BY <2>1 DEF PrepareTypeOK
  <2> QED BY <2>1, <2>2 DEF DiskIsTyped
<1>2. ProcessesAreTyped
  BY DEF ProcessesAreTyped, Events, Children, Supervisors
<1>3. FrozenInputs /\ RowsAgree
  BY DEF FrozenInputs, RowsAgree
<1>4. ChildKnows /\ SupervisorKnows
  BY DEF ChildKnows, SupervisorKnows, Working
<1> QED BY <1>1, <1>2, <1>3, <1>4 DEF RunInvariant

\* and no summary.
LEMMA SummariesBegin == StudyInit => SummaryInvariant
BY SummaryAssumption, StudyAssumption
   DEF StudyInit, SummaryInvariant, SummariesAreTyped, SwapIsKnown, BundleIsWhole, Summarizing, AtRest,
       Idle, Clear, Empty, Places, Anything, Summaries, ShelfIsKnown, MovesAreOrdered

-----------------------------------------------------------------------------
(* The runs. Prepares and changes.                                         *)

\* A program of this version has a checkpoint, and an entry.
LEMMA KeyIsTyped ==
  ASSUME DiskIsTyped, NEW p \in Programs
  PROVE  /\ Key(p) \in Programs \X Versions
         /\ EntryOf(p) \in Marks
BY DEF DiskIsTyped, Key, EntryOf, Marks

\* There are programs.
LEMMA EntriesAreSome == AllEntries # {}
<1>1. 1 \in Programs
  BY StudyAssumption DEF Programs
<1> QED BY <1>1 DEF AllEntries

\* A tree that is built, or put in place: nothing was made from another one before.
LEMMA PrepareKeepsRuns ==
  ASSUME RunInvariant, PrepareStep, UNCHANGED runVars
  PROVE  RunInvariant'
<1> USE DEF RunInvariant, runVars, onDisk, results, raw, count
<1>1. UNCHANGED inputs /\ frozen = NoStudy /\ frozen' \in PossibleInputs \cup {NoStudy} /\ built' \subseteq PossibleInputs
  BY DEF PrepareStep, BuildTree, PublishTree, DiskIsTyped, PrepareTypeOK
<1>2. DiskIsTyped' /\ ProcessesAreTyped'
  BY <1>1 DEF DiskIsTyped, ProcessesAreTyped, PrepareTypeOK
<1>3. FrozenInputs'
  <2>1. NoStudy \notin PossibleInputs
    BY PrepareAssumption DEF NoStudy, PossibleInputs
  <2>2. basis = {}
    BY <1>1, <2>1 DEF FrozenInputs, DiskIsTyped
  <2> QED BY <2>2 DEF FrozenInputs
<1>4. RowsAgree'
  BY DEF RowsAgree
<1>5. ~ Working
  BY <1>1 DEF ChildKnows, Loads, Prepared
<1>6. ChildKnows' /\ SupervisorKnows'
  BY <1>5 DEF ChildKnows, SupervisorKnows, Working
<1> QED BY <1>2, <1>3, <1>4, <1>6

\* Inputs and versions change while nothing works.
LEMMA ChangesKeepRuns ==
  ASSUME RunInvariant, InputsChange \/ Upgrade
  PROVE  RunInvariant'
<1> USE DEF RunInvariant, runVars, onDisk, results, raw, count, prepareVars
<1>1. ~ Working /\ ~ Working'
  BY DEF InputsChange, Upgrade, Quiet, Working
<1>2. UNCHANGED <<frozen, built, onDisk, event, child, sup, count>>
  BY DEF InputsChange, Upgrade
<1>3. DiskIsTyped'
  <2>1. inputs' \in PossibleInputs /\ version' \in Versions
    BY PrepareAssumption, StudyAssumption
       DEF InputsChange, Upgrade, DiskIsTyped, PrepareTypeOK, PossibleInputs, Versions
  <2> QED BY <1>2, <2>1 DEF DiskIsTyped, PrepareTypeOK
<1>4. ProcessesAreTyped'
  BY <1>2 DEF ProcessesAreTyped
<1>5. FrozenInputs' /\ RowsAgree'
  BY <1>2 DEF FrozenInputs, RowsAgree
<1>6. ChildKnows'
  BY <1>1, <1>2 DEF ChildKnows, Working
<1>7. SupervisorKnows'
  BY <1>2 DEF SupervisorKnows
<1> QED BY <1>3, <1>4, <1>5, <1>6, <1>7

\* Summaries do not touch what runs have made.
LEMMA SummariesKeepRuns ==
  ASSUME RunInvariant, UNCHANGED <<prepareVars, version, onDisk, event, child, sup, starts>>, deaths' \in 0 .. MaxDeaths
  PROVE  RunInvariant'
<1> USE DEF RunInvariant, onDisk, results, raw, prepareVars
<1>1. DiskIsTyped'
  BY DEF DiskIsTyped, PrepareTypeOK
<1>2. ProcessesAreTyped' /\ FrozenInputs' /\ RowsAgree'
  BY DEF ProcessesAreTyped, FrozenInputs, RowsAgree
<1>3. ChildKnows' /\ SupervisorKnows'
  BY DEF ChildKnows, SupervisorKnows, Working, Loads, Prepared, Unchanged, AllEntries, EntryOf, Key
<1> QED BY <1>1, <1>2, <1>3

\* A program is planned, or complete.
LEMMA RowsStay ==
  ASSUME RunInvariant, UNCHANGED <<progress, published, pointer>>,
         sup'.at = "success" => sup.at = "success" \/ pointer # {},
         \A k \in Programs \X Versions : state[k] = "complete" =>
           state'[k] = "complete" /\ (k \in limited' <=> k \in limited)
  PROVE  RowsAgree'
<1> USE DEF RunInvariant
<1>1. \A e \in progress \cup UNION published : e.key \in Programs \X Versions /\ e.limited \in BOOLEAN
  BY DEF DiskIsTyped, Marks
<1>2. \A e \in progress \cup UNION published : state'[e.key] = "complete" /\ e.limited = (e.key \in limited')
  BY <1>1 DEF RowsAgree
<1> QED BY <1>2 DEF RowsAgree

-----------------------------------------------------------------------------
(* The child.                                                              *)

\* The child takes up a program,
LEMMA BoundaryKeeps ==
  ASSUME RunInvariant, Boundary
  PROVE  RunInvariant'
<1> USE DEF RunInvariant, onDisk, results, raw, count, prepareVars
<1> DEFINE p == child.program
<1>1. Working /\ p \in Programs /\ Key(p) \in Programs \X Versions
  BY KeyIsTyped DEF Boundary, Working, ChildKnows
<1>2. PICK next :
        /\ next \in {"index", "finish", "work"}
        /\ next = "index" => state[Key(p)] = "complete"
        /\ next = "finish" => state[Key(p)] = "planned"
        /\ next = "work" => state[Key(p)] = "none"
        /\ child' = [child EXCEPT !.at = next, !.skip = p \in charged]
        /\ IF next = "index" THEN UNCHANGED event ELSE Publish(p, TRUE)
  <2>1. state[Key(p)] \in {"none", "planned", "complete"}
    BY <1>1 DEF DiskIsTyped
  <2> QED BY <2>1 DEF Boundary
<1>3. UNCHANGED <<prepareVars, version, onDisk, sup, count>>
  BY DEF Boundary
<1>4. DiskIsTyped'
  BY <1>3 DEF DiskIsTyped, PrepareTypeOK
<1>5. event' \in Events /\ (event'.start => event'.program \in Programs)
  <2>1. event' = event \/ event' = [program |-> p, start |-> TRUE, fresh |-> TRUE]
    BY <1>2 DEF Publish
  <2>2. CASE UNCHANGED event
    BY <2>2 DEF ProcessesAreTyped, SupervisorKnows
  <2>3. CASE event' = [program |-> p, start |-> TRUE, fresh |-> TRUE]
    BY <1>1, <2>3 DEF Events
  <2> QED BY <2>1, <2>2, <2>3
<1>6. /\ child' \in Children
      /\ child'.at = next /\ child'.program = p /\ child'.skip = (p \in charged)
  <2>1. PICK b \in BOOLEAN : b <=> p \in charged
    <3>1. CASE p \in charged
      BY <3>1
    <3>2. CASE p \notin charged
      BY <3>2
    <3> QED BY <3>1, <3>2
  <2>2. child' = [child EXCEPT !.at = next, !.skip = b]
    BY <1>2, <2>1
  <2>3. child' \in Children /\ child'.at = next /\ child'.program = p /\ child'.skip = b
    BY <1>1, <1>2, <2>2 DEF ProcessesAreTyped, Children
  <2> QED BY <2>1, <2>3
<1>7. ProcessesAreTyped'
  BY <1>3, <1>5, <1>6 DEF ProcessesAreTyped
<1>8. FrozenInputs' /\ RowsAgree'
  BY <1>3 DEF FrozenInputs, RowsAgree
<1>9. ChildKnows'
  BY <1>1, <1>2, <1>3, <1>6 DEF ChildKnows, Loads, Prepared, Unchanged, Key
<1>10. SupervisorKnows'
  BY <1>1, <1>3, <1>5 DEF SupervisorKnows, Working, NoChild
<1> QED BY <1>4, <1>7, <1>8, <1>9, <1>10

\* plans it,
LEMMA WorkKeeps ==
  ASSUME RunInvariant, Work
  PROVE  RunInvariant'
<1> USE DEF RunInvariant, raw, count, prepareVars
<1> DEFINE k == Key(child.program)
<1>1. Working /\ child.program \in Programs /\ k \in Programs \X Versions /\ Loads /\ state[k] = "none"
  BY KeyIsTyped DEF Work, Working, ChildKnows
<1>2. /\ UNCHANGED <<prepareVars, version, charged, raw, torn, event, sup, count>>
      /\ state' = [state EXCEPT ![k] = "planned"]
      /\ limited \subseteq limited' /\ limited' \subseteq limited \cup {k}
      /\ basis' = basis \cup {inputs}
  BY DEF Work
<1>3. /\ child' \in Children
      /\ child'.at = "finish" /\ child'.program = child.program
  BY DEF Work, ProcessesAreTyped, Children
<1>4. DiskIsTyped'
  BY <1>1, <1>2 DEF DiskIsTyped, PrepareTypeOK
<1>5. ProcessesAreTyped'
  BY <1>2, <1>3 DEF ProcessesAreTyped
<1>6. FrozenInputs'
  BY <1>1, <1>2 DEF FrozenInputs, Loads, Unchanged
<1>7. RowsAgree'
  <2>1. \A c \in Programs \X Versions : state[c] = "complete" =>
           state'[c] = "complete" /\ (c \in limited' <=> c \in limited)
    BY <1>1, <1>2 DEF DiskIsTyped
  <2> QED BY <1>2, <2>1, RowsStay
<1>8. state'[k] = "planned" /\ Key(child.program)' = k
  BY <1>1, <1>2, <1>3 DEF DiskIsTyped, Key
<1>9. ChildKnows'
  BY <1>1, <1>2, <1>3, <1>8 DEF ChildKnows, Loads, Prepared, Unchanged
<1>10. SupervisorKnows'
  BY <1>1, <1>2 DEF SupervisorKnows, Working, NoChild
<1> QED BY <1>4, <1>5, <1>6, <1>7, <1>9, <1>10

\* and completes it.
LEMMA FinishKeeps ==
  ASSUME RunInvariant, Finish
  PROVE  RunInvariant'
<1> USE DEF RunInvariant, raw, count, prepareVars
<1> DEFINE k == Key(child.program)
<1>1. Working /\ child.program \in Programs /\ k \in Programs \X Versions /\ Loads
  BY KeyIsTyped DEF Finish, Working, ChildKnows
<1>2. /\ UNCHANGED <<prepareVars, version, charged, limited, basis, raw, torn, event, sup, count>>
      /\ state' = [state EXCEPT ![k] = "complete"]
  BY DEF Finish
<1>3. /\ child' \in Children
      /\ child'.at = "index" /\ child'.program = child.program
  BY DEF Finish, ProcessesAreTyped, Children
<1>4. DiskIsTyped'
  BY <1>1, <1>2 DEF DiskIsTyped, PrepareTypeOK
<1>5. ProcessesAreTyped'
  BY <1>2, <1>3 DEF ProcessesAreTyped
<1>6. FrozenInputs'
  BY <1>2 DEF FrozenInputs
<1>7. RowsAgree'
  <2>1. \A c \in Programs \X Versions : state[c] = "complete" =>
           state'[c] = "complete" /\ (c \in limited' <=> c \in limited)
    BY <1>1, <1>2 DEF DiskIsTyped
  <2> QED BY <1>2, <2>1, RowsStay
<1>8. state'[k] = "complete" /\ Key(child.program)' = k
  BY <1>1, <1>2, <1>3 DEF DiskIsTyped, Key
<1>9. ChildKnows'
  BY <1>1, <1>2, <1>3, <1>8 DEF ChildKnows, Loads, Prepared, Unchanged
<1>10. SupervisorKnows'
  BY <1>1, <1>2 DEF SupervisorKnows, Working, NoChild
<1> QED BY <1>4, <1>5, <1>6, <1>7, <1>9, <1>10

\* Its entry goes into the progress,
LEMMA IndexKeeps ==
  ASSUME RunInvariant, Index
  PROVE  RunInvariant'
<1> USE DEF RunInvariant, results, count, prepareVars
<1> DEFINE p == child.program
<1>1. Working /\ p \in Programs /\ Key(p) \in Programs \X Versions /\ EntryOf(p) \in Marks /\ Loads
      /\ state[Key(p)] = "complete"
  BY KeyIsTyped DEF Index, Working, ChildKnows
<1>2. /\ UNCHANGED <<prepareVars, version, charged, results, published, pointer, torn, event, sup, count>>
      /\ progress' \subseteq progress \cup {EntryOf(p)}
  BY DEF Index, Chain
<1>3. /\ child' \in Children
      /\ child'.at = "notify" /\ child'.program = p
  BY DEF Index, ProcessesAreTyped, Children
<1>4. DiskIsTyped'
  BY <1>1, <1>2 DEF DiskIsTyped, PrepareTypeOK
<1>5. ProcessesAreTyped'
  BY <1>2, <1>3 DEF ProcessesAreTyped
<1>6. FrozenInputs'
  BY <1>2 DEF FrozenInputs
<1>7. RowsAgree'
  BY <1>1, <1>2 DEF RowsAgree, EntryOf
<1>8. ChildKnows'
  BY <1>1, <1>2, <1>3 DEF ChildKnows, Loads, Prepared, Unchanged
<1>9. SupervisorKnows'
  BY <1>1, <1>2 DEF SupervisorKnows, Working, NoChild
<1> QED BY <1>4, <1>5, <1>6, <1>7, <1>8, <1>9

\* What changes neither what is on the disk nor what the child knows.
LEMMA ProcessesKeep ==
  ASSUME RunInvariant, UNCHANGED <<prepareVars, version, onDisk>>, ProcessesAreTyped',
         Working' => Working /\ UNCHANGED child,
         child'.at = "done" => pointer # {},
         sup'.at = "success" => sup.at = "success" \/ pointer # {},
         SupervisorKnows'
  PROVE  RunInvariant'
<1> USE DEF RunInvariant, onDisk, results, raw, prepareVars
<1>1. DiskIsTyped' /\ FrozenInputs' /\ RowsAgree'
  BY DEF DiskIsTyped, PrepareTypeOK, FrozenInputs, RowsAgree
<1>2. ChildKnows'
  <2>1. CASE Working'
    BY <2>1 DEF ChildKnows, Loads, Prepared, Unchanged, AllEntries, EntryOf, Key
  <2>2. CASE ~ Working'
    BY <2>2 DEF ChildKnows, Working
  <2> QED BY <2>1, <2>2
<1> QED BY <1>1, <1>2

\* the child goes on to the next program,
LEMMA NotifyKeeps ==
  ASSUME RunInvariant, Notify
  PROVE  RunInvariant'
<1> USE DEF RunInvariant, onDisk, results, raw, count, prepareVars
<1> DEFINE p == child.program
<1>1. Working /\ p \in Programs /\ Loads
  BY DEF Notify, Working, ChildKnows
<1>2. UNCHANGED <<prepareVars, version, onDisk, sup, count>>
  BY DEF Notify
<1>3. event' \in Events /\ ~ event'.start
  BY <1>1 DEF Notify, Publish, Events
<1>4. /\ child' \in Children /\ child'.program \in Programs
      /\ child'.at \in {"boundary", "combine"}
  BY <1>1 DEF Notify, ProcessesAreTyped, Children
<1>5. DiskIsTyped' /\ ProcessesAreTyped' /\ FrozenInputs' /\ RowsAgree'
  BY <1>2, <1>3, <1>4 DEF DiskIsTyped, PrepareTypeOK, FrozenInputs, RowsAgree, ProcessesAreTyped
<1>6. ChildKnows'
  BY <1>1, <1>2, <1>4 DEF ChildKnows, Loads, Prepared, Unchanged
<1>7. SupervisorKnows'
  BY <1>1, <1>2, <1>3 DEF SupervisorKnows, Working, NoChild
<1> QED BY <1>5, <1>6, <1>7

\* or to the handoff.
LEMMA CombineKeeps ==
  ASSUME RunInvariant, Combine
  PROVE  RunInvariant'
<1> USE DEF RunInvariant, onDisk, results, raw, count, prepareVars
<1>1. Working /\ child.program \in Programs /\ Loads /\ progress = AllEntries
  BY DEF Combine, Working, ChildKnows
<1>2. UNCHANGED <<prepareVars, version, onDisk, event, sup, count>>
  BY DEF Combine
<1>3. /\ child' \in Children /\ child'.program = child.program
      /\ child'.at \in {"stage", "compare"}
  BY DEF Combine, ProcessesAreTyped, Children
<1>4. DiskIsTyped' /\ ProcessesAreTyped' /\ FrozenInputs' /\ RowsAgree'
  BY <1>2, <1>3 DEF DiskIsTyped, PrepareTypeOK, FrozenInputs, RowsAgree, ProcessesAreTyped
<1>5. AllEntries' = AllEntries
  BY <1>2 DEF AllEntries, EntryOf, Key
<1>6. ChildKnows'
  BY <1>1, <1>2, <1>3, <1>5 DEF ChildKnows, Loads, Prepared, Unchanged
<1>7. SupervisorKnows'
  BY <1>1, <1>2 DEF SupervisorKnows, Working, NoChild
<1> QED BY <1>4, <1>6, <1>7

\* The handoff is of all programs, in this version.
LEMMA PublishRowsKeeps ==
  ASSUME RunInvariant, PublishRows
  PROVE  RunInvariant'
<1> USE DEF RunInvariant, results, count, prepareVars
<1>1. Working /\ child.program \in Programs /\ Loads /\ progress = AllEntries
  BY DEF PublishRows, Working, ChildKnows
<1>2. /\ UNCHANGED <<prepareVars, version, charged, results, progress, pointer, torn, event, sup, count>>
      /\ published' = published \cup {progress}
  BY DEF PublishRows
<1>3. /\ child' \in Children /\ child'.program = child.program
      /\ child'.at = "point"
  BY DEF PublishRows, ProcessesAreTyped, Children
<1>4. DiskIsTyped' /\ ProcessesAreTyped' /\ FrozenInputs'
  BY <1>2, <1>3 DEF DiskIsTyped, PrepareTypeOK, FrozenInputs, ProcessesAreTyped
<1>5. AllEntries' = AllEntries
  BY <1>2 DEF AllEntries, EntryOf, Key
<1>6. RowsAgree'
  <2>1. version \in Versions /\ {e.key : e \in progress} = Programs \X {version}
    <3>1. version \in Versions
      BY DEF DiskIsTyped
    <3>2. progress = {EntryOf(p) : p \in Programs}
      BY <1>1 DEF AllEntries
    <3>3. \A p \in Programs : EntryOf(p).key = <<p, version>>
      BY DEF EntryOf, Key
    <3>4. {e.key : e \in progress} = {<<p, version>> : p \in Programs}
      BY <3>2, <3>3
    <3>5. {<<p, version>> : p \in Programs} = Programs \X {version}
      OBVIOUS
    <3> QED BY <3>1, <3>4, <3>5
  <2>2. \A H \in published' : \E v \in Versions : {e.key : e \in H} = Programs \X {v}
    BY <1>2, <2>1 DEF RowsAgree
  <2>3. progress \cup UNION published' = progress \cup UNION published
    BY <1>2
  <2> QED BY <1>2, <2>2, <2>3 DEF RowsAgree
<1>7. ChildKnows'
  BY <1>1, <1>2, <1>3, <1>5 DEF ChildKnows, Loads, Prepared, Unchanged
<1>8. SupervisorKnows'
  BY <1>1, <1>2 DEF SupervisorKnows, Working, NoChild
<1> QED BY <1>4, <1>6, <1>7, <1>8

\* It becomes the active one.
LEMMA PublishPointerKeeps ==
  ASSUME RunInvariant, PublishPointer
  PROVE  RunInvariant' /\ pointer' # {}
<1> USE DEF RunInvariant, results, count, prepareVars
<1>1. Working /\ child.program \in Programs /\ Loads /\ progress = AllEntries /\ progress \in published
  BY DEF PublishPointer, Working, ChildKnows
<1>2. /\ UNCHANGED <<prepareVars, version, charged, results, progress, published, torn, event, sup, count>>
      /\ pointer' = progress
  BY DEF PublishPointer
<1>3. /\ child' \in Children /\ child'.program = child.program
      /\ child'.at = "compare"
  BY DEF PublishPointer, ProcessesAreTyped, Children
<1>4. DiskIsTyped' /\ ProcessesAreTyped' /\ FrozenInputs'
  BY <1>2, <1>3 DEF DiskIsTyped, PrepareTypeOK, FrozenInputs, ProcessesAreTyped
<1>5. pointer' # {}
  BY <1>1, <1>2, EntriesAreSome
<1>6. RowsAgree'
  BY <1>1, <1>2, <1>5 DEF RowsAgree
<1>7. ChildKnows'
  BY <1>1, <1>2, <1>3 DEF ChildKnows, Loads, Prepared, Unchanged
<1>8. SupervisorKnows'
  BY <1>1, <1>2 DEF SupervisorKnows, Working, NoChild
<1> QED BY <1>4, <1>5, <1>6, <1>7, <1>8

\* The child ends.
LEMMA EndingsKeep ==
  ASSUME RunInvariant, Compare \/ ChildFails
  PROVE  RunInvariant'
<1>1. PICK at \in {"done", "failed"} :
        /\ child' = Child(at, NoProgram)
        /\ at = "done" => pointer # {}
  BY DEF Compare, ChildFails, ReadsHandoff, HandoffIsThere
<1>2. /\ child' \in Children /\ child'.at = at
  BY <1>1 DEF Children, Child, NoProgram
<1>3. Working /\ UNCHANGED <<prepareVars, version, onDisk, event, sup, starts>>
      /\ deaths' \in 0 .. MaxDeaths
  BY StudyAssumption DEF Compare, ChildFails, Working, count, RunInvariant, ProcessesAreTyped
<1>4. ProcessesAreTyped'
  BY <1>2, <1>3 DEF ProcessesAreTyped, RunInvariant
<1>5. SupervisorKnows'
  BY <1>3 DEF SupervisorKnows, Working, NoChild, RunInvariant
<1>6. ~ Working'
  BY <1>2 DEF Working
<1> QED BY <1>1, <1>2, <1>3, <1>4, <1>5, <1>6, ProcessesKeep

-----------------------------------------------------------------------------
(* The supervisor.                                                         *)

\* The supervisor is started, and starts a child;
LEMMA StartKeeps ==
  ASSUME RunInvariant, Start
  PROVE  RunInvariant'
<1>1. /\ UNCHANGED <<prepareVars, version, onDisk, event, child, deaths>>
      /\ starts' \in 0 .. MaxStarts
      /\ sup' \in Supervisors /\ sup'.at = "launch"
  BY StudyAssumption DEF Start, Sup, Supervisors, NoProgram, RunInvariant, ProcessesAreTyped
<1>2. ProcessesAreTyped' /\ SupervisorKnows'
  BY <1>1 DEF ProcessesAreTyped, SupervisorKnows, RunInvariant
<1>3. child.at = "done" => pointer # {}
  BY DEF RunInvariant, ChildKnows
<1> QED BY <1>1, <1>2, <1>3, ProcessesKeep DEF Working

\* which the writer lock turns away while another one works.
LEMMA LaunchKeeps ==
  ASSUME RunInvariant, LaunchChild
  PROVE  RunInvariant'
<1> USE DEF RunInvariant, onDisk, results, raw, count, prepareVars
<1>1. /\ UNCHANGED <<prepareVars, version, onDisk, count>>
      /\ event' = [event EXCEPT !.fresh = FALSE]
  BY DEF LaunchChild
<1>2. event' \in Events /\ event'.start = event.start /\ event'.program = event.program
  BY <1>1 DEF Events, ProcessesAreTyped
<1>3. CASE Loads /\ ~ Working
  <2>1. 1 \in Programs
    BY StudyAssumption DEF Programs
  <2>2. /\ child' \in Children /\ child'.at = "boundary" /\ child'.program = 1
        /\ sup' \in Supervisors /\ sup'.at = "launched"
    <3>1. child' = Child("boundary", 1) /\ sup' = Sup("launched", NoProgram)
      BY <1>3 DEF LaunchChild
    <3>2. Child("boundary", 1) \in Children
      BY <2>1 DEF Child, Children
    <3>3. Sup("launched", NoProgram) \in Supervisors
      BY DEF Sup, Supervisors
    <3> QED BY <3>1, <3>2, <3>3 DEF Child, Sup
  <2>3. DiskIsTyped' /\ ProcessesAreTyped' /\ FrozenInputs' /\ RowsAgree'
    BY <1>1, <1>2, <2>2 DEF DiskIsTyped, PrepareTypeOK, FrozenInputs, RowsAgree, ProcessesAreTyped
  <2>4. ChildKnows' /\ SupervisorKnows'
    BY <1>1, <1>2, <1>3, <2>1, <2>2 DEF ChildKnows, SupervisorKnows, Loads, Prepared, Unchanged
  <2> QED BY <2>3, <2>4
<1>4. CASE ~ (Loads /\ ~ Working)
  <2>1. sup' \in Supervisors /\ sup'.at = "failed" /\ UNCHANGED child
    BY <1>4 DEF LaunchChild, Sup, Supervisors, NoProgram
  <2>2. ProcessesAreTyped' /\ SupervisorKnows'
    BY <1>1, <1>2, <2>1 DEF ProcessesAreTyped, SupervisorKnows
  <2>3. child.at = "done" => pointer # {}
    BY DEF ChildKnows
  <2> QED BY <1>1, <2>1, <2>2, <2>3, ProcessesKeep DEF Working
<1> QED BY <1>3, <1>4

\* watches it,
LEMMA WatchKeeps ==
  ASSUME RunInvariant, Audit \/ Observe \/ Kill \/ ChildEnded \/ SupervisorDies
  PROVE  RunInvariant'
<1> USE DEF RunInvariant, results, raw, prepareVars
<1>1. child.at = "done" => pointer # {}
  BY DEF ChildKnows
<1>2. NoChild \in Children /\ NoChild.at = "none"
  BY DEF NoChild, Children, NoProgram
<1>3. NoProgram \in Programs \cup {NoProgram}
  OBVIOUS
<1>4. CASE Audit
  <2>1. /\ UNCHANGED <<prepareVars, version, onDisk, event, count>>
        /\ sup' \in Supervisors /\ sup'.at \in {"failed", "watch"}
        /\ child' \in {child, NoChild}
    BY <1>4, <1>3 DEF Audit, Sup, Supervisors
  <2>2. ProcessesAreTyped' /\ SupervisorKnows'
    BY <1>2, <2>1 DEF ProcessesAreTyped, SupervisorKnows, count
  <2> QED BY <1>1, <1>2, <2>1, <2>2, ProcessesKeep DEF Working
<1>5. CASE Observe
  <2>1. /\ UNCHANGED <<prepareVars, version, onDisk, child, count>>
        /\ sup' = Sup("watch", event.program) /\ event' = [event EXCEPT !.fresh = FALSE]
    BY <1>5 DEF Observe
  <2>2. /\ event' \in Events /\ event'.start = event.start /\ event'.program = event.program
        /\ sup' \in Supervisors /\ sup'.at = "watch"
    BY <2>1 DEF Events, Sup, Supervisors, ProcessesAreTyped
  <2>3. ProcessesAreTyped' /\ SupervisorKnows'
    BY <2>1, <2>2 DEF ProcessesAreTyped, SupervisorKnows, count
  <2> QED BY <1>1, <2>1, <2>2, <2>3, ProcessesKeep DEF Working
<1>6. CASE Kill
  <2>1. /\ UNCHANGED <<prepareVars, version, onDisk, event, count>>
        /\ sup.active \in Programs
        /\ sup' \in Supervisors /\ sup'.at = "charge" /\ sup'.active = sup.active
        /\ child' = NoChild
    BY <1>6 DEF Kill, Sup, Supervisors, ProcessesAreTyped
  <2>2. ProcessesAreTyped' /\ SupervisorKnows'
    BY <1>2, <2>1 DEF ProcessesAreTyped, SupervisorKnows, count, NoChild
  <2> QED BY <1>1, <1>2, <2>1, <2>2, ProcessesKeep DEF Working
<1>7. CASE ChildEnded
  <2>1. /\ UNCHANGED <<prepareVars, version, onDisk, event, count>>
        /\ sup' \in Supervisors /\ sup'.at \in {"success", "failed"}
        /\ sup'.at = "success" => child.at = "done"
        /\ child' = NoChild
    BY <1>7, <1>3 DEF ChildEnded, Sup, Supervisors
  <2>2. ProcessesAreTyped' /\ SupervisorKnows'
    BY <1>2, <2>1 DEF ProcessesAreTyped, SupervisorKnows, count
  <2> QED BY <1>1, <1>2, <2>1, <2>2, ProcessesKeep DEF Working
<1>8. CASE SupervisorDies
  <2>1. /\ UNCHANGED <<prepareVars, version, charged, results, raw, event, starts>>
        /\ torn' \in BOOLEAN /\ deaths' \in 0 .. MaxDeaths
        /\ sup' \in Supervisors /\ sup'.at = "off"
        /\ child' \in {child, NoChild}
    <3>1. torn' \in BOOLEAN
      BY <1>8 DEF SupervisorDies, DiskIsTyped
    <3>2. deaths' \in 0 .. MaxDeaths
      BY <1>8, StudyAssumption DEF SupervisorDies, ProcessesAreTyped
    <3>3. sup' \in Supervisors /\ sup'.at = "off"
      BY <1>8, <1>3 DEF SupervisorDies, Sup, Supervisors
    <3> QED BY <1>8, <3>1, <3>2, <3>3 DEF SupervisorDies
  <2>2. ProcessesAreTyped' /\ SupervisorKnows'
    BY <1>2, <2>1 DEF ProcessesAreTyped, SupervisorKnows
  <2>3. DiskIsTyped' /\ FrozenInputs' /\ RowsAgree'
    BY <2>1 DEF DiskIsTyped, PrepareTypeOK, FrozenInputs, RowsAgree
  <2>4. ChildKnows'
    <3>1. CASE UNCHANGED child
      BY <2>1, <3>1 DEF ChildKnows, Working, Loads, Prepared, Unchanged, AllEntries, EntryOf, Key
    <3>2. CASE child' = NoChild
      BY <1>2, <3>2 DEF ChildKnows, Working
    <3> QED BY <2>1, <3>1, <3>2
  <2> QED BY <2>2, <2>3, <2>4
<1> QED BY <1>4, <1>5, <1>6, <1>7, <1>8

\* and charges the program.
LEMMA ChargeKeeps ==
  ASSUME RunInvariant, ChargeActive
  PROVE  RunInvariant'
<1> USE DEF RunInvariant, results, raw, count, prepareVars
<1>1. /\ UNCHANGED <<prepareVars, version, results, raw, torn, event, child, count>>
      /\ charged' = charged \cup {sup.active}
      /\ child = NoChild /\ sup.active \in Programs
      /\ sup' \in Supervisors /\ sup'.at \in {"failed", "launch"}
  BY DEF ChargeActive, Sup, Supervisors, SupervisorKnows, NoProgram
<1>2. DiskIsTyped' /\ ProcessesAreTyped' /\ FrozenInputs' /\ RowsAgree'
  BY <1>1 DEF DiskIsTyped, PrepareTypeOK, FrozenInputs, RowsAgree, ProcessesAreTyped
<1>3. child.at = "none"
  BY <1>1 DEF NoChild
<1>4. ChildKnows' /\ SupervisorKnows'
  BY <1>1, <1>3 DEF ChildKnows, SupervisorKnows, Working
<1> QED BY <1>2, <1>4

\* Every step of a run.
LEMMA RunKeepsRuns ==
  ASSUME RunInvariant, RunStep
  PROVE  RunInvariant'
<1>1. CASE ChildStep
  BY <1>1, BoundaryKeeps, WorkKeeps, FinishKeeps, IndexKeeps, NotifyKeeps, CombineKeeps, PublishRowsKeeps,
     PublishPointerKeeps, EndingsKeep DEF ChildStep
<1>2. CASE SupervisorStep
  BY <1>2, LaunchKeeps, WatchKeeps, ChargeKeeps DEF SupervisorStep
<1>3. CASE ChildFails \/ Start \/ Kill \/ SupervisorDies
  BY <1>3, EndingsKeep, StartKeeps, WatchKeeps
<1> QED BY <1>1, <1>2, <1>3 DEF RunStep

-----------------------------------------------------------------------------
(* The summaries.                                                          *)

\* Once there is a handoff there is one.
LEMMA PointerStays ==
  ASSUME RunInvariant, RunStep
  PROVE  pointer # {} => pointer' # {}
<1>1. CASE PublishPointer
  BY <1>1, PublishPointerKeeps
<1>2. CASE ~ PublishPointer
  BY <1>2 DEF RunStep, ChildStep, SupervisorStep, Boundary, Work, Finish, Index, Notify, Combine, PublishRows,
              Compare, ChildFails, Start, LaunchChild, Audit, Observe, Kill, ChargeActive, ChildEnded,
              SupervisorDies, onDisk, raw
<1> QED BY <1>1, <1>2

\* Commands that are no summaries leave them alone.
LEMMA RestKeepsSummaries ==
  ASSUME SummaryInvariant, UNCHANGED summaryVars, pointer # {} => pointer' # {}
  PROVE  SummaryInvariant'
BY DEF SummaryInvariant, SummariesAreTyped, SwapIsKnown, BundleIsWhole, summaryVars, Summarizing, AtRest, ShelfIsKnown,
       MovesAreOrdered

\* A summary goes on.
LEMMA PlaceIsTyped ==
  ASSUME SummariesAreTyped, NEW s \in Summaries, NEW at \in {"idle", "old", "new", "undo", "over"}
  PROVE  /\ To(s, at) \in [Summaries -> Places] /\ Over(s) \in [Summaries -> Places]
         /\ \A t \in Summaries \ {s} : To(s, at)[t] = summary[t] /\ Over(s)[t] = summary[t]
         /\ To(s, at)[s] = [summary[s] EXCEPT !.at = at]
         /\ Over(s)[s].at = "over" /\ Over(s)[s].old = {} /\ Over(s)[s].new = {}
BY DEF SummariesAreTyped, To, Over, Places, Idle

\* Two summaries at work, or one that died: nothing is said of the shelf.
LEMMA AnythingIsKept ==
  ASSUME SummaryInvariant, SummariesAreTyped', due' = Anything, pointer' # {},
         \A s \in Summaries : MovesAreOrdered(s)'
  PROVE  SummaryInvariant'
<1>1. Anything' = Anything
  BY DEF Anything
<1> QED BY <1>1 DEF SummaryInvariant, SwapIsKnown, BundleIsWhole

\* Steps of the one summary at work.
LEMMA SwapIsKept ==
  ASSUME SummaryInvariant, NEW s \in Summaries, s \in Summarizing, UNCHANGED pointer, SummariesAreTyped',
         \A t \in Summaries \ {s} : summary'[t] = summary[t],
         MovesAreOrdered(s)',
         due = Anything => due' = Anything,
         due # Anything => \/ AtRest(s)' /\ shelf' = due'
                           \/ ~ AtRest(s)' /\ \A d \in Shelves : ShelfIsKnown(s, d)'
  PROVE  SummaryInvariant'
<1>1. pointer' # {} /\ Anything' = Anything
  BY DEF SummaryInvariant, SwapIsKnown, Anything
<1>2. \A t \in Summaries : MovesAreOrdered(t)'
  BY DEF SummaryInvariant, SwapIsKnown, MovesAreOrdered, AtRest
<1>3. CASE due' = Anything
  BY <1>1, <1>2, <1>3, AnythingIsKept
<1>4. CASE due' # Anything
  <2>1. \A t \in Summaries \ {s} : AtRest(t) /\ AtRest(t)'
    BY <1>4 DEF SummaryInvariant, SwapIsKnown, AtRest, Summarizing
  <2>2. Summarizing' \subseteq {s}
    BY <2>1 DEF Summarizing
  <2>3. SwapIsKnown'
    BY <1>1, <1>2, <1>4, <2>2 DEF SwapIsKnown, Summarizing
  <2>4. BundleIsWhole'
    BY <1>1, <1>4 DEF BundleIsWhole, Summarizing
  <2> QED BY <2>3, <2>4 DEF SummaryInvariant
<1> QED BY <1>3, <1>4

\* A summary is started, perhaps next to another one.
LEMMA SummarizeKeeps ==
  ASSUME SummaryInvariant, NEW s \in Summaries, Summarize(s)
  PROVE  SummaryInvariant'
<1>1. /\ UNCHANGED <<shelf, aside, pointer>> /\ pointer # {}
      /\ summary' = To(s, "old") /\ summary[s].at = "idle"
      /\ due' = IF Summarizing = {} THEN shelf ELSE Anything
  BY DEF Summarize, ReadsHandoff, HandoffIsThere, runVars, onDisk, raw, Started
<1>2. /\ summary' \in [Summaries -> Places]
      /\ \A t \in Summaries \ {s} : summary'[t] = summary[t]
      /\ summary'[s] = [summary[s] EXCEPT !.at = "old"]
  BY <1>1, PlaceIsTyped DEF SummaryInvariant
<1>3. summary[s] \in Places /\ summary[s].old = {} /\ summary[s].new = {}
  BY <1>1 DEF SummaryInvariant, SummariesAreTyped, SwapIsKnown, MovesAreOrdered, AtRest
<1>4. summary'[s].at = "old" /\ summary'[s].old = {} /\ summary'[s].new = {}
  BY <1>2, <1>3 DEF Places
<1>5. SummariesAreTyped'
  <2>1. Anything \in [Shelves -> 0 .. MaxSummaries + 1]
    BY SummaryAssumption DEF Anything
  <2>2. shelf \in [Shelves -> 0 .. MaxSummaries + 1]
    BY SummaryAssumption DEF SummaryInvariant, SummariesAreTyped, Summaries, Empty
  <2> QED BY <1>1, <1>2, <2>1, <2>2 DEF SummaryInvariant, SummariesAreTyped
<1>6. \A t \in Summaries : MovesAreOrdered(t)'
  BY <1>2, <1>4 DEF SummaryInvariant, SwapIsKnown, MovesAreOrdered, AtRest
<1>7. CASE Summarizing = {}
  <2>1. Summarizing' = {s}
    BY <1>2, <1>4, <1>7 DEF Summarizing, AtRest
  <2>2. \A d \in Shelves : ShelfIsKnown(s, d)'
    BY <1>1, <1>4, <1>7 DEF ShelfIsKnown
  <2> QED BY <1>1, <1>5, <1>6, <2>1, <2>2 DEF SummaryInvariant, SwapIsKnown, BundleIsWhole
<1>8. CASE Summarizing # {}
  BY <1>1, <1>5, <1>6, <1>8, AnythingIsKept
<1> QED BY <1>7, <1>8

\* What is known of a summary at work.
LEMMA AtWork ==
  ASSUME SummaryInvariant, NEW s \in Summaries, summary[s].at \in {"old", "new", "undo"}
  PROVE  /\ s \in Summarizing /\ summary[s] \in Places
         /\ due # Anything => \A d \in Shelves : ShelfIsKnown(s, d)
         /\ Turn(s) \in Shelves
         /\ summary[s].at \in {"old", "new"} =>
              "figures" \notin summary[s].new /\ Turn(s) \notin summary[s].new
BY DEF SummaryInvariant, SummariesAreTyped, SwapIsKnown, Summarizing, AtRest, MovesAreOrdered, Turn, Shelves

\* The directory moved last was moved.
LEMMA LatestIsThere ==
  ASSUME NEW D \in SUBSET Shelves, D # {}
  PROVE  Latest(D) \in D
BY DEF Latest, Shelves

\* A directory is moved aside,
LEMMA MoveOldShelfKeeps ==
  ASSUME SummaryInvariant, NEW s \in Summaries, MoveOldShelf(s)
  PROVE  SummaryInvariant'
<1> DEFINE d == Turn(s)
<1>1. /\ s \in Summarizing /\ summary[s] \in Places /\ d \in Shelves /\ d \notin summary[s].new
      /\ "figures" \notin summary[s].new /\ summary[s].at = "old"
      /\ due # Anything => \A x \in Shelves : ShelfIsKnown(s, x)
  BY AtWork DEF MoveOldShelf
<1>2. UNCHANGED <<pointer, due>> /\ Empty' = Empty
  BY DEF MoveOldShelf, runVars, onDisk, raw, Empty
<1>3. CASE shelf[d] = Empty
  <2>1. /\ summary' \in [Summaries -> Places] /\ UNCHANGED <<shelf, aside>>
        /\ \A t \in Summaries \ {s} : summary'[t] = summary[t]
        /\ summary'[s] = [summary[s] EXCEPT !.at = "new"]
    <3>1. summary' = To(s, "new") /\ UNCHANGED <<shelf, aside>>
      BY <1>3 DEF MoveOldShelf
    <3> QED BY <3>1, PlaceIsTyped DEF SummaryInvariant
  <2>2. summary'[s].at = "new" /\ summary'[s].old = summary[s].old /\ summary'[s].new = summary[s].new
    BY <1>1, <2>1 DEF Places
  <2>3. SummariesAreTyped' /\ MovesAreOrdered(s)' /\ ~ AtRest(s)'
    BY <1>1, <1>2, <2>1, <2>2 DEF SummariesAreTyped, MovesAreOrdered, AtRest, SummaryInvariant
  <2>4. due # Anything => \A x \in Shelves : ShelfIsKnown(s, x)'
    BY <1>1, <1>2, <2>1, <2>2 DEF ShelfIsKnown
  <2> QED BY <1>1, <1>2, <2>1, <2>3, <2>4, SwapIsKept
<1>4. CASE shelf[d] # Empty
  <2>1. /\ shelf' = [shelf EXCEPT ![d] = Empty]
        /\ aside' = [aside EXCEPT ![s][d] = shelf[d]]
        /\ summary' = [summary EXCEPT ![s].at = "new", ![s].old = @ \cup {d}]
    BY <1>4 DEF MoveOldShelf
  <2>2. /\ \A t \in Summaries \ {s} : summary'[t] = summary[t]
        /\ summary'[s] = [summary[s] EXCEPT !.at = "new", !.old = @ \cup {d}]
        /\ summary' \in [Summaries -> Places]
    BY <1>1, <2>1 DEF SummaryInvariant, SummariesAreTyped, Places
  <2>3. summary'[s].at = "new" /\ summary'[s].old = summary[s].old \cup {d} /\ summary'[s].new = summary[s].new
    BY <1>1, <2>2 DEF Places
  <2>4. /\ shelf' \in [Shelves -> Summaries \cup {Empty}]
        /\ aside' \in [Summaries -> [Shelves -> Summaries \cup {Empty}]]
        /\ shelf'[d] = Empty /\ aside'[s][d] = shelf[d]
        /\ \A x \in Shelves \ {d} : shelf'[x] = shelf[x] /\ aside'[s][x] = aside[s][x]
    BY <1>1, <2>1 DEF SummaryInvariant, SummariesAreTyped
  <2>5. SummariesAreTyped' /\ MovesAreOrdered(s)' /\ ~ AtRest(s)'
    BY <1>1, <1>2, <2>2, <2>3, <2>4 DEF SummariesAreTyped, MovesAreOrdered, AtRest, SummaryInvariant
  <2>6. ASSUME due # Anything, NEW x \in Shelves PROVE ShelfIsKnown(s, x)'
    <3>1. ShelfIsKnown(s, x) /\ ShelfIsKnown(s, d)
      BY <1>1, <2>6
    <3> QED BY <1>1, <1>2, <1>4, <2>3, <2>4, <3>1 DEF ShelfIsKnown
  <2> QED BY <1>1, <1>2, <2>2, <2>5, <2>6, SwapIsKept
<1> QED BY <1>3, <1>4

\* and the new one moved in its place, if nothing is in the way.
LEMMA MoveNewShelfKeeps ==
  ASSUME SummaryInvariant, NEW s \in Summaries, MoveNewShelf(s)
  PROVE  SummaryInvariant'
<1> DEFINE d == Turn(s)
<1>1. /\ s \in Summarizing /\ summary[s] \in Places /\ d \in Shelves /\ d \notin summary[s].new
      /\ "figures" \notin summary[s].new /\ summary[s].at = "new"
      /\ due # Anything => \A x \in Shelves : ShelfIsKnown(s, x)
  BY AtWork DEF MoveNewShelf
<1>2. UNCHANGED pointer /\ Empty' = Empty /\ Anything' = Anything
  BY DEF MoveNewShelf, runVars, onDisk, raw, Empty, Anything
<1>3. CASE shelf[d] # Empty
  <2>1. /\ summary' \in [Summaries -> Places] /\ UNCHANGED <<shelf, aside, due>>
        /\ \A t \in Summaries \ {s} : summary'[t] = summary[t]
        /\ summary'[s] = [summary[s] EXCEPT !.at = "undo"]
    <3>1. summary' = To(s, "undo") /\ UNCHANGED <<shelf, aside, due>>
      BY <1>3 DEF MoveNewShelf
    <3> QED BY <3>1, PlaceIsTyped DEF SummaryInvariant
  <2>2. summary'[s].at = "undo" /\ summary'[s].old = summary[s].old /\ summary'[s].new = summary[s].new
    BY <1>1, <2>1 DEF Places
  <2>3. SummariesAreTyped' /\ MovesAreOrdered(s)' /\ ~ AtRest(s)'
    BY <1>1, <1>2, <2>1, <2>2 DEF SummariesAreTyped, MovesAreOrdered, AtRest, SummaryInvariant
  <2>4. due # Anything => \A x \in Shelves : ShelfIsKnown(s, x)'
    BY <1>1, <1>2, <2>1, <2>2 DEF ShelfIsKnown
  <2> QED BY <1>1, <1>2, <2>1, <2>3, <2>4, SwapIsKept
<1>4. CASE shelf[d] = Empty /\ d = "aggregate"
  <2>1. /\ shelf' = [shelf EXCEPT ![d] = s]
        /\ summary' = [summary EXCEPT ![s].at = "old", ![s].new = {d}]
        /\ UNCHANGED <<aside, due>>
    BY <1>4 DEF MoveNewShelf
  <2>2. /\ \A t \in Summaries \ {s} : summary'[t] = summary[t]
        /\ summary'[s] = [summary[s] EXCEPT !.at = "old", !.new = {d}]
        /\ summary' \in [Summaries -> Places]
    BY <1>1, <2>1 DEF SummaryInvariant, SummariesAreTyped, Places
  <2>3. summary'[s].at = "old" /\ summary'[s].old = summary[s].old /\ summary'[s].new = {d}
    BY <1>1, <2>2 DEF Places
  <2>4. /\ shelf' \in [Shelves -> Summaries \cup {Empty}]
        /\ shelf'[d] = s
        /\ \A x \in Shelves \ {d} : shelf'[x] = shelf[x]
    BY <1>1, <2>1 DEF SummaryInvariant, SummariesAreTyped
  <2>5. SummariesAreTyped' /\ MovesAreOrdered(s)' /\ ~ AtRest(s)'
    BY <1>1, <1>2, <1>4, <2>1, <2>2, <2>3, <2>4 DEF SummariesAreTyped, MovesAreOrdered, AtRest, SummaryInvariant
  <2>6. ASSUME due # Anything, NEW x \in Shelves PROVE ShelfIsKnown(s, x)'
    <3>1. ShelfIsKnown(s, x) /\ ShelfIsKnown(s, d) /\ summary[s].new = {}
      BY <1>1, <1>4, <2>6 DEF Places, Shelves
    <3> QED BY <1>1, <1>2, <1>4, <2>1, <2>3, <2>4, <3>1 DEF ShelfIsKnown
  <2> QED BY <1>1, <1>2, <2>1, <2>2, <2>5, <2>6, SwapIsKept
<1>5. CASE shelf[d] = Empty /\ d = "figures"
  <2>1. /\ shelf' = [shelf EXCEPT ![d] = s]
        /\ summary' = Over(s)
        /\ aside' = [aside EXCEPT ![s] = Clear]
        /\ due' = IF due = Anything THEN Anything ELSE [x \in Shelves |-> s]
    BY <1>5 DEF MoveNewShelf
  <2>2. /\ summary' \in [Summaries -> Places]
        /\ \A t \in Summaries \ {s} : summary'[t] = summary[t]
        /\ summary'[s].at = "over" /\ summary'[s].old = {} /\ summary'[s].new = {}
    BY <2>1, PlaceIsTyped DEF SummaryInvariant
  <2>3. /\ shelf' \in [Shelves -> Summaries \cup {Empty}]
        /\ aside' \in [Summaries -> [Shelves -> Summaries \cup {Empty}]]
        /\ shelf'[d] = s
        /\ \A x \in Shelves \ {d} : shelf'[x] = shelf[x]
    BY <1>1, <2>1 DEF SummaryInvariant, SummariesAreTyped, Clear
  <2>4. due' \in [Shelves -> 0 .. MaxSummaries + 1]
    BY <2>1, SummaryAssumption DEF Anything, Summaries, SummaryInvariant, SummariesAreTyped
  <2>5. SummariesAreTyped' /\ MovesAreOrdered(s)' /\ AtRest(s)'
    BY <1>2, <2>2, <2>3, <2>4 DEF SummariesAreTyped, MovesAreOrdered, AtRest
  <2>6. ASSUME due # Anything PROVE shelf' = due'
    <3>1. "aggregate" \in summary[s].new /\ "aggregate" \in Shelves
      BY <1>5 DEF Turn, Shelves
    <3>2. ShelfIsKnown(s, "aggregate")
      BY <1>1, <2>6, <3>1
    <3>3. \A x \in Shelves : shelf'[x] = s
      BY <1>5, <2>3, <3>1, <3>2 DEF ShelfIsKnown, Shelves
    <3> QED BY <2>1, <2>3, <2>6, <3>3
  <2> QED BY <1>1, <1>2, <2>1, <2>2, <2>5, <2>6, SwapIsKept
<1> QED BY <1>1, <1>3, <1>4, <1>5 DEF Shelves

\* A failure starts the rollback.
LEMMA MoveShelfFailsKeeps ==
  ASSUME SummaryInvariant, NEW s \in Summaries, MoveShelfFails(s)
  PROVE  SummaryInvariant'
<1>1. /\ s \in Summarizing /\ summary[s] \in Places
      /\ due # Anything => \A x \in Shelves : ShelfIsKnown(s, x)
  BY AtWork DEF MoveShelfFails
<1>2. UNCHANGED <<pointer, shelf, aside, due>> /\ Empty' = Empty
  BY DEF MoveShelfFails, onDisk, raw, Empty
<1>3. summary' = To(s, "undo")
  BY DEF MoveShelfFails
<1>4. /\ summary' \in [Summaries -> Places]
      /\ \A t \in Summaries \ {s} : summary'[t] = summary[t]
      /\ summary'[s] = [summary[s] EXCEPT !.at = "undo"]
  BY <1>3, PlaceIsTyped DEF SummaryInvariant
<1>5. summary'[s].at = "undo" /\ summary'[s].old = summary[s].old /\ summary'[s].new = summary[s].new
  BY <1>1, <1>4 DEF Places
<1>6. SummariesAreTyped' /\ MovesAreOrdered(s)' /\ ~ AtRest(s)'
  BY <1>2, <1>4, <1>5 DEF SummariesAreTyped, MovesAreOrdered, AtRest, SummaryInvariant
<1>7. due # Anything => \A x \in Shelves : ShelfIsKnown(s, x)'
  BY <1>1, <1>2, <1>5 DEF ShelfIsKnown
<1> QED BY <1>1, <1>2, <1>4, <1>6, <1>7, SwapIsKept

\* What is in place goes back,
LEMMA TakeBackKeeps ==
  ASSUME SummaryInvariant, NEW s \in Summaries, TakeBack(s)
  PROVE  SummaryInvariant'
<1> DEFINE d == Latest(summary[s].new)
<1>1. /\ s \in Summarizing /\ summary[s] \in Places /\ summary[s].at = "undo"
      /\ due # Anything => \A x \in Shelves : ShelfIsKnown(s, x)
  BY AtWork DEF TakeBack
<1>2. d \in Shelves /\ d \in summary[s].new
  BY <1>1, LatestIsThere DEF TakeBack, Places
<1>3. UNCHANGED <<pointer, aside, due>> /\ Empty' = Empty
  BY DEF TakeBack, runVars, onDisk, raw, Empty
<1>4. /\ shelf' = [shelf EXCEPT ![d] = Empty]
      /\ summary' = [summary EXCEPT ![s].new = @ \ {d}]
  BY DEF TakeBack
<1> HIDE DEF d
<1>5. /\ \A t \in Summaries \ {s} : summary'[t] = summary[t]
      /\ summary'[s] = [summary[s] EXCEPT !.new = @ \ {d}]
      /\ summary' \in [Summaries -> Places]
  BY <1>1, <1>2, <1>4 DEF SummaryInvariant, SummariesAreTyped, Places
<1>6. summary'[s].at = "undo" /\ summary'[s].old = summary[s].old /\ summary'[s].new = summary[s].new \ {d}
  BY <1>1, <1>5 DEF Places
<1>7. /\ shelf' \in [Shelves -> Summaries \cup {Empty}]
      /\ shelf'[d] = Empty
      /\ \A x \in Shelves \ {d} : shelf'[x] = shelf[x]
  BY <1>2, <1>4 DEF SummaryInvariant, SummariesAreTyped
<1>8. SummariesAreTyped' /\ MovesAreOrdered(s)' /\ ~ AtRest(s)'
  BY <1>3, <1>5, <1>6, <1>7 DEF SummariesAreTyped, MovesAreOrdered, AtRest, SummaryInvariant
<1>9. ASSUME due # Anything, NEW x \in Shelves PROVE ShelfIsKnown(s, x)'
  <2>1. ShelfIsKnown(s, x) /\ ShelfIsKnown(s, d)
    BY <1>1, <1>2, <1>9
  <2> QED BY <1>2, <1>3, <1>6, <1>7, <2>1 DEF ShelfIsKnown
<1> QED BY <1>1, <1>3, <1>5, <1>8, <1>9, SwapIsKept

\* and what was moved aside, unless another summary is in the way.
LEMMA PutBackKeeps ==
  ASSUME SummaryInvariant, NEW s \in Summaries, PutBack(s)
  PROVE  SummaryInvariant'
<1> DEFINE d == Latest(summary[s].old)
<1>1. /\ s \in Summarizing /\ summary[s] \in Places /\ summary[s].at = "undo" /\ summary[s].new = {}
      /\ due # Anything => \A x \in Shelves : ShelfIsKnown(s, x)
  BY AtWork DEF PutBack
<1>2. d \in Shelves /\ d \in summary[s].old
  BY <1>1, LatestIsThere DEF PutBack, Places
<1>3. UNCHANGED <<pointer, due>> /\ Empty' = Empty
  BY DEF PutBack, runVars, onDisk, raw, Empty
<1>4. IF shelf[d] # Empty
      THEN /\ aside' = [aside EXCEPT ![s] = Clear]
           /\ summary' = Over(s)
           /\ UNCHANGED shelf
      ELSE /\ shelf' = [shelf EXCEPT ![d] = aside[s][d]]
           /\ aside' = [aside EXCEPT ![s][d] = Empty]
           /\ summary' = [summary EXCEPT ![s].old = @ \ {d}]
  BY DEF PutBack
<1> HIDE DEF d
<1>5. CASE shelf[d] # Empty
  <2>0. aside' = [aside EXCEPT ![s] = Clear] /\ summary' = Over(s) /\ UNCHANGED shelf
    BY <1>4, <1>5
  <2>1. due = Anything
    BY <1>1, <1>2, <1>5 DEF ShelfIsKnown
  <2>2. /\ summary' \in [Summaries -> Places]
        /\ \A t \in Summaries \ {s} : summary'[t] = summary[t]
        /\ summary'[s].at = "over" /\ summary'[s].old = {} /\ summary'[s].new = {}
    BY <2>0, PlaceIsTyped DEF SummaryInvariant
  <2>3. aside' \in [Summaries -> [Shelves -> Summaries \cup {Empty}]]
    BY <2>0 DEF SummaryInvariant, SummariesAreTyped, Clear
  <2>4. SummariesAreTyped' /\ MovesAreOrdered(s)'
    BY <1>3, <2>0, <2>2, <2>3 DEF SummariesAreTyped, MovesAreOrdered, AtRest, SummaryInvariant
  <2> QED BY <1>1, <1>3, <2>1, <2>2, <2>4, SwapIsKept
<1>6. CASE shelf[d] = Empty
  <2>0. /\ shelf' = [shelf EXCEPT ![d] = aside[s][d]]
        /\ aside' = [aside EXCEPT ![s][d] = Empty]
        /\ summary' = [summary EXCEPT ![s].old = @ \ {d}]
    BY <1>4, <1>6
  <2>1. /\ \A t \in Summaries \ {s} : summary'[t] = summary[t]
        /\ summary'[s] = [summary[s] EXCEPT !.old = @ \ {d}]
        /\ summary' \in [Summaries -> Places]
    BY <1>1, <1>2, <2>0 DEF SummaryInvariant, SummariesAreTyped, Places
  <2>2. summary'[s].at = "undo" /\ summary'[s].old = summary[s].old \ {d} /\ summary'[s].new = {}
    BY <1>1, <2>1 DEF Places
  <2>3. /\ shelf' \in [Shelves -> Summaries \cup {Empty}]
        /\ shelf'[d] = aside[s][d]
        /\ \A x \in Shelves \ {d} : shelf'[x] = shelf[x]
        /\ aside' \in [Summaries -> [Shelves -> Summaries \cup {Empty}]]
        /\ \A x \in Shelves \ {d} : aside'[s][x] = aside[s][x]
    BY <1>2, <2>0 DEF SummaryInvariant, SummariesAreTyped
  <2>4. SummariesAreTyped' /\ MovesAreOrdered(s)' /\ ~ AtRest(s)'
    BY <1>3, <2>1, <2>2, <2>3 DEF SummariesAreTyped, MovesAreOrdered, AtRest, SummaryInvariant
  <2>5. ASSUME due # Anything, NEW x \in Shelves PROVE ShelfIsKnown(s, x)'
    <3>1. ShelfIsKnown(s, x) /\ ShelfIsKnown(s, d)
      BY <1>1, <1>2, <2>5
    <3> QED BY <1>1, <1>2, <1>3, <2>2, <2>3, <3>1 DEF ShelfIsKnown
  <2> QED BY <1>1, <1>3, <2>1, <2>4, <2>5, SwapIsKept
<1> QED BY <1>5, <1>6

\* Then both are as before.
LEMMA UndoEndsKeeps ==
  ASSUME SummaryInvariant, NEW s \in Summaries, UndoEnds(s)
  PROVE  SummaryInvariant'
<1>1. /\ s \in Summarizing /\ summary[s] \in Places /\ summary[s].old = {} /\ summary[s].new = {}
      /\ due # Anything => \A x \in Shelves : ShelfIsKnown(s, x)
  BY AtWork DEF UndoEnds
<1>2. UNCHANGED <<pointer, shelf, aside, due>> /\ summary' = Over(s)
  BY DEF UndoEnds, runVars, onDisk, raw
<1>3. /\ summary' \in [Summaries -> Places]
      /\ \A t \in Summaries \ {s} : summary'[t] = summary[t]
      /\ summary'[s].at = "over" /\ summary'[s].old = {} /\ summary'[s].new = {}
  BY <1>2, PlaceIsTyped DEF SummaryInvariant
<1>4. SummariesAreTyped' /\ MovesAreOrdered(s)' /\ AtRest(s)'
  BY <1>2, <1>3 DEF SummariesAreTyped, MovesAreOrdered, AtRest, SummaryInvariant
<1>5. ASSUME due # Anything PROVE shelf' = due'
  <2>1. \A x \in Shelves : shelf[x] = due[x]
    BY <1>1, <1>5 DEF ShelfIsKnown
  <2> QED BY <1>2, <2>1 DEF SummaryInvariant, SummariesAreTyped
<1> QED BY <1>1, <1>2, <1>3, <1>4, <1>5, SwapIsKept

\* A summary that dies leaves anything.
LEMMA SummaryDiesKeeps ==
  ASSUME SummaryInvariant, NEW s \in Summaries, SummaryDies(s)
  PROVE  SummaryInvariant'
<1>1. s \in Summarizing
  BY DEF SummaryDies, Summarizing
<1>2. /\ UNCHANGED <<pointer, shelf>> /\ summary' = Over(s) /\ due' = Anything
      /\ aside' = [aside EXCEPT ![s] = Clear]
  BY DEF SummaryDies, onDisk, raw
<1>3. /\ summary' \in [Summaries -> Places]
      /\ \A t \in Summaries \ {s} : summary'[t] = summary[t]
      /\ summary'[s].at = "over" /\ summary'[s].old = {} /\ summary'[s].new = {}
  BY <1>2, PlaceIsTyped DEF SummaryInvariant
<1>4. SummariesAreTyped'
  <2>1. Anything \in [Shelves -> 0 .. MaxSummaries + 1]
    BY SummaryAssumption DEF Anything
  <2>2. aside' \in [Summaries -> [Shelves -> Summaries \cup {Empty}]]
    BY <1>2 DEF SummaryInvariant, SummariesAreTyped, Clear
  <2> QED BY <1>2, <1>3, <2>1, <2>2 DEF SummariesAreTyped, SummaryInvariant
<1>5. \A t \in Summaries : MovesAreOrdered(t)'
  BY <1>3 DEF SummaryInvariant, SwapIsKnown, MovesAreOrdered, AtRest
<1>6. pointer' # {}
  BY <1>1, <1>2 DEF SummaryInvariant, SwapIsKnown
<1> QED BY <1>2, <1>4, <1>5, <1>6, AnythingIsKept

-----------------------------------------------------------------------------
(* All commands of a study.                                                *)

\* Summaries keep what runs have made, and their own promises.
LEMMA InputsAndSummaries ==
  ASSUME StudyInvariant, NEW s \in Summaries, Summarize(s) \/ Swap(s) \/ MoveShelfFails(s) \/ SummaryDies(s)
  PROVE  StudyInvariant'
<1>1. UNCHANGED <<prepareVars, version, onDisk, event, child, sup, starts>> /\ deaths' \in 0 .. MaxDeaths
  BY StudyAssumption
     DEF Summarize, Swap, MoveOldShelf, MoveNewShelf, TakeBack, PutBack, UndoEnds, MoveShelfFails, SummaryDies,
         runVars, count, StudyInvariant, RunInvariant, ProcessesAreTyped
<1>2. RunInvariant'
  BY <1>1, SummariesKeepRuns DEF StudyInvariant
<1>3. SummaryInvariant'
  BY SummarizeKeeps, MoveOldShelfKeeps, MoveNewShelfKeeps, TakeBackKeeps, PutBackKeeps, UndoEndsKeeps,
     MoveShelfFailsKeeps, SummaryDiesKeeps DEF Swap, StudyInvariant
<1> QED BY <1>2, <1>3 DEF StudyInvariant

\* Every command of a study.
LEMMA StudyStepKeeps ==
  ASSUME StudyInvariant, [StudyNext]_studyVars
  PROVE  StudyInvariant'
<1>1. CASE Prepare
  <2>1. RunInvariant'
    BY <1>1, PrepareKeepsRuns DEF Prepare, StudyInvariant
  <2>2. SummaryInvariant'
    BY <1>1, RestKeepsSummaries DEF Prepare, StudyInvariant, runVars, onDisk, raw
  <2> QED BY <2>1, <2>2 DEF StudyInvariant
<1>2. CASE RunCommand
  BY <1>2, RunKeepsRuns, PointerStays, RestKeepsSummaries DEF RunCommand, StudyInvariant
<1>3. CASE InputsChange \/ Upgrade
  <2>1. UNCHANGED <<summaryVars, pointer>>
    BY <1>3 DEF InputsChange, Upgrade, runVars, onDisk, raw
  <2> QED BY <1>3, <2>1, ChangesKeepRuns, RestKeepsSummaries DEF StudyInvariant
<1>4. CASE \E s \in Summaries : Summarize(s) \/ Swap(s) \/ MoveShelfFails(s) \/ SummaryDies(s)
  BY <1>4, InputsAndSummaries
<1>5. CASE UNCHANGED studyVars
  <2>1. UNCHANGED <<prepareVars, version, onDisk, event, child, sup, starts, deaths, summaryVars, pointer>>
    BY <1>5 DEF studyVars, runVars, count, onDisk, raw
  <2>2. deaths' \in 0 .. MaxDeaths
    BY <2>1 DEF StudyInvariant, RunInvariant, ProcessesAreTyped
  <2> QED BY <2>1, <2>2, SummariesKeepRuns, RestKeepsSummaries DEF StudyInvariant
<1> QED BY <1>1, <1>2, <1>3, <1>4, <1>5 DEF StudyNext

\* The invariant holds at first.
LEMMA StudyBegins == StudyInit => StudyInvariant
BY RunBegins, SummariesBegin DEF StudyInit, StudyInvariant

\* For any number of programs, versions, supervisors, summaries and deaths: evidence is
\* made from the frozen inputs, the progress, each handoff and a success say what the
\* complete checkpoints say, and a summary that ran alone swapped both directories or none.
THEOREM ResultsAlwaysAgree == StudySpec => []ResultsAgree
<1>1. StudyInvariant /\ [StudyNext]_studyVars => StudyInvariant'
  BY StudyStepKeeps
<1> QED BY StudyBegins, <1>1, InvariantAgrees, PTL DEF StudySpec

\* Programs are charged, planned and completed as ProgramCheckpoint says, by three steps;
LEMMA RunKeepsPromise ==
  ASSUME RunInvariant, RunStep
  PROVE  [StudyPromise!Next]_StudyPromise!vars
<1> USE DEF onDisk, results, raw
<1>1. CASE Work
  <2> DEFINE k == Key(child.program)
  <2>1. k \in Programs \X Versions /\ state[k] = "none" /\ child.skip = (child.program \in charged)
    BY <1>1, KeyIsTyped DEF Work, Working, ChildKnows, RunInvariant
  <2>2. k \in charged \X Versions <=> child.program \in charged
    BY DEF Key, RunInvariant, DiskIsTyped
  <2>3. /\ limited' = limited \cup ({k} \cap (charged \X Versions))
        /\ state' = [state EXCEPT ![k] = "planned"]
        /\ UNCHANGED charged
    BY <1>1, <2>1, <2>2 DEF Work
  <2>4. StudyPromise!Plan(k)
    BY <2>1, <2>3 DEF StudyPromise!Plan
  <2> QED BY <2>1, <2>4 DEF StudyPromise!Next
<1>2. CASE Finish
  <2> DEFINE k == Key(child.program)
  <2>1. k \in Programs \X Versions /\ state[k] = "planned"
    BY <1>2, KeyIsTyped DEF Finish, Working, ChildKnows, RunInvariant
  <2>2. StudyPromise!Finish(k)
    BY <1>2, <2>1 DEF StudyPromise!Finish, Finish
  <2> QED BY <2>1, <2>2 DEF StudyPromise!Next
<1>3. CASE ChargeActive
  BY <1>3 DEF ChargeActive, StudyPromise!Next, StudyPromise!Charge
<1>4. CASE ~ (Work \/ Finish \/ ChargeActive)
  <2>1. UNCHANGED <<charged, state, limited>>
    BY <1>4 DEF RunStep, ChildStep, SupervisorStep, Boundary, Index, Notify, Combine, PublishRows, PublishPointer,
              Compare, ChildFails, Start, LaunchChild, Audit, Observe, Kill, ChildEnded, SupervisorDies
  <2> QED BY <2>1 DEF StudyPromise!vars
<1> QED BY <1>1, <1>2, <1>3, <1>4

\* and all others leave it alone.
LEMMA StudyStepKeepsPromise ==
  ASSUME StudyInvariant, [StudyNext]_studyVars
  PROVE  [StudyPromise!Next]_StudyPromise!vars
<1>1. CASE RunCommand
  BY <1>1, RunKeepsPromise DEF RunCommand, StudyInvariant
<1>2. CASE ~ RunCommand
  <2>1. UNCHANGED <<charged, state, limited>>
    BY <1>2 DEF StudyNext, Prepare, InputsChange, Upgrade, Summarize, Swap, MoveOldShelf, MoveNewShelf, TakeBack,
                PutBack, UndoEnds, MoveShelfFails, SummaryDies, studyVars, runVars, onDisk, results
  <2> QED BY <2>1 DEF StudyPromise!vars
<1> QED BY <1>1, <1>2

\* A study implements ProgramCheckpoint in each version of the runtime: results are
\* decided once, and limited just if the program had been charged by then.
THEOREM StudyAlwaysKeepsPromise == StudySpec => StudyKeepsPromise
<1>1. StudyInit => StudyPromise!Init
  BY DEF StudyInit, RunInit, StudyPromise!Init
<1>2. StudyInvariant /\ [StudyNext]_studyVars => StudyInvariant' /\ [StudyPromise!Next]_StudyPromise!vars
  BY StudyStepKeeps, StudyStepKeepsPromise
<1> QED BY StudyBegins, <1>1, <1>2, PTL DEF StudySpec, StudyKeepsPromise, StudyPromise!Spec

=============================================================================
