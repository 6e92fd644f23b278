------------------------------ MODULE StudyRun ------------------------------
(***************************************************************************)
(* A study under its supervisor (advisor_study/supervisor.py, run_control  *)
(* .py and the run phase of cli.py): the supervisor starts the study as a  *)
(* child process, watches the file in which the child names the program it *)
(* works on, kills the child when that program is over its budget, charges *)
(* the program in the run control, and starts the next child.  A child     *)
(* takes the programs in their order, each from what its checkpoint        *)
(* says, and hands all the rows over at the end.                           *)
(*                                                                         *)
(* Time is not modelled: the budget of a program may be over at any moment *)
(* after the supervisor has seen its start.  What a child does on one      *)
(* program is the module ProgramEvidence; here it is three steps.          *)
(***************************************************************************)
EXTENDS StudyPrepare, FiniteSets

CONSTANTS
  N,            \* number of programs
  MaxVersions,  \* bound: versions of the program runtime
  MaxStarts,    \* bound: supervisors that are started
  MaxDeaths     \* bound: commands that fail or die

ASSUME StudyAssumption ==
  N \in Nat \ {0} /\ MaxVersions \in Nat \ {0} /\ MaxStarts \in Nat /\ MaxDeaths \in Nat

Programs  == 1..N
NoProgram == 0
Versions  == 1..MaxVersions

VARIABLES
  version,   \* PROGRAM_RUNTIME_IMPLEMENTATION_VERSION of the code
  charged,   \* programs of which run_control.json holds a skip
  state,     \* of the active checkpoint of each program, in each version
  limited,   \* those whose result is a coverage limitation
  basis,     \* the inputs that checkpoints were made from (only properties read it)
  progress,  \* entries of the checkpoint progress
  published, \* the raw handoffs in their directories, named by their contents
  pointer,   \* the active one: its entries, or {}
  event,     \* current_program.json, and if it changed since the last start seen
  torn,      \* the last record of the supervisor audit was written in part
  child,     \* the process that holds the writer lock of the study
  sup,       \* the supervisor
  starts, deaths

results == <<state, limited, basis>>
raw     == <<progress, published, pointer>>
onDisk  == <<charged, results, raw, torn>>
count   == <<starts, deaths>>
runVars == <<version, onDisk, event, child, sup, count>>

NoChild == [at |-> "none", program |-> NoProgram, skip |-> FALSE]
Child(at, p) == [at |-> at, program |-> p, skip |-> FALSE]
Sup(at, p) == [at |-> at, active |-> p]

RunInit ==
  /\ version = 1
  /\ charged = {} /\ state = [k \in Programs \X Versions |-> "none"] /\ limited = {}
  /\ basis = {}
  /\ progress = {} /\ published = {} /\ pointer = {} /\ torn = FALSE
  /\ event = [program |-> NoProgram, start |-> FALSE, fresh |-> FALSE]
  /\ child = NoChild
  /\ sup = Sup("off", NoProgram)
  /\ starts = 0 /\ deaths = 0

Working == child.at \notin {"none", "done", "failed"}

\* The checkpoint of a program is found by what it was made from: the version
\* of the runtime is a part of that.
Key(p) == <<p, version>>

-----------------------------------------------------------------------------
(* The child.                                                              *)

Publish(p, start) == event' = [program |-> p, start |-> start, fresh |-> TRUE]

\* Faulty variant: the run control is not read at the boundary.
BoundaryUndecided ==
  /\ child.at = "boundary"
  /\ LET p == child.program
         next == CASE state[Key(p)] = "complete" -> "index"
                   [] state[Key(p)] = "planned"  -> "finish"
                   [] state[Key(p)] = "none"     -> "work"
     IN /\ child' = [child EXCEPT !.at = next]
        /\ IF next = "index" THEN UNCHANGED event ELSE Publish(p, TRUE)
  /\ UNCHANGED <<prepareVars, version, onDisk, sup, count>>

\* At the boundary of a program the child reads the run control and the
\* checkpoint. It announces a program that it has to work on.
Boundary ==
  /\ child.at = "boundary"
  /\ LET p == child.program
         next == CASE state[Key(p)] = "complete" -> "index"
                   [] state[Key(p)] = "planned"  -> "finish"
                   [] state[Key(p)] = "none"     -> "work"
     IN /\ child' = [child EXCEPT !.at = next, !.skip = p \in charged]
        /\ IF next = "index" THEN UNCHANGED event ELSE Publish(p, TRUE)
  /\ UNCHANGED <<prepareVars, version, onDisk, sup, count>>

\* The program runs, or what it left is recovered, up to the planned checkpoint.
Work ==
  /\ child.at = "work"
  /\ state' = [state EXCEPT ![Key(child.program)] = "planned"]
  /\ limited' = limited \cup (IF child.skip THEN {Key(child.program)} ELSE {})
  /\ basis' = basis \cup {inputs}
  /\ child' = [child EXCEPT !.at = "finish"]
  /\ UNCHANGED <<prepareVars, version, charged, raw, torn, event, sup, count>>

\* Faulty variant: the cleanup is left to a later run.
FinishLater ==
  /\ child.at = "finish"
  /\ child' = [child EXCEPT !.at = "index"]
  /\ UNCHANGED <<prepareVars, version, onDisk, event, sup, count>>

Finish ==
  /\ child.at = "finish"
  /\ state' = [state EXCEPT ![Key(child.program)] = "complete"]
  /\ child' = [child EXCEPT !.at = "index"]
  /\ UNCHANGED <<prepareVars, version, charged, limited, basis, raw, torn, event, sup, count>>

EntryOf(p) == [key |-> Key(p), limited |-> Key(p) \in limited]
AllEntries == {EntryOf(p) : p \in Programs}

\* A progress of another version is not taken up: a new one is begun.
Chain == {e \in progress : e.key[2] = version}

\* The progress takes the entry of a program once: another one is refused.
Index ==
  /\ child.at = "index"
  /\ \A e \in Chain : e.key = Key(child.program) => e = EntryOf(child.program)
  /\ progress' = Chain \cup {EntryOf(child.program)}
  /\ child' = [child EXCEPT !.at = "notify"]
  /\ UNCHANGED <<prepareVars, version, charged, results, published, pointer, torn, event, sup,
                 count>>

Notify ==
  /\ child.at = "notify"
  /\ Publish(child.program, FALSE)
  /\ child' = IF child.program + 1 \in Programs
              THEN [child EXCEPT !.at = "boundary", !.program = @ + 1]
              ELSE [child EXCEPT !.at = "combine"]
  /\ UNCHANGED <<prepareVars, version, onDisk, sup, count>>

-----------------------------------------------------------------------------
(* The raw handoff.                                                        *)

\* The progress must be that of all the programs. An active handoff is not
\* replaced.
Combine ==
  /\ child.at = "combine"
  /\ progress = AllEntries
  /\ child' = [child EXCEPT !.at = IF pointer = {} THEN "stage" ELSE "compare"]
  /\ UNCHANGED <<prepareVars, version, onDisk, event, sup, count>>

\* The files of the handoff are staged, validated, and renamed in one piece to
\* the directory of their contents; one that is there is kept.
PublishRows ==
  /\ child.at = "stage"
  /\ published' = published \cup {progress}
  /\ child' = [child EXCEPT !.at = "point"]
  /\ UNCHANGED <<prepareVars, version, charged, results, progress, pointer, torn, event, sup,
                 count>>

PublishPointer ==
  /\ child.at = "point"
  /\ pointer' = progress
  /\ child' = [child EXCEPT !.at = "compare"]
  /\ UNCHANGED <<prepareVars, version, charged, results, progress, published, torn, event, sup,
                 count>>

\* The active handoff is read back: its directory must be there, with rows of all
\* the programs, and each of its checkpoints complete and of this version.
HandoffIsThere == pointer # {} /\ pointer \in published
IndexIsValid ==
  /\ {e.key : e \in pointer} = {Key(p) : p \in Programs}
  /\ \A e \in pointer : state[e.key] = "complete"
ReadsHandoff == HandoffIsThere /\ IndexIsValid

\* It must say what the checkpoints say; the run fails otherwise.
Compare ==
  /\ child.at = "compare"
  /\ child' = Child(IF ReadsHandoff /\ pointer = progress THEN "done" ELSE "failed", NoProgram)
  /\ UNCHANGED <<prepareVars, version, onDisk, event, sup, count>>

\* An exception, or a child that dies by itself.
ChildFails ==
  /\ Working /\ deaths < MaxDeaths
  /\ deaths' = deaths + 1
  /\ child' = Child("failed", NoProgram)
  /\ UNCHANGED <<prepareVars, version, onDisk, event, sup, starts>>

ChildStep ==
  Boundary \/ Work \/ Finish \/ Index \/ Notify \/ Combine \/ PublishRows \/ PublishPointer
    \/ Compare

-----------------------------------------------------------------------------
(* The supervisor.                                                         *)

\* It asks for the frozen study, then takes its lock and the run control.
Start ==
  /\ sup.at \in {"off", "failed"} /\ starts < MaxStarts
  /\ Loads
  /\ starts' = starts + 1
  /\ sup' = Sup("launch", NoProgram)
  /\ UNCHANGED <<prepareVars, version, onDisk, event, child, deaths>>

\* A start that is already in the file belongs to an earlier child. The writer
\* lock turns the new child away while an orphan works; the child asks for the
\* frozen study, too.
LaunchChild ==
  /\ sup.at = "launch"
  /\ event' = [event EXCEPT !.fresh = FALSE]
  /\ IF Loads /\ ~Working
     THEN child' = Child("boundary", 1) /\ sup' = Sup("launched", NoProgram)
     ELSE sup' = Sup("failed", NoProgram) /\ UNCHANGED child
  /\ UNCHANGED <<prepareVars, version, onDisk, count>>

\* The first record of a child. The hash chain refuses one after a torn record:
\* the supervisor kills its child and gives up.
Audit ==
  /\ sup.at = "launched"
  /\ IF torn THEN sup' = Sup("failed", NoProgram) /\ child' = NoChild
             ELSE sup' = Sup("watch", NoProgram) /\ UNCHANGED child
  /\ UNCHANGED <<prepareVars, version, onDisk, event, count>>

\* Only starts are taken up: the program stays active after its other events.
Observe ==
  /\ sup.at = "watch" /\ Working
  /\ event.fresh /\ event.start
  /\ sup' = Sup("watch", event.program)
  /\ event' = [event EXCEPT !.fresh = FALSE]
  /\ UNCHANGED <<prepareVars, version, onDisk, child, count>>

\* The active program is over its budget, and the child had not yet ended.
Kill ==
  /\ sup.at = "watch" /\ sup.active # NoProgram /\ Working
  /\ child' = NoChild
  /\ sup' = Sup("charge", sup.active)
  /\ UNCHANGED <<prepareVars, version, onDisk, event, count>>

\* Faulty variant: a second skip is taken.
ChargeAgain ==
  /\ sup.at = "charge"
  /\ charged' = charged \cup {sup.active}
  /\ sup' = Sup("launch", NoProgram)
  /\ UNCHANGED <<prepareVars, version, results, raw, torn, event, child, count>>

\* A second skip of one program is refused: the exception ends the supervisor.
ChargeActive ==
  /\ sup.at = "charge"
  /\ charged' = charged \cup {sup.active}
  /\ sup' = IF sup.active \in charged THEN Sup("failed", NoProgram) ELSE Sup("launch", NoProgram)
  /\ UNCHANGED <<prepareVars, version, results, raw, torn, event, child, count>>

ChildEnded ==
  /\ sup.at = "watch" /\ child.at \in {"done", "failed"}
  /\ sup' = Sup(IF child.at = "done" THEN "success" ELSE "failed", NoProgram)
  /\ child' = NoChild
  /\ UNCHANGED <<prepareVars, version, onDisk, event, count>>

\* The supervisor dies. The job object takes the child with it on Windows;
\* elsewhere the child goes on. A record that was being written may be torn.
SupervisorDies ==
  /\ sup.at \notin {"off", "success", "failed"}
  /\ deaths < MaxDeaths /\ deaths' = deaths + 1
  /\ sup' = Sup("off", NoProgram)
  /\ torn' \in {torn, TRUE}
  /\ child' \in {NoChild, child}
  /\ UNCHANGED <<prepareVars, version, charged, results, raw, event, starts>>

SupervisorStep == LaunchChild \/ Audit \/ Observe \/ ChargeActive \/ ChildEnded

RunStep == ChildStep \/ ChildFails \/ SupervisorStep \/ Start \/ Kill \/ SupervisorDies

=============================================================================
