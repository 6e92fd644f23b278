---------------------------- MODULE StudySummary ----------------------------
(***************************************************************************)
(* The commands of a study together (advisor_study/cli.py): prepares,      *)
(* supervised runs, and summaries (aggregate.py), which nothing keeps      *)
(* apart but what they find on the disk.  A summary takes no lock.  It     *)
(* builds its two directories aside and then swaps them in, one after the  *)
(* other: the old one goes to a backup of the summary, the new one to its  *)
(* place; a failure puts back what was moved.                              *)
(*                                                                         *)
(* The inputs of the study, and the code, change only while no run and no  *)
(* summary is at work; a prepare reads its inputs at once.                 *)
(***************************************************************************)
EXTENDS StudyRun

CONSTANT MaxSummaries  \* bound: summaries that are started

ASSUME SummaryAssumption == MaxSummaries \in Nat

Summaries == 1..MaxSummaries
Shelves   == {"aggregate", "figures"}   \* in this order
Empty     == 0

VARIABLES
  shelf,    \* the summary that made each of the two directories, or Empty
  aside,    \* what each summary has moved aside
  summary,  \* each summary: what it does next, and what it has moved
  due       \* what the shelf must be when no summary is at work, or Anything
            \* (only properties read it)

summaryVars == <<shelf, aside, summary, due>>
studyVars == <<prepareVars, runVars, summaryVars>>

Idle == [at |-> "idle", old |-> {}, new |-> {}]
Clear == [d \in Shelves |-> Empty]
Anything == [d \in Shelves |-> MaxSummaries + 1]

StudyInit ==
  /\ PrepareInit /\ RunInit
  /\ shelf = Clear /\ aside = [s \in Summaries |-> Clear]
  /\ summary = [s \in Summaries |-> Idle]
  /\ due = Clear

AtRest(s) == summary[s].at \in {"idle", "over"}
Summarizing == {s \in Summaries : ~AtRest(s)}

Started(s) == summary[s].at # "idle"

Supervising == sup.at \notin {"off", "success", "failed"}

\* The directory whose turn it is.
Turn(s) == IF "aggregate" \in summary[s].new THEN "figures" ELSE "aggregate"
\* The one that was moved last.
Latest(D) == IF "figures" \in D THEN "figures" ELSE "aggregate"

To(s, at) == [summary EXCEPT ![s].at = at]
Over(s) == [summary EXCEPT ![s] = [Idle EXCEPT !.at = "over"]]

-----------------------------------------------------------------------------

\* The frozen study and its handoff are read, and both directories are built
\* aside: a summary that is refused here leaves no trace.
Summarize(s) ==
  /\ ~Started(s) /\ \A t \in Summaries : t < s => Started(t)
  /\ Loads /\ ReadsHandoff
  /\ ~Supervising /\ ~Working
  /\ summary' = To(s, "old")
  /\ due' = IF Summarizing = {} THEN shelf ELSE Anything
  /\ UNCHANGED <<prepareVars, runVars, shelf, aside>>

MoveOldShelf(s) ==
  /\ summary[s].at = "old"
  /\ LET d == Turn(s) IN
     IF shelf[d] = Empty
     THEN summary' = To(s, "new") /\ UNCHANGED <<shelf, aside>>
     ELSE /\ shelf' = [shelf EXCEPT ![d] = Empty]
          /\ aside' = [aside EXCEPT ![s][d] = shelf[d]]
          /\ summary' = [summary EXCEPT ![s].at = "new", ![s].old = @ \cup {d}]
  /\ UNCHANGED <<prepareVars, runVars, due>>

\* A directory that another summary put there in the meantime is in the way.
MoveNewShelf(s) ==
  /\ summary[s].at = "new"
  /\ \/ /\ shelf[Turn(s)] # Empty
        /\ summary' = To(s, "undo") /\ UNCHANGED <<shelf, aside, due>>
     \/ /\ shelf[Turn(s)] = Empty /\ Turn(s) = "aggregate"
        /\ shelf' = [shelf EXCEPT !["aggregate"] = s]
        /\ summary' = [summary EXCEPT ![s].at = "old", ![s].new = {"aggregate"}]
        /\ UNCHANGED <<aside, due>>
     \/ /\ shelf[Turn(s)] = Empty /\ Turn(s) = "figures"
        /\ shelf' = [shelf EXCEPT !["figures"] = s]
        /\ summary' = Over(s) /\ aside' = [aside EXCEPT ![s] = Clear]
        /\ due' = IF due = Anything THEN Anything ELSE [d \in Shelves |-> s]
  /\ UNCHANGED <<prepareVars, runVars>>

MoveShelfFails(s) ==
  /\ summary[s].at \in {"old", "new"} /\ deaths < MaxDeaths
  /\ deaths' = deaths + 1
  /\ summary' = To(s, "undo")
  /\ UNCHANGED <<prepareVars, version, onDisk, event, child, sup, starts, shelf, aside, due>>

\* What the summary put in place goes back to its staging tree.
TakeBack(s) ==
  /\ summary[s].at = "undo" /\ summary[s].new # {}
  /\ LET d == Latest(summary[s].new) IN
     /\ shelf' = [shelf EXCEPT ![d] = Empty]
     /\ summary' = [summary EXCEPT ![s].new = @ \ {d}]
  /\ UNCHANGED <<prepareVars, runVars, aside, due>>

\* What it moved aside is put back. A directory in the way ends the rollback,
\* and the backup is removed with what is still in it.
PutBack(s) ==
  /\ summary[s].at = "undo" /\ summary[s].new = {} /\ summary[s].old # {}
  /\ LET d == Latest(summary[s].old) IN
     IF shelf[d] # Empty
     THEN /\ aside' = [aside EXCEPT ![s] = Clear]
          /\ summary' = Over(s)
          /\ UNCHANGED shelf
     ELSE /\ shelf' = [shelf EXCEPT ![d] = aside[s][d]]
          /\ aside' = [aside EXCEPT ![s][d] = Empty]
          /\ summary' = [summary EXCEPT ![s].old = @ \ {d}]
  /\ UNCHANGED <<prepareVars, runVars, due>>

UndoEnds(s) ==
  /\ summary[s].at = "undo" /\ summary[s].new = {} /\ summary[s].old = {}
  /\ summary' = Over(s)
  /\ UNCHANGED <<prepareVars, runVars, shelf, aside, due>>

\* What a summary that dies has moved aside is lost: nobody looks into its backup
\* again.
SummaryDies(s) ==
  /\ ~AtRest(s) /\ deaths < MaxDeaths
  /\ deaths' = deaths + 1
  /\ summary' = Over(s)
  /\ aside' = [aside EXCEPT ![s] = Clear]
  /\ due' = Anything
  /\ UNCHANGED <<prepareVars, version, onDisk, event, child, sup, starts, shelf>>

Swap(s) == MoveOldShelf(s) \/ MoveNewShelf(s) \/ TakeBack(s) \/ PutBack(s) \/ UndoEnds(s)

-----------------------------------------------------------------------------
(* All the commands.                                                       *)

Quiet == ~Working /\ ~Supervising /\ Summarizing = {}

InputsChange ==
  /\ Quiet
  /\ inputs < MaxInputs /\ inputs' = inputs + 1
  /\ UNCHANGED <<frozen, built, runVars, summaryVars>>

Upgrade ==
  /\ Quiet /\ starts > 0 /\ version < MaxVersions
  /\ version' = version + 1
  /\ UNCHANGED <<prepareVars, onDisk, event, child, sup, count, summaryVars>>

Prepare == PrepareStep /\ UNCHANGED <<runVars, summaryVars>>
RunCommand == RunStep /\ Summarizing = {} /\ UNCHANGED summaryVars

StudyNext ==
  \/ Prepare \/ RunCommand \/ InputsChange \/ Upgrade
  \/ \E s \in Summaries : Summarize(s) \/ Swap(s) \/ MoveShelfFails(s) \/ SummaryDies(s)

\* A command that was given goes on by itself; nobody has to give one, and a
\* program need not be over its budget.
StudySpec ==
  /\ StudyInit /\ [][StudyNext]_studyVars
  /\ WF_studyVars(ChildStep /\ UNCHANGED summaryVars)
  /\ WF_studyVars(SupervisorStep /\ UNCHANGED summaryVars)
  /\ WF_studyVars(\E s \in Summaries : Swap(s))

-----------------------------------------------------------------------------

\* The variables have the values the code can give them.
StudyTypeOK ==
  /\ PrepareTypeOK
  /\ version \in Versions /\ charged \subseteq Programs
  /\ state \in [Programs \X Versions -> {"none", "planned", "complete"}]
  /\ limited \subseteq Programs \X Versions /\ basis \subseteq PossibleInputs
  /\ \A E \in {progress, pointer} \cup published :
       E \subseteq [key : Programs \X Versions, limited : BOOLEAN]
  /\ torn \in BOOLEAN
  /\ event \in [program : Programs \cup {NoProgram}, start : BOOLEAN, fresh : BOOLEAN]
  /\ child \in [at : {"none", "boundary", "work", "finish", "index", "notify", "combine",
                      "stage", "point", "compare", "done", "failed"},
                program : Programs \cup {NoProgram}, skip : BOOLEAN]
  /\ sup \in [at : {"off", "launch", "launched", "watch", "charge", "success", "failed"},
              active : Programs \cup {NoProgram}]
  /\ starts \in 0..MaxStarts /\ deaths \in 0..MaxDeaths
  /\ shelf \in [Shelves -> Summaries \cup {Empty}]
  /\ aside \in [Summaries -> [Shelves -> Summaries \cup {Empty}]]
  /\ summary \in [Summaries -> [at : {"idle", "old", "new", "undo", "over"},
                                old : SUBSET Shelves, new : SUBSET Shelves]]

\* Whatever was killed, upgraded or given twice: the evidence was made from the
\* inputs that the study is frozen to (prepare_study, load_frozen_phase).
FrozenInputs == basis \subseteq {frozen}

\* The progress, every raw handoff and the success of the supervisor say of the
\* programs what their complete checkpoints say, in one version of the runtime
\* and, but for the progress, of all the programs; the active handoff is one of
\* those published (_publish_program_checkpoint_progress, _publish_cleanup_handoff).
RowsAgree ==
  /\ \A e \in progress \cup UNION published :
       state[e.key] = "complete" /\ e.limited = (e.key \in limited)
  /\ \A H \in published : \E v \in Versions : {e.key : e \in H} = Programs \X {v}
  /\ pointer \in published \cup {{}}
  /\ sup.at = "success" => pointer # {}

\* A summary that ran alone has both directories in place when it is done, and has
\* changed neither when it has failed (_publish_bundle): so it is until the next one
\* is started. There are none before the handoff.
BundleIsWhole ==
  /\ shelf # Clear => pointer # {}
  /\ Summarizing = {} /\ due # Anything => shelf = due

ResultsAgree == StudyTypeOK /\ FrozenInputs /\ RowsAgree /\ BundleIsWhole

\* In each version of the runtime, the result of a program is decided once, and
\* limited just if the program had been charged by then: no child decides on a
\* run control that has changed since it read it (_run_program_checkpoints,
\* add_runtime_budget_skip).
StudyPromise == INSTANCE ProgramCheckpoint WITH
  Programs <- Programs \X Versions, charged <- charged \X Versions,
  state <- state, limited <- limited

StudyKeepsPromise == StudyPromise!Spec

\* The supervisor does not kill and start children for ever; a study that nobody
\* kills, and a summary, come to their ends: supervise_run, _publish_bundle.
SupervisionEnds ==
  <>[](~Supervising /\ Summarizing = {})

\* Only a program that is not complete is charged with a budget: the monitor
\* "records the over-budget program" (run_control.py).
OnlyUnfinishedAreCharged ==
  [][\A p \in charged' \ charged : state[Key(p)] # "complete"]_studyVars

=============================================================================
