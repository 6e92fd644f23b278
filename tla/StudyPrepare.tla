---------------------------- MODULE StudyPrepare ----------------------------
(***************************************************************************)
(* How a study is frozen (advisor_study/study.py, the prepare phase of     *)
(* cli.py): a prepare builds the whole tree of the study in a directory of *)
(* its own, from the sources, tools and policies it finds, and puts it in  *)
(* place with one rename.  A tree that is there is never replaced: the     *)
(* prepare succeeds only when it would have built the same one, and not    *)
(* after anything else was written into it.  The other phases ask for what *)
(* was frozen (load_frozen_phase).                                         *)
(***************************************************************************)
EXTENDS Naturals

CONSTANT MaxInputs  \* bound: what the sources, tools, policies and revisions can be

ASSUME PrepareAssumption == MaxInputs \in Nat \ {0}

PossibleInputs == 1..MaxInputs
NoStudy        == 0   \* no study in place

VARIABLES
  inputs,   \* what they are now
  frozen,   \* what the study in place was prepared from, or NoStudy
  built     \* trees that prepares have built aside: what each was made from

prepareVars == <<inputs, frozen, built>>

PrepareInit ==
  /\ inputs = 1
  /\ frozen = NoStudy /\ built = {}

\* A tree is in place, with every file of its completion record.
Prepared == frozen # NoStudy

\* The tools, policies, revisions and sources are those it was prepared from.
Unchanged == frozen = inputs

Loads == Prepared /\ Unchanged

\* A prepare builds a tree from the inputs it finds. Where a tree is in place it is
\* refused, or (where no run has written into the tree) compares it with its own, byte
\* for byte; it changes nothing.
BuildTree ==
  /\ frozen = NoStudy
  /\ built' = built \cup {inputs}
  /\ UNCHANGED <<inputs, frozen>>

\* The rename fails where a tree is in place by now. A prepare that fails never
\* takes this step.
PublishTree ==
  /\ frozen = NoStudy
  /\ frozen' \in built
  /\ UNCHANGED <<inputs, built>>

PrepareStep == BuildTree \/ PublishTree

PrepareTypeOK ==
  /\ inputs \in PossibleInputs /\ frozen \in PossibleInputs \cup {NoStudy}
  /\ built \subseteq PossibleInputs

=============================================================================
