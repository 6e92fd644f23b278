---------------------------- MODULE DurableStage ----------------------------
(***************************************************************************)
(* What the publication of the stages of a program promises, as if each    *)
(* were one atomic write: the evidence of a stage is there or not, a new   *)
(* one takes the place of the old one at once, and evidence made from the  *)
(* input that is asked for is never made a second time.  Only damage from  *)
(* outside takes evidence away, or brings older evidence back.             *)
(***************************************************************************)
EXTENDS Naturals

CONSTANTS Stages, Values, Inputs, Nothing

VARIABLES
  kept,     \* the valid evidence of each stage, or Nothing
  damaged   \* how often something was damaged

Init == kept = [s \in Stages |-> Nothing] /\ damaged = 0

\* The stage has another evidence, or none; the others are not touched.
Changes(s) ==
  /\ kept'[s] \in [value : Values, input : Inputs] \cup {Nothing}
  /\ kept' = [kept EXCEPT ![s] = kept'[s]]

\* Evidence that was made from another input is replaced.
Publish(s) ==
  /\ Changes(s)
  /\ kept'[s] # Nothing
  /\ kept[s] # Nothing => kept[s].input # kept'[s].input
  /\ UNCHANGED damaged

Damage(s) == Changes(s) /\ damaged' = damaged + 1

\* Damage to what is not used does not show.
Unseen == UNCHANGED kept /\ damaged' = damaged + 1

Next == Unseen \/ \E s \in Stages : Publish(s) \/ Damage(s)

Spec == Init /\ [][Next]_<<kept, damaged>>

=============================================================================
