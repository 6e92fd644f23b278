-------------------------- MODULE BatchCertificate --------------------------
(***************************************************************************)
(* What the validation of a batch promises its readers, whatever method    *)
(* it uses: one verdict, given once; all_permutations_same only if every   *)
(* order of the batch ends in one class, mismatch only if two orders do    *)
(* not.  The other verdicts promise nothing about the orders.              *)
(***************************************************************************)
EXTENDS BatchWorld

VARIABLES
  world,   \* the world the validation runs in
  status   \* validation_status of the row; "none" until it is written

Silent   == {"failed", "incomplete", "not_validated", "bounded_same", "sampled_same"}
Verdicts == Silent \cup {"all_permutations_same", "mismatch"}

Init == world \in Worlds /\ status = "none"

Validate ==
  /\ status = "none"
  /\ status' \in Verdicts
  /\ status' = "all_permutations_same" => OrdersAgree(world)
  /\ status' = "mismatch" => ~ OrdersAgree(world)
  /\ UNCHANGED world

Next == Validate

Spec == Init /\ [][Next]_<<world, status>>
=============================================================================
