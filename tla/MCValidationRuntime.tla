------------------------ MODULE MCValidationRuntime ------------------------
(***************************************************************************)
(* Instances of ValidationRuntime.                                         *)
(***************************************************************************)
EXTENDS ValidationRuntime, TLC

CONSTANTS t1, t2, t3, applied, compared

Three == {t1, t2, t3}
=============================================================================
