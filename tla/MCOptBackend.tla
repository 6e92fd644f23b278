---------------------------- MODULE MCOptBackend ----------------------------
(***************************************************************************)
(* Instances of OptBackend.                                                *)
(***************************************************************************)
EXTENDS OptBackend, TLC

CONSTANTS raw, clean, p1, p2, p3, r1, r2

TwoModules == {raw, clean}
\* A pass that improves one module and leaves the other, and one that fails on it.
Improve  == (raw :> clean) @@ (clean :> clean)
Rewrites == (raw :> Fails) @@ (clean :> raw)
BothPasses == {Improve, Rewrites}
AnyPathAndResult == Permutations(Paths) \cup Permutations(Results)
=============================================================================
