----------------------------- MODULE BodyPatch -----------------------------
(***************************************************************************)
(* What phasebatch-2n-merge (merge_helper/phasebatch_2n_merge.cpp)         *)
(* computes on LLVM modules.  A module is its frame, that is everything a  *)
(* body may not touch (triple, layout, symbols, signatures, globals,       *)
(* metadata), and a body for every defined function.  A pass output is a   *)
(* patch of its base when only bodies differ.  Hashes are taken to be      *)
(* injective.                                                              *)
(***************************************************************************)
EXTENDS Naturals, FiniteSets

CONSTANTS Functions, Bodies, Frames

Modules == [frame : Frames, body : [Functions -> Bodies]]

\* inspect_patch answers with an error unless only bodies differ.
Patchable(base, output) == base.frame = output.frame

Changed(base, output) == {f \in Functions : base.body[f] # output.body[f]}

\* The patch record: the hashes of every changed function before and after.
Patch(base, output) ==
  [f \in Changed(base, output) |-> <<base.body[f], output.body[f]>>]

\* Two outputs of A change a function of root both.
Overlap(root, output, A) ==
  \E a, b \in A : a # b /\ Changed(root, output[a]) \cap Changed(root, output[b]) # {}

\* merge: root with the bodies that the outputs of A changed.
MergeOf(root, output, A) ==
  [frame |-> root.frame,
   body  |-> [f \in Functions |->
                IF \E a \in A : f \in Changed(root, output[a])
                  THEN output[CHOOSE a \in A : f \in Changed(root, output[a])].body[f]
                  ELSE root.body[f]]]

\* The merged contributions are left alone by what ran after the merge.
ProtectedPreserved(root, merged, second) ==
  \A f \in Changed(root, merged) : second.body[f] = merged.body[f]

\* Faulty variants: the functions alone are compared; the final bodies are.
SameFunctions(root, first, merged, second) ==
  /\ Changed(root, first) = Changed(merged, second)
  /\ ProtectedPreserved(root, merged, second)

SameBodies(root, first, merged, second) ==
  \A f \in Changed(root, first) : second.body[f] = first.body[f]

\* compare_effect: the action does to the merged module what it did to root.
SameEffect(root, first, merged, second) ==
  /\ Patch(root, first) = Patch(merged, second)
  /\ ProtectedPreserved(root, merged, second)
=============================================================================
