----------------------------- MODULE BatchWorld -----------------------------
(***************************************************************************)
(* What validation of one batch can observe of LLVM: the module the state  *)
(* starts from, the canonical hash of a module, the class a comparison     *)
(* folds it into, and the module a pass makes of it.  The modules that     *)
(* validate batches extend this one.                                       *)
(***************************************************************************)
EXTENDS Integers, FiniteSets, Sequences

CONSTANTS
  IR,        \* LLVM modules
  Hash,      \* values of canonical_hash
  Class,     \* equivalence classes of compare_ir_equivalence
  BatchLen,  \* number of passes in the batch
  Worlds     \* what LLVM may do to IR

\* A pass is its position in the canonical order of the batch.
Passes == 1 .. BatchLen

World == [root  : IR,
          hash  : [IR -> Hash],
          class : [IR -> Class],
          apply : [IR -> [Passes -> IR]]]

ASSUME BatchAssumption ==
  /\ BatchLen \in Nat
  /\ Worlds \subseteq World

(***************************************************************************)
(* The premise of folding: modules of one hash are of one class, and a     *)
(* pass takes modules of one class to modules of one class.  The code      *)
(* relies on both whenever it goes on from one representative of a class,  *)
(* and checks neither.                                                     *)
(***************************************************************************)
ASSUME FoldAssumption ==
  \A w \in Worlds : \A m, n \in IR :
     /\ w.hash[m] = w.hash[n] => w.class[m] = w.class[n]
     /\ w.class[m] = w.class[n] =>
          \A p \in Passes : w.class[w.apply[m][p]] = w.class[w.apply[n][p]]

-----------------------------------------------------------------------------
\* The orders of k passes of the batch.
Orders(k) ==
  {o \in [1 .. k -> Passes] : \A i, j \in 1 .. k : o[i] = o[j] => i = j}

\* An order of some passes, and the modules it goes through, one pass at a time.
HistoriesOf(w, k) ==
  {h \in [order : Orders(k), trace : [0 .. k -> IR]] :
     /\ h.trace[0] = w.root
     /\ \A i \in 1 .. k : h.trace[i] = w.apply[h.trace[i - 1]][h.order[i]]}

\* The class of the module that history h of length k ends in.
EndClass(w, h, k) == w.class[h.trace[k]]

PassesOf(h, k) == {h.order[i] : i \in 1 .. k}

\* What a certificate asserts: every order of the whole batch ends in one class.
OrdersAgree(w) ==
  \A g, h \in HistoriesOf(w, BatchLen) :
     EndClass(w, g, BatchLen) = EndClass(w, h, BatchLen)
=============================================================================
