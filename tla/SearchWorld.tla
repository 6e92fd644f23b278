----------------------------- MODULE SearchWorld -----------------------------
(***************************************************************************)
(* What the searches of phasebatch/optimizer.py have in common: the world  *)
(* they explore and the paths they compare.                                *)
(***************************************************************************)
EXTENDS Integers, Sequences

CONSTANTS
  IR,               \* LLVM modules
  StateHash,        \* values of canonical_hash: the identity of a search state
  Batches,          \* batch numbers, in the order of batch_candidates.csv
  BatchSize,        \* number of passes of each batch
  Worlds            \* what LLVM may do to IR, one world per index

(***************************************************************************)
(* A world says what the compiler does: the input module, the hash of each *)
(* module, whether any pass changes it, which of its batches complete      *)
(* pair tests and validation certify, the module a batch produces and its  *)
(* objective (instruction count).  canonical_hash is not injective.        *)
(***************************************************************************)
World == [root        : IR,
          hash        : [IR -> StateHash],
          active      : [IR -> BOOLEAN],
          certifiable : [IR -> SUBSET Batches],
          apply       : [IR -> [Batches -> IR]],
          objective   : [IR -> Nat]]

\* A module no pass changes has no batch candidate (batches are built from the
\* active passes of pass_profile.csv).
ASSUME WorldAssumption ==
  /\ BatchSize \in [Batches -> Nat]
  /\ Worlds \in [DOMAIN Worlds -> World]
  /\ \A w \in DOMAIN Worlds, m \in IR :
       ~ Worlds[w].active[m] => Worlds[w].certifiable[m] = {}

Evidence == [gap : BOOLEAN, certified : SUBSET Batches]
PathInfo == [length : Nat, invocations : Nat, sequence : Seq(Batches)]

RootPath == [length |-> 0, invocations |-> 0, sequence |-> <<>>]

\* _extend_path_info.
ExtendPath(path, b) ==
  [length      |-> path.length + 1,
   invocations |-> path.invocations + BatchSize[b],
   sequence    |-> Append(path.sequence, b)]

SequenceLess(s, t) ==
  \E i \in DOMAIN s \cap DOMAIN t :
     /\ s[i] < t[i]
     /\ \A j \in 1 .. i - 1 : s[j] = t[j]

\* Faulty variant: the last path found wins.
PathIsNewer(p, q) == p # q

\* _path_is_better: (length, invocations, batch sequence) in tuple order.
PathIsBetter(p, q) ==
  \/ p.length < q.length
  \/ /\ p.length = q.length
     /\ \/ p.invocations < q.invocations
        \/ p.invocations = q.invocations /\ SequenceLess(p.sequence, q.sequence)

=============================================================================
