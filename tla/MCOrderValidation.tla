-------------------------- MODULE MCOrderValidation --------------------------
(***************************************************************************)
(* Calls that validate a batch of three in small compilers.  Modules,      *)
(* hashes and classes are numbers; a world is named by what it fixes.      *)
(***************************************************************************)
EXTENDS OrderValidation

M2 == 1 .. 2
M3 == 1 .. 3

WorldOf(hash, class, apply) ==
  [root |-> 1, hash |-> hash, class |-> class, apply |-> apply]

\* The ways to apply the passes that take modules of one class to one class.
Congruent(class, ways) ==
  {f \in ways : \A m, n \in DOMAIN f :
     class[m] = class[n] => \A p \in Passes : class[f[m][p]] = class[f[n][p]]}

\* Three modules that never fold, or of which 2 and 3 do.
Distinct == <<1, 2, 3>>
Folded   == <<1, 2, 2>>

\* Three passes on three modules, two of which fold: every way to treat those
\* two, after two ways to leave the first.
Leave1 == {<<1, 2, 2>>, <<2, 3, 1>>}
TripleFolded ==
  LET ways == {f \in [M3 -> [Passes -> M3]] : f[1] \in Leave1}
  IN  {WorldOf(hash, Folded, f) :
         hash \in {Distinct, Folded}, f \in Congruent(Folded, ways)}

\* Every way three passes may act on two modules that never fold; a third is
\* never reached.
EveryTripleOnTwo ==
  {WorldOf(Distinct, Distinct, Append(f, <<3, 3, 3>>)) : f \in [M2 -> [Passes -> M2]]}

\* Three passes whose last decides: whatever comes after 1 leads to 2 or to 3,
\* by the order.  The worlds fold 2 and 3 by hash, by comparison, never.
LastDecides == <<<<2, 3, 2>>, <<2, 3, 3>>, <<2, 3, 3>>>>
LastFolds   == <<<<2, 2, 3>>, <<3, 2, 2>>, <<2, 3, 3>>>>
ThreeFates ==
  {WorldOf(Distinct, Folded, LastDecides), WorldOf(Distinct, Folded, LastFolds),
   WorldOf(Folded, Folded, LastFolds), WorldOf(Distinct, Distinct, LastDecides)}

\* The first pass changes the first module; one order or all of them may return.
FirstActs == {w \in EveryTripleOnTwo : w.apply[1][1] = 2 /\ w.apply[2][3] = 2}

\* A constant substituted for a definition is computed at each use; this one is
\* computed once.
TripleWorlds ==
  ThreeFates \cup FirstActs \cup {w \in TripleFolded : w.apply[2] = <<2, 3, 1>>}

\* Budgets around the points where they bite: the root alone, exactly enough if
\* everything folds, the middle of a layer, plenty.
TripleBudgets ==
  [nodes : {0, 8}, edges : {30}] \cup [nodes : {20}, edges : {8, 12, 30}]

\* Six orders, of which four come from moving one pass.
TripleLimits ==
  {[factorial |-> 6, sequences |-> 3, samples |-> 2],
   [factorial |-> 5, sequences |-> 9, samples |-> 1]}

\* Each leave without the other.
EitherOne ==
  {p \in [bounded : BOOLEAN, sampled : BOOLEAN] : p.bounded # p.sampled}

\* The budget matters only to a call that may use the DAG, the leave only to one
\* that may end without a certificate.
TripleRequests ==
  {r \in [mode : {"auto", "exhaustive", "dag", "bounded", "sampled"},
          limits : TripleLimits, allowed : EitherOne, budget : TripleBudgets] :
     /\ r.mode \in {"exhaustive", "bounded", "sampled"} => r.budget.edges = 8
     /\ r.mode = "auto" => r.budget.nodes = 20 /\ r.budget.edges # 12
     /\ r.mode = "auto" /\ r.limits.factorial = 6 => r.budget.edges = 8
     /\ r.mode \in {"exhaustive", "dag"} => r.allowed.bounded
     /\ r.mode = "dag" => r.limits.factorial = 6}
=============================================================================
