------------------------- MODULE SearchCommandsProofs -------------------------
(***************************************************************************)
(* The searches of phasebatch that do not roll: the exact and budgeted     *)
(* search and the explorers, the stages built on them and the comparison   *)
(* with baselines, together as in SearchCommands.  Proved for all worlds,  *)
(* manifests, limits and caps: every recorded path is the one its parents  *)
(* spell and leads to the recorded module, a stage hands on what it has    *)
(* earned and its replays agree, a search that calls itself complete or    *)
(* not truncated is, a comparison is fair to every method, and the tables  *)
(* of the explorers lack nothing but what limits cut off or opt lost.      *)
(***************************************************************************)
EXTENDS SearchCommands, FiniteSetTheorems, WellFoundedInduction, TLAPS

-----------------------------------------------------------------------------
(* Walks. Recursion over a sequence, by the least counterexample.          *)

\* A set of numbers that is not empty has a least one.
LEMMA LeastNumber ==
  ASSUME NEW T \in SUBSET Nat, T # {}
  PROVE  \E n \in T : \A m \in T : n <= m
<1> DEFINE Less == {pair \in Nat \X Nat : pair[1] < pair[2]}
<1>1. IsWellFoundedOn(Less, Nat)
  BY NatLessThanWellFounded DEF OpToRel
<1>2. PICK n \in T : \A m \in T : <<m, n>> \notin Less
  BY <1>1, WFMin
<1>3. ASSUME NEW m \in T PROVE n <= m
  <2>1. ~ (m < n)
    BY <1>2
  <2> QED BY <2>1
<1> QED BY <1>3

\* f takes the steps of a sequence from m.
Steps(step, m, s, f) ==
  f = [k \in 0 .. Len(s) |-> IF k = 0 THEN m ELSE step[f[k - 1]][s[k]]]

\* There is a run of steps along every sequence,
LEMMA StepsExist ==
  ASSUME NEW step, NEW m, NEW B
  PROVE  \A s \in Seq(B) : \E f : Steps(step, m, s, f)
<1> DEFINE T == {n \in Nat : \E s \in Seq(B) : Len(s) = n /\ ~ \E f : Steps(step, m, s, f)}
<1> SUFFICES ASSUME T # {} PROVE FALSE
  <2>1. ASSUME NEW s \in Seq(B), ~ \E f : Steps(step, m, s, f) PROVE Len(s) \in T
    BY <2>1
  <2> QED BY <2>1
<1>1. PICK n \in T : \A k \in T : n <= k
  BY LeastNumber
<1>2. PICK s \in Seq(B) : Len(s) = n /\ ~ \E f : Steps(step, m, s, f)
  BY <1>1
<1>3. CASE n = 0
  <2> DEFINE f == [k \in 0..0 |-> m]
  <2>1. Steps(step, m, s, f)
    BY <1>2, <1>3 DEF Steps
  <2> QED BY <1>2, <2>1
<1>4. CASE n # 0
  <2>1. n \in Nat /\ n >= 1
    BY <1>4
  <2> DEFINE r == SubSeq(s, 1, n - 1)
  <2>2. r \in Seq(B) /\ Len(r) = n - 1 /\ \A k \in 1..n-1 : r[k] = s[k]
    BY <1>2, <2>1
  <2> HIDE DEF r
  <2>3. n - 1 \notin T
    BY <1>1, <2>1
  <2>4. PICK g : Steps(step, m, r, g)
    BY <2>1, <2>2, <2>3
  <2> DEFINE f == [k \in 0..n |-> IF k < n THEN g[k] ELSE step[g[n - 1]][s[n]]]
  <2>5. \A k \in 0..n-1 : g[k] = IF k = 0 THEN m ELSE step[g[k - 1]][r[k]]
    BY <2>2, <2>4 DEF Steps
  <2>6. ASSUME NEW k \in 0..n PROVE f[k] = IF k = 0 THEN m ELSE step[f[k - 1]][s[k]]
    <3>1. CASE k = n
      BY <2>1, <3>1
    <3>2. CASE k # n
      <4>1. k \in 0..n-1 /\ f[k] = g[k]
        BY <2>1, <3>2
      <4>2. CASE k = 0
        BY <2>5, <4>1, <4>2
      <4>3. CASE k # 0
        <5>1. k - 1 \in 0..n /\ k - 1 < n /\ f[k-1] = g[k-1] /\ r[k] = s[k]
          BY <2>1, <2>2, <4>1, <4>3
        <5> QED BY <2>5, <4>1, <4>3, <5>1
      <4> QED BY <4>2, <4>3
    <3> QED BY <3>1, <3>2
  <2>7. Steps(step, m, s, f)
    <3>1. f = [k \in 0..n |-> f[k]]
      OBVIOUS
    <3> HIDE DEF f
    <3>2. f = [k \in 0..n |-> IF k = 0 THEN m ELSE step[f[k - 1]][s[k]]]
      BY <2>6, <3>1
    <3> QED BY <1>2, <3>2 DEF Steps
  <2> QED BY <1>2, <2>7
<1> QED BY <1>3, <1>4

\* and runs along sequences that agree agree.
LEMMA StepsAgree ==
  ASSUME NEW step, NEW m, NEW B, NEW s \in Seq(B), NEW t \in Seq(B), NEW f, NEW g,
         Steps(step, m, s, f), Steps(step, m, t, g),
         NEW n \in Nat, n <= Len(s), n <= Len(t), \A k \in 1 .. n : s[k] = t[k]
  PROVE  \A k \in 0 .. n : f[k] = g[k]
<1> DEFINE T == {k \in 0 .. n : f[k] # g[k]}
<1> SUFFICES ASSUME T # {} PROVE FALSE
  OBVIOUS
<1>0. Len(s) \in Nat /\ Len(t) \in Nat
  OBVIOUS
<1>1. T \in SUBSET Nat
  OBVIOUS
<1>2. PICK k \in T : \A j \in T : k <= j
  <2> HIDE DEF T
  <2> QED BY <1>1, LeastNumber
<1>3. k \in 0 .. Len(s) /\ k \in 0 .. Len(t)
  BY <1>0
<1>4. /\ f[k] = IF k = 0 THEN m ELSE step[f[k - 1]][s[k]]
      /\ g[k] = IF k = 0 THEN m ELSE step[g[k - 1]][t[k]]
  BY <1>3 DEF Steps
<1>5. k # 0
  BY <1>4
<1>6. k - 1 \in 0 .. n /\ k - 1 < k /\ k \in 1 .. n
  BY <1>5
<1>7. f[k - 1] = g[k - 1]
  BY <1>2, <1>6
<1> QED BY <1>4, <1>6, <1>7

\* A walk is where its steps end.
LEMMA WalkIsSteps ==
  ASSUME NEW m, NEW s, NEW f, Steps(Compiler.apply, m, s, f)
  PROVE  \E g : Steps(Compiler.apply, m, s, g) /\ Walk(m, s) = g[Len(s)]
<1> DEFINE W == CHOOSE g : Steps(Compiler.apply, m, s, g)
<1>1. Steps(Compiler.apply, m, s, W)
  OBVIOUS
<1>2. Walk(m, s) = W[Len(s)]
  BY DEF Walk, Steps
<1> QED BY <1>1, <1>2

\* What a world says of the modules.
LEMMA WorldIsTyped ==
  ASSUME world \in DOMAIN Worlds, NEW m \in IR
  PROVE  /\ Compiler.hash[m] \in StateHash
         /\ Compiler.active[m] \in BOOLEAN
         /\ Certifiable(m) \subseteq Batches
         /\ \A b \in Batches : Compiler.apply[m][b] \in IR
         /\ Compiler.objective[m] \in Nat
         /\ Compiler.root \in IR
         /\ ~ Compiler.active[m] => Certifiable(m) = {}
<1>1. Compiler \in World
  BY WorldAssumption DEF Compiler
<1>2. ~ Compiler.active[m] => Compiler.certifiable[m] = {}
  BY WorldAssumption DEF Compiler
<1> QED BY <1>1, <1>2 DEF World, Certifiable

\* Every walk has steps.
LEMMA WalkHasSteps ==
  ASSUME NEW m, NEW s \in Seq(Batches)
  PROVE  \E g : Steps(Compiler.apply, m, s, g) /\ Walk(m, s) = g[Len(s)]
<1>1. PICK f : Steps(Compiler.apply, m, s, f)
  BY StepsExist
<1> QED BY <1>1, WalkIsSteps

\* The empty sequence leads nowhere.
LEMMA WalkNowhere ==
  ASSUME NEW m
  PROVE  Walk(m, <<>>) = m
<1>1. PICK g : Steps(Compiler.apply, m, <<>>, g) /\ Walk(m, <<>>) = g[Len(<<>>)]
  <2>1. <<>> \in Seq(Batches)
    OBVIOUS
  <2> QED BY <2>1, WalkHasSteps
<1> QED BY <1>1 DEF Steps

\* A walk along one batch more.
LEMMA WalkPrefix ==
  ASSUME NEW m, NEW s \in Seq(Batches), NEW t \in Seq(Batches), NEW n \in Nat,
         n = Len(s), n + 1 = Len(t), \A k \in 1 .. n : s[k] = t[k]
  PROVE  Walk(m, t) = Compiler.apply[Walk(m, s)][t[n + 1]]
<1>1. PICK f : Steps(Compiler.apply, m, s, f) /\ Walk(m, s) = f[Len(s)]
  BY WalkHasSteps
<1>2. PICK g : Steps(Compiler.apply, m, t, g) /\ Walk(m, t) = g[Len(t)]
  BY WalkHasSteps
<1>3. f[n] = g[n]
  <2>1. n <= Len(s) /\ n <= Len(t) /\ n \in 0 .. n
    OBVIOUS
  <2> QED BY <1>1, <1>2, <2>1, StepsAgree
<1>4. g[n + 1] = Compiler.apply[g[n]][t[n + 1]]
  <2>1. n + 1 \in 0 .. Len(t) /\ n + 1 # 0 /\ n + 1 - 1 = n
    OBVIOUS
  <2>2. g[n + 1] = IF n + 1 = 0 THEN m ELSE Compiler.apply[g[n + 1 - 1]][t[n + 1]]
    BY <1>2, <2>1 DEF Steps
  <2> QED BY <2>1, <2>2
<1> QED BY <1>1, <1>2, <1>3, <1>4

\* The same, with Append.
LEMMA WalkAppend ==
  ASSUME NEW m, NEW s \in Seq(Batches), NEW b \in Batches
  PROVE  Walk(m, Append(s, b)) = Compiler.apply[Walk(m, s)][b]
<1> DEFINE t == Append(s, b)
<1>1. /\ t \in Seq(Batches) /\ Len(s) \in Nat /\ Len(s) + 1 = Len(t)
      /\ \A k \in 1 .. Len(s) : s[k] = t[k]
      /\ t[Len(s) + 1] = b
  OBVIOUS
<1> HIDE DEF t
<1>2. Walk(m, t) = Compiler.apply[Walk(m, s)][t[Len(s) + 1]]
  BY <1>1, WalkPrefix
<1> QED BY <1>1, <1>2 DEF t

\* A walk stays among the modules.
LEMMA WalkIsTyped ==
  ASSUME world \in DOMAIN Worlds, NEW m \in IR
  PROVE  \A s \in Seq(Batches) : Walk(m, s) \in IR
<1> DEFINE T == {n \in Nat : \E s \in Seq(Batches) : Len(s) = n /\ Walk(m, s) \notin IR}
<1> SUFFICES ASSUME T # {} PROVE FALSE
  <2>1. ASSUME NEW s \in Seq(Batches), Walk(m, s) \notin IR PROVE Len(s) \in T
    BY <2>1
  <2> QED BY <2>1
<1>1. PICK n \in T : \A k \in T : n <= k
  BY LeastNumber
<1>2. PICK s \in Seq(Batches) : Len(s) = n /\ Walk(m, s) \notin IR
  BY <1>1
<1>3. s # <<>>
  BY <1>2, WalkNowhere
<1> DEFINE r == SubSeq(s, 1, n - 1)
           b == s[n]
<1>4. r \in Seq(Batches) /\ Len(r) = n - 1 /\ n - 1 \in Nat /\ b \in Batches
  BY <1>1, <1>2, <1>3
<1>5. s = Append(r, b)
  BY <1>1, <1>2, <1>3
<1> HIDE DEF r, b
<1>6. Walk(m, r) \in IR
  BY <1>1, <1>4
<1>7. Walk(m, s) = Compiler.apply[Walk(m, r)][b]
  BY <1>4, <1>5, WalkAppend
<1> QED BY <1>2, <1>4, <1>6, <1>7, WorldIsTyped

\* A walk along two sequences goes on from the first.
LEMMA WalkGoesOn ==
  ASSUME NEW m, NEW s \in Seq(Batches)
  PROVE  \A t \in Seq(Batches) : Walk(m, s \o t) = Walk(Walk(m, s), t)
<1> DEFINE T == {n \in Nat : \E t \in Seq(Batches) :
                   Len(t) = n /\ Walk(m, s \o t) # Walk(Walk(m, s), t)}
<1> SUFFICES ASSUME T # {} PROVE FALSE
  <2>1. ASSUME NEW t \in Seq(Batches), Walk(m, s \o t) # Walk(Walk(m, s), t) PROVE Len(t) \in T
    BY <2>1
  <2> QED BY <2>1
<1>1. PICK n \in T : \A k \in T : n <= k
  BY LeastNumber
<1>2. PICK t \in Seq(Batches) : Len(t) = n /\ Walk(m, s \o t) # Walk(Walk(m, s), t)
  BY <1>1
<1>3. t # <<>>
  <2>1. s \o <<>> = s
    OBVIOUS
  <2> QED BY <1>2, <2>1, WalkNowhere
<1> DEFINE r == SubSeq(t, 1, n - 1)
           b == t[n]
<1>4. /\ r \in Seq(Batches) /\ Len(r) = n - 1 /\ n - 1 \in Nat
      /\ b \in Batches
  BY <1>1, <1>2, <1>3
<1>5. t = Append(r, b)
  BY <1>1, <1>2, <1>3
<1> HIDE DEF r, b
<1>6. Walk(m, s \o r) = Walk(Walk(m, s), r)
  BY <1>1, <1>4
<1>7. s \o t = Append(s \o r, b) /\ s \o r \in Seq(Batches)
  BY <1>4, <1>5
<1>8. Walk(m, s \o t) = Compiler.apply[Walk(m, s \o r)][b]
  <2> DEFINE q == s \o r
  <2>1. s \o t = Append(q, b) /\ q \in Seq(Batches)
    BY <1>7
  <2> HIDE DEF q
  <2>2. Walk(m, s \o t) = Compiler.apply[Walk(m, q)][b]
    BY <1>4, <2>1, WalkAppend
  <2> QED BY <2>2 DEF q
<1>9. Walk(Walk(m, s), t) = Compiler.apply[Walk(Walk(m, s), r)][b]
  BY <1>4, <1>5, WalkAppend
<1> QED BY <1>2, <1>6, <1>8, <1>9

-----------------------------------------------------------------------------
(* The rows. The parts of the inductive invariant.                         *)

\* A row of states.csv, with its path.
StateRow ==
  [module : IR, copyOf : Nat, depth : 0 .. MaxRounds, parent : Nat, batch : Batches \cup {0},
   path : PathInfo, first : Seq(Batches)]

\* The rows, their originals and the root.
RowsAreRecorded ==
  /\ rows \in Seq(StateRow) /\ rows # <<>>
  /\ \A i \in Rows : rows[i].copyOf < i /\ rows[i].path.length = rows[i].depth
  /\ rows[1].depth = 0 /\ rows[1].path = RootPath /\ rows[1].first = <<>>

\* Batch b of module m leads to a row of module n, in a search of this mode.
Leads(compiler, kind, m, b, n) ==
  LET out == compiler.apply[m][b]
  IN /\ b \in Batches
     /\ IF kind = "explore_states" THEN compiler.hash[out] # compiler.hash[m]
        ELSE b \in compiler.certifiable[m]
     /\ compiler.hash[out] = compiler.hash[n]
     /\ kind \notin {"exact", "exact_continued"} => out = n

\* A row follows its parent.
Follows(child, parent) ==
  /\ child.depth = parent.depth + 1
  /\ child.path = ExtendPath(parent.path, child.batch)
  /\ Leads(Compiler, mode, parent.module, child.batch, child.module)

\* Every row but the root does.
RowsFollow ==
  \A i \in Rows \ {1} : rows[i].parent \in Rows /\ Follows(rows[i], rows[rows[i].parent])

\* The path along states.csv leads to the module of each row.
FirstsLead == \A i \in Rows : Walk(rows[1].module, rows[i].first) = rows[i].module

\* A row that is a state.
Original(i) == rows[i].copyOf = 0
\* No module is a state twice.
OriginalsDiffer ==
  \A i, j \in Rows :
    Original(i) /\ Original(j) /\ Compiler.hash[rows[i].module] = Compiler.hash[rows[j].module]
      => i = j

\* What holds of the rows.
RowsInvariant == RowsAreRecorded /\ RowsFollow /\ FirstsLead /\ OriginalsDiffer

\* Within a round.
Searching == pc \in {"parent", "apply", "layer"}
\* No row is deeper.
Deepest == IF Searching THEN round + 1 ELSE round
\* A row of this depth; explore_states does not go by layers.
At(i, d) == i \in Rows /\ (ByStates \/ rows[i].depth = d)

\* Frontier, queue and children are of their layers.
LayersAreOrdered ==
  /\ \A i \in Rows : ByStates \/ rows[i].depth <= Deepest
  /\ Len(frontier) <= Len(rows) /\ Len(children) < Len(rows)
  /\ Range(frontier) \subseteq Rows
  /\ ~ Searching => \A i \in Range(frontier) : At(i, round)
  /\ Searching => /\ \A i \in Range(children) : At(i, round + 1)
                  /\ \A i \in Range(queue) : At(i, round)

\* Every mode.
SearchModes ==
  {"exact", "exact_continued", "budgeted", "auto",
   "explore_states", "explore_all", "explore_certified"}

\* The other variables.
CallIsTyped ==
  /\ world \in DOMAIN Worlds /\ mode \in SearchModes /\ limits \in Limits \cup {NoLimits}
  /\ round \in 0 .. MaxRounds /\ (Searching => round < MaxRounds)
  /\ frontier \in Seq(Nat) /\ children \in Seq(Nat) /\ queue \in Seq(Nat)
  /\ pending \subseteq Batches
  /\ HasReason \subseteq Rows /\ expanded \subseteq Rows

\* Whose batches are applied.
CallIsApplied ==
  /\ mode = "auto" => Len(rows) = 1 /\ ~ Searching
  /\ ByStates => pc # "layer"
  /\ pc = "apply" => /\ queue # <<>> /\ Parent \in expanded
                     /\ IF ByStates
                        THEN pending \subseteq Active(rows[Parent].module) /\ rows[Parent].depth < MaxRounds
                        ELSE pending \subseteq Certifiable(rows[Parent].module)

\* The cap, and the explorers have none.
CapIsKept == Budgeted \/ Exact => StateCount <= MaxStates

\* A batch that was tried.
Executed(i, b) == <<i, b>> \in lost \/ Known(Compiler.apply[rows[i].module][b]) # {}
\* A row all of whose batches were.
Handled(i) == i \in expanded /\ \A b \in Certifiable(rows[i].module) : Executed(i, b)
\* A search has ended.
AfterSearch == {"done", "verified", "handed", "staged", "raised"}

\* An exact search without a reason has handled all but the frontier.
NothingIsDropped ==
  Exact /\ reasons = {} =>
    /\ ~ stop
    /\ \A i \in Rows : rows[i].depth < round => Handled(i)
    /\ ~ Searching => \A i \in Rows : rows[i].depth = round => i \in Range(frontier)
    /\ Searching => \A i \in Rows :
         /\ rows[i].depth = round => i \in Range(queue) \/ Handled(i)
         /\ rows[i].depth = round + 1 => i \in Range(children)
    /\ pc = "layer" => queue = <<>>
    /\ pc = "apply" => \A b \in Certifiable(rows[Parent].module) \ pending : Executed(Parent, b)
    /\ pc \in {"finish"} \cup AfterSearch => round = MaxRounds

\* Before the end only expanded rows have a reason.
ReasonsComeLast == pc \notin AfterSearch => HasReason \subseteq expanded

\* The fields of a row.
LEMMA RowIsTyped ==
  ASSUME NEW r \in StateRow
  PROVE  /\ r.module \in IR /\ r.copyOf \in Nat /\ r.depth \in 0 .. MaxRounds /\ r.depth \in Nat
         /\ r.parent \in Nat /\ r.batch \in Batches \cup {0}
         /\ r.path \in PathInfo /\ r.first \in Seq(Batches)
         /\ r.path.length \in Nat /\ r.path.invocations \in Nat /\ r.path.sequence \in Seq(Batches)
BY LegacyAssumption DEF StateRow, PathInfo

\* The fields of a path that is extended.
LEMMA PathIsExtended ==
  ASSUME NEW p \in PathInfo, NEW b \in Batches
  PROVE  /\ ExtendPath(p, b) \in PathInfo
         /\ ExtendPath(p, b).length = p.length + 1
         /\ ExtendPath(p, b).sequence = Append(p.sequence, b)
BY WorldAssumption DEF PathInfo, ExtendPath

\* What the rows' recorded parents and batches spell.
Spelling(f) ==
  f = [j \in Rows |-> IF j = 1 THEN <<>> ELSE Append(f[rows[j].parent], rows[j].batch)]

\* _chosen_path_rows follows the parents.
LEMMA ChosenIsSpelled ==
  ASSUME NEW f, Spelling(f), NEW i \in Rows
  PROVE  \E g : Spelling(g) /\ ChosenPath(i) = g[i]
<1> DEFINE W == CHOOSE g : Spelling(g)
<1>1. Spelling(W)
  OBVIOUS
<1>2. ChosenPath(i) = W[i]
  BY DEF ChosenPath, Spelling
<1> QED BY <1>1, <1>2

\* What of a row its path depends on.
LEMMA RowHasFields ==
  ASSUME RowsAreRecorded, RowsFollow, NEW i \in Rows
  PROVE  /\ i \in Nat /\ 1 \in Rows
         /\ rows[i].depth \in Nat
         /\ i = 1 => rows[i].path.sequence = <<>>
         /\ i # 1 => /\ rows[i].parent \in Rows
                     /\ rows[i].depth = rows[rows[i].parent].depth + 1
                     /\ rows[i].path.sequence = Append(rows[rows[i].parent].path.sequence, rows[i].batch)
<1>1. i \in Nat /\ 1 \in Rows /\ rows[i] \in StateRow
  BY DEF RowsAreRecorded, Rows
<1>2. rows[i].depth \in Nat
  BY <1>1, RowIsTyped
<1>3. i = 1 => rows[i].path.sequence = <<>>
  BY DEF RowsAreRecorded, RootPath
<1>4. ASSUME i # 1
      PROVE  /\ rows[i].parent \in Rows
             /\ rows[i].depth = rows[rows[i].parent].depth + 1
             /\ rows[i].path = ExtendPath(rows[rows[i].parent].path, rows[i].batch)
  BY <1>4 DEF RowsFollow, Follows
<1> QED BY <1>1, <1>2, <1>3, <1>4 DEF ExtendPath

\* The path along the parents is the recorded one: depths go down along them.
LEMMA ChosenIsRecorded ==
  ASSUME RowsAreRecorded, RowsFollow
  PROVE  \A i \in Rows : ChosenPath(i) = rows[i].path.sequence
<1> DEFINE f == [j \in Rows |-> rows[j].path.sequence]
<1>1. Spelling(f)
  <2>1. ASSUME NEW j \in Rows
        PROVE  f[j] = IF j = 1 THEN <<>> ELSE Append(f[rows[j].parent], rows[j].batch)
    BY RowHasFields
  <2>2. f = [j \in Rows |-> f[j]]
    OBVIOUS
  <2> HIDE DEF f
  <2>3. f = [j \in Rows |-> IF j = 1 THEN <<>> ELSE Append(f[rows[j].parent], rows[j].batch)]
    BY <2>1, <2>2
  <2> QED BY <2>3 DEF Spelling
<1> SUFFICES ASSUME NEW i \in Rows PROVE ChosenPath(i) = rows[i].path.sequence
  OBVIOUS
<1>2. PICK g : Spelling(g) /\ ChosenPath(i) = g[i]
  BY <1>1, ChosenIsSpelled
<1> DEFINE T == {d \in Nat : \E j \in Rows : rows[j].depth = d /\ g[j] # f[j]}
<1>3. T = {}
  <2> SUFFICES ASSUME T # {} PROVE FALSE
    OBVIOUS
  <2>1. PICK d \in T : \A e \in T : d <= e
    BY LeastNumber
  <2>2. PICK j \in Rows : rows[j].depth = d /\ g[j] # f[j]
    BY <2>1
  <2>3. g[j] = IF j = 1 THEN <<>> ELSE Append(g[rows[j].parent], rows[j].batch)
    BY <1>2 DEF Spelling
  <2>4. f[j] = IF j = 1 THEN <<>> ELSE Append(f[rows[j].parent], rows[j].batch)
    BY <1>1 DEF Spelling
  <2> HIDE DEF f
  <2>5. j # 1
    BY <2>2, <2>3, <2>4
  <2> DEFINE p == rows[j].parent
  <2>6. p \in Rows /\ rows[j].depth = rows[p].depth + 1 /\ rows[p].depth \in Nat
    BY <2>5, RowHasFields
  <2>7. g[p] # f[p]
    BY <2>2, <2>3, <2>4, <2>5
  <2> HIDE DEF p
  <2>8. rows[p].depth \in T
    BY <2>6, <2>7
  <2>9. d <= rows[p].depth
    BY <2>1, <2>8
  <2> QED BY <2>2, <2>6, <2>9
<1>4. g[i] = f[i]
  BY <1>3, RowHasFields
<1> QED BY <1>2, <1>4

-----------------------------------------------------------------------------
(* Rows that stay.                                                         *)

\* A walk depends on nothing but the world.
LEMMA WalkStays ==
  ASSUME world' = world
  PROVE  \A m, s : Walk(m, s)' = Walk(m, s)
BY DEF Walk, Compiler

\* Steps that leave the rows leave their first paths.
LEMMA FirstsStay ==
  ASSUME FirstsLead, UNCHANGED <<world, rows>>
  PROVE  FirstsLead'
<1>1. Rows' = Rows
  BY DEF Rows
<1>2. ASSUME NEW i \in Rows PROVE (Walk(rows[1].module, rows[i].first) = rows[i].module)'
  <2>1. Walk(rows[1].module, rows[i].first)' = Walk(rows[1].module, rows[i].first)
    BY DEF Walk, Compiler
  <2> QED BY <2>1 DEF FirstsLead
<1> QED BY <1>1, <1>2 DEF FirstsLead

\* And the rows' invariant.
LEMMA RowsStay ==
  ASSUME RowsInvariant, UNCHANGED <<world, mode, rows>>
  PROVE  RowsInvariant'
<1>1. Rows' = Rows /\ Compiler' = Compiler
  BY DEF Rows, Compiler
<1>2. RowsAreRecorded'
  BY <1>1 DEF RowsInvariant, RowsAreRecorded
<1>3. RowsFollow'
  BY <1>1 DEF RowsInvariant, RowsFollow, Follows
<1>4. OriginalsDiffer'
  BY <1>1 DEF RowsInvariant, OriginalsDiffer, Original
<1> QED BY <1>2, <1>3, <1>4, FirstsStay DEF RowsInvariant

-----------------------------------------------------------------------------
(* Rows that are added.                                                    *)

\* A row as the searches add it.
Fits(r) ==
  /\ r \in StateRow /\ r.copyOf <= Len(rows) /\ r.path.length = r.depth
  /\ r.parent \in Rows
  /\ Follows(r, rows[r.parent])
  /\ Walk(rows[1].module, r.first) = r.module

\* Rows with one more row.
LEMMA RowIsAppended ==
  ASSUME RowsAreRecorded, NEW r \in StateRow, rows' = Append(rows, r)
  PROVE  /\ Len(rows) \in Nat \ {0}
         /\ rows' \in Seq(StateRow) /\ rows' # <<>>
         /\ Len(rows') = Len(rows) + 1
         /\ Rows = 1 .. Len(rows) /\ Rows' = 1 .. Len(rows) + 1
         /\ 1 \in Rows
         /\ \A i \in Rows : i \in Nat /\ i \in Rows' /\ i # Len(rows) + 1 /\ rows'[i] = rows[i]
         /\ rows'[Len(rows) + 1] = r
         /\ Len(rows) + 1 \in Rows'
         /\ \A i \in Rows' : i \in Rows \/ i = Len(rows) + 1
<1>1. rows \in Seq(StateRow) /\ rows # <<>>
  BY DEF RowsAreRecorded
<1>2. /\ Len(rows) \in Nat \ {0}
      /\ rows' \in Seq(StateRow) /\ rows' # <<>>
      /\ Len(rows') = Len(rows) + 1
      /\ DOMAIN rows = 1 .. Len(rows) /\ DOMAIN rows' = 1 .. Len(rows')
      /\ \A i \in 1 .. Len(rows) : rows'[i] = rows[i]
      /\ rows'[Len(rows) + 1] = r
  BY <1>1
<1> QED BY <1>2 DEF Rows

\* A row that fits may be added.
LEMMA RowsAdd ==
  ASSUME RowsInvariant, UNCHANGED <<world, mode>>, NEW r, Fits(r), rows' = Append(rows, r),
         r.copyOf = 0 => Known(r.module) = {}
  PROVE  RowsInvariant'
<1> DEFINE n == Len(rows) + 1
<1>0. r \in StateRow /\ RowsAreRecorded
  BY DEF Fits, RowsInvariant
<1>1. /\ Len(rows) \in Nat \ {0}
      /\ rows' \in Seq(StateRow) /\ rows' # <<>>
      /\ Rows' = 1 .. n /\ n \in Nat /\ n > 1
      /\ 1 \in Rows
      /\ \A i \in Rows : i \in Nat /\ i \in Rows' /\ i # n /\ rows'[i] = rows[i]
      /\ rows'[n] = r /\ n \in Rows'
      /\ \A i \in Rows' : i \in Rows \/ i = n
  BY <1>0, RowIsAppended
<1>2. Compiler' = Compiler
  BY DEF Compiler
<1>3. RowsAreRecorded'
  <2>1. ASSUME NEW i \in Rows' PROVE rows'[i].copyOf < i /\ rows'[i].path.length = rows'[i].depth
    <3>1. CASE i \in Rows
      BY <1>1, <3>1 DEF RowsInvariant, RowsAreRecorded
    <3>2. CASE i = n
      <4>1. r.copyOf \in Nat /\ r.copyOf <= Len(rows) /\ r.path.length = r.depth
        BY <1>0, RowIsTyped DEF Fits
      <4> QED BY <1>1, <3>2, <4>1
    <3> QED BY <1>1, <2>1, <3>1, <3>2
  <2> HIDE DEF n
  <2>2. rows'[1].depth = 0 /\ rows'[1].path = RootPath /\ rows'[1].first = <<>>
    BY <1>1 DEF RowsInvariant, RowsAreRecorded
  <2> QED BY <1>1, <2>1, <2>2 DEF RowsAreRecorded
<1>4. RowsFollow'
  <2> HIDE DEF n
  <2> SUFFICES ASSUME NEW i \in Rows' \ {1}
               PROVE  (rows[i].parent \in Rows /\ Follows(rows[i], rows[rows[i].parent]))'
    BY DEF RowsFollow
  <2>1. CASE i \in Rows
    <3>1. rows[i].parent \in Rows /\ Follows(rows[i], rows[rows[i].parent])
      BY <2>1 DEF RowsInvariant, RowsFollow
    <3> QED BY <1>1, <1>2, <2>1, <3>1 DEF Follows
  <2>2. CASE i = n
    <3>1. r.parent \in Rows /\ Follows(r, rows[r.parent])
      BY DEF Fits
    <3> QED BY <1>1, <1>2, <2>2, <3>1 DEF Follows
  <2> QED BY <1>1, <2>1, <2>2
<1>5. FirstsLead'
  <2> HIDE DEF n
  <2> SUFFICES ASSUME NEW i \in Rows'
               PROVE  (Walk(rows[1].module, rows[i].first) = rows[i].module)'
    BY DEF FirstsLead
  <2>1. \A m, s : Walk(m, s)' = Walk(m, s)
    BY WalkStays
  <2>2. Walk(rows[1].module, rows[i].first)' = Walk(rows'[1].module, rows'[i].first)
    BY DEF Walk, Compiler
  <2>3. CASE i \in Rows
    BY <1>1, <2>2, <2>3 DEF RowsInvariant, FirstsLead
  <2>4. CASE i = n
    BY <1>1, <2>2, <2>4 DEF Fits
  <2> QED BY <1>1, <2>3, <2>4
<1>6. OriginalsDiffer'
  <2> HIDE DEF n
  <2> SUFFICES ASSUME NEW i \in Rows', NEW j \in Rows', (Original(i) /\ Original(j))',
                      (Compiler.hash[rows[i].module] = Compiler.hash[rows[j].module])'
               PROVE  i = j
    BY DEF OriginalsDiffer
  <2>1. CASE i \in Rows /\ j \in Rows
    BY <1>1, <1>2, <2>1 DEF RowsInvariant, OriginalsDiffer, Original
  <2>2. ASSUME i \in Rows, j = n PROVE FALSE
    <3>1. r.copyOf = 0 /\ Compiler.hash[rows[i].module] = Compiler.hash[r.module] /\ rows[i].copyOf = 0
      BY <1>1, <1>2, <2>2 DEF Original
    <3>2. i \in Known(r.module)
      BY <2>2, <3>1 DEF Known
    <3> QED BY <3>1, <3>2
  <2>3. ASSUME j \in Rows, i = n PROVE FALSE
    <3>1. r.copyOf = 0 /\ Compiler.hash[rows[j].module] = Compiler.hash[r.module] /\ rows[j].copyOf = 0
      BY <1>1, <1>2, <2>3 DEF Original
    <3>2. j \in Known(r.module)
      BY <2>3, <3>1 DEF Known
    <3> QED BY <3>1, <3>2
  <2> QED BY <1>1, <2>1, <2>2, <2>3
<1> QED BY <1>3, <1>4, <1>5, <1>6 DEF RowsInvariant

-----------------------------------------------------------------------------
(* A row whose path is replaced.                                           *)

\* A row with another path, as better paths replace older ones.
Edited(r, q, p, b) == [r EXCEPT !.path = q, !.parent = p, !.batch = b]
\* An edited row is a row.
LEMMA EditedIsRow ==
  ASSUME NEW r \in StateRow, NEW p \in PathInfo, NEW q \in Nat, NEW b \in Batches
  PROVE  /\ Edited(r, p, q, b) \in StateRow
         /\ Edited(r, p, q, b).path = p /\ Edited(r, p, q, b).parent = q /\ Edited(r, p, q, b).batch = b
         /\ Edited(r, p, q, b).module = r.module /\ Edited(r, p, q, b).copyOf = r.copyOf /\ Edited(r, p, q, b).depth = r.depth
         /\ Edited(r, p, q, b).first = r.first
BY DEF StateRow, Edited

\* A sequence with another entry.
Exchanged(f, i, r) == [f EXCEPT ![i] = r]

\* A sequence with another entry.
LEMMA EntryIsExchanged ==
  ASSUME NEW f \in Seq(StateRow), NEW i \in 1 .. Len(f), NEW r \in StateRow
  PROVE  /\ Exchanged(f, i, r) \in Seq(StateRow) /\ Len(Exchanged(f, i, r)) = Len(f)
         /\ DOMAIN Exchanged(f, i, r) = DOMAIN f
         /\ Exchanged(f, i, r)[i] = r
         /\ \A j \in 1 .. Len(f) : j # i => Exchanged(f, i, r)[j] = f[j]
BY DEF Exchanged

\* The rows when one is given another path.
Rerouted(f, i, q, p, b) == [f EXCEPT ![i].path = q, ![i].parent = p, ![i].batch = b]

\* A rerouted row is an edited one.
LEMMA RerouteIsEdit ==
  ASSUME NEW f \in Seq(StateRow), NEW i \in 1 .. Len(f), NEW q \in PathInfo, NEW p \in Nat, NEW b \in Batches
  PROVE  Rerouted(f, i, q, p, b) = Exchanged(f, i, Edited(f[i], q, p, b))
BY DEF Edited, Exchanged, Rerouted

\* Rows of which one is rerouted.
LEMMA RowIsRerouted ==
  ASSUME RowsAreRecorded, NEW i \in Rows, NEW p \in Rows, NEW b \in Batches, NEW q \in PathInfo,
         rows' = Rerouted(rows, i, q, p, b)
  PROVE  /\ rows' \in Seq(StateRow) /\ rows' # <<>> /\ Rows' = Rows /\ Len(rows') = Len(rows)
         /\ \A j \in Rows : j # i => rows'[j] = rows[j]
         /\ \A j \in Rows : /\ rows'[j].module = rows[j].module /\ rows'[j].copyOf = rows[j].copyOf
                            /\ rows'[j].depth = rows[j].depth /\ rows'[j].first = rows[j].first
         /\ rows'[i].path = q /\ rows'[i].parent = p /\ rows'[i].batch = b
<1>1. /\ rows \in Seq(StateRow) /\ rows # <<>> /\ Len(rows) \in Nat /\ rows[i] \in StateRow
      /\ i \in 1 .. Len(rows) /\ p \in Nat /\ DOMAIN rows = 1 .. Len(rows)
  BY DEF RowsAreRecorded, Rows
<1> DEFINE r == Edited(rows[i], q, p, b)
<1>2. /\ r \in StateRow
      /\ r.path = q /\ r.parent = p /\ r.batch = b
      /\ r.module = rows[i].module /\ r.copyOf = rows[i].copyOf /\ r.depth = rows[i].depth
      /\ r.first = rows[i].first
  BY <1>1, EditedIsRow
<1>3. rows' = Exchanged(rows, i, r)
  BY <1>1, RerouteIsEdit
<1> HIDE DEF r
<1>4. /\ rows' \in Seq(StateRow) /\ Len(rows') = Len(rows)
      /\ DOMAIN rows' = DOMAIN rows
      /\ rows'[i] = r /\ \A j \in 1 .. Len(rows) : j # i => rows'[j] = rows[j]
  <2> DEFINE g == Exchanged(rows, i, r)
  <2>1. /\ g \in Seq(StateRow) /\ Len(g) = Len(rows)
        /\ DOMAIN g = DOMAIN rows
        /\ g[i] = r
        /\ \A j \in 1 .. Len(rows) : j # i => g[j] = rows[j]
    BY <1>1, <1>2, EntryIsExchanged
  <2>2. rows' = g
    BY <1>3
  <2> HIDE DEF g
  <2> QED BY <2>1, <2>2
<1>5. rows' # <<>>
  BY <1>1, <1>4
<1> QED BY <1>1, <1>2, <1>4, <1>5 DEF Rows

\* A row may be rerouted through a parent of the layer before.
LEMMA RowsChange ==
  ASSUME RowsInvariant, UNCHANGED <<world, mode>>,
         NEW i \in Rows \ {1}, NEW p \in Rows, NEW b \in Batches,
         rows' = Rerouted(rows, i, ExtendPath(rows[p].path, b), p, b),
         rows[i].depth = rows[p].depth + 1,
         Leads(Compiler, mode, rows[p].module, b, rows[i].module),
         \A j \in Rows \ {1} : rows[j].parent # i
  PROVE  RowsInvariant'
<1> DEFINE q == ExtendPath(rows[p].path, b)
<1>0. RowsAreRecorded
  BY DEF RowsInvariant
<1>1. q \in PathInfo /\ q.length = rows[p].depth + 1
  <2>1. rows[p] \in StateRow
    BY <1>0 DEF RowsAreRecorded, Rows
  <2>2. rows[p].path \in PathInfo /\ rows[p].path.length = rows[p].depth
    BY <1>0, <2>1, RowIsTyped DEF RowsAreRecorded
  <2> QED BY <2>2, PathIsExtended
<1>2. /\ rows' \in Seq(StateRow) /\ rows' # <<>> /\ Rows' = Rows
      /\ \A j \in Rows : j # i => rows'[j] = rows[j]
      /\ \A j \in Rows : /\ rows'[j].module = rows[j].module /\ rows'[j].copyOf = rows[j].copyOf
                         /\ rows'[j].depth = rows[j].depth /\ rows'[j].first = rows[j].first
      /\ rows'[i].path = q /\ rows'[i].parent = p /\ rows'[i].batch = b
  <2>1. rows' = Rerouted(rows, i, q, p, b)
    OBVIOUS
  <2> HIDE DEF q
  <2> QED BY <1>0, <1>1, <2>1, RowIsRerouted
<1>3. Compiler' = Compiler /\ mode' = mode
  BY DEF Compiler
<1>4. 1 \in Rows /\ p # i
  <2>1. rows[p].depth \in Nat
    BY <1>0, RowIsTyped DEF RowsAreRecorded, Rows
  <2> QED BY <1>0, <2>1 DEF RowsAreRecorded, Rows
<1>5. q = ExtendPath(rows[p].path, b)
  OBVIOUS
<1> HIDE DEF q
<1>6. RowsAreRecorded'
  <2>1. ASSUME NEW j \in Rows' PROVE rows'[j].copyOf < j /\ rows'[j].path.length = rows'[j].depth
    BY <1>0, <1>1, <1>2, <2>1 DEF RowsAreRecorded
  <2>2. rows'[1].depth = 0 /\ rows'[1].path = RootPath /\ rows'[1].first = <<>>
    BY <1>0, <1>2, <1>4 DEF RowsAreRecorded
  <2> QED BY <1>2, <2>1, <2>2 DEF RowsAreRecorded
<1>7. RowsFollow'
  <2> SUFFICES ASSUME NEW j \in Rows \ {1}
               PROVE  (rows[j].parent \in Rows /\ Follows(rows[j], rows[rows[j].parent]))'
    BY <1>2 DEF RowsFollow
  <2>1. CASE j = i
    <3>1. rows'[p] = rows[p]
      BY <1>2, <1>4
    <3>2. /\ rows'[i].depth = rows'[p].depth + 1
          /\ rows'[i].path = ExtendPath(rows'[p].path, rows'[i].batch)
          /\ Leads(Compiler', mode', rows'[p].module, rows'[i].batch, rows'[i].module)
      BY <1>2, <1>3, <1>5, <3>1
    <3>3. Follows(rows[j], rows[rows[j].parent])'
      BY <1>2, <2>1, <3>2 DEF Follows
    <3> QED BY <1>2, <2>1, <3>3
  <2>2. CASE j # i
    <3>1. rows[j].parent \in Rows /\ Follows(rows[j], rows[rows[j].parent]) /\ rows[j].parent # i
      BY DEF RowsInvariant, RowsFollow
    <3>2. rows'[j] = rows[j] /\ rows'[rows[j].parent] = IF rows[j].parent = i THEN rows'[i] ELSE rows[rows[j].parent]
      BY <1>2, <2>2, <3>1
    <3>3. /\ rows'[rows[j].parent] = rows[rows[j].parent]
          /\ rows'[j].parent = rows[j].parent
      BY <3>1, <3>2
    <3>4. Follows(rows[j], rows[rows[j].parent])' = Follows(rows[j], rows[rows[j].parent])
      BY <1>3, <3>2, <3>3 DEF Follows
    <3> QED BY <1>2, <3>1, <3>3, <3>4
  <2> QED BY <2>1, <2>2
<1>8. FirstsLead'
  <2> SUFFICES ASSUME NEW j \in Rows
               PROVE  (Walk(rows[1].module, rows[j].first) = rows[j].module)'
    BY <1>2 DEF FirstsLead
  <2>1. Walk(rows[1].module, rows[j].first)' = Walk(rows'[1].module, rows'[j].first)
    BY DEF Walk, Compiler
  <2> QED BY <1>2, <1>4, <2>1 DEF RowsInvariant, FirstsLead
<1>9. OriginalsDiffer'
  BY <1>2, <1>3 DEF RowsInvariant, OriginalsDiffer, Original
<1> QED BY <1>6, <1>7, <1>8, <1>9 DEF RowsInvariant

-----------------------------------------------------------------------------
(* The inductive invariant of a search, and the batch that comes next.     *)

\* The inductive invariant of a search.
SearchInvariant ==
  /\ RowsInvariant /\ LayersAreOrdered /\ CallIsTyped /\ CallIsApplied /\ CapIsKept

\* The head and the tail of a queue.
LEMMA HeadIsListed ==
  ASSUME NEW q \in Seq(Nat), q # <<>>
  PROVE  /\ Head(q) \in Nat /\ Head(q) \in Range(q)
         /\ Tail(q) \in Seq(Nat)
         /\ Range(q) = {Head(q)} \cup Range(Tail(q))
<1>1. /\ Len(q) \in Nat \ {0} /\ DOMAIN q = 1 .. Len(q) /\ Head(q) = q[1] /\ 1 \in DOMAIN q
      /\ Tail(q) \in Seq(Nat) /\ DOMAIN Tail(q) = 1 .. Len(q) - 1
      /\ \A k \in 1 .. Len(q) - 1 : Tail(q)[k] = q[k + 1]
      /\ q[1] \in Nat
  OBVIOUS
<1>2. Head(q) \in Range(q)
  BY <1>1 DEF Range
<1>3. ASSUME NEW x \in Range(Tail(q)) PROVE x \in Range(q)
  <2>1. PICK k \in 1 .. Len(q) - 1 : x = q[k + 1]
    BY <1>1 DEF Range
  <2>2. k + 1 \in DOMAIN q
    BY <1>1
  <2> QED BY <2>1, <2>2 DEF Range
<1>4. ASSUME NEW x \in Range(q) PROVE x = Head(q) \/ x \in Range(Tail(q))
  <2>1. PICK k \in 1 .. Len(q) : x = q[k]
    BY <1>1 DEF Range
  <2>2. CASE k = 1
    BY <1>1, <2>1, <2>2
  <2>3. CASE k # 1
    <3>1. k - 1 \in 1 .. Len(q) - 1 /\ q[k] = Tail(q)[k - 1]
      BY <1>1, <2>1, <2>3
    <3> QED BY <1>1, <2>1, <3>1 DEF Range
  <2> QED BY <2>2, <2>3
<1> QED BY <1>1, <1>2, <1>3, <1>4

\* A queue with one entry more.
LEMMA AppendIsListed ==
  ASSUME NEW q \in Seq(Nat), NEW n \in Nat
  PROVE  /\ Append(q, n) \in Seq(Nat) /\ Len(Append(q, n)) = Len(q) + 1
         /\ Range(Append(q, n)) = Range(q) \cup {n}
<1>1. /\ Len(q) \in Nat /\ DOMAIN q = 1 .. Len(q)
      /\ Append(q, n) \in Seq(Nat) /\ Len(Append(q, n)) = Len(q) + 1
      /\ DOMAIN Append(q, n) = 1 .. Len(q) + 1
      /\ \A k \in 1 .. Len(q) : Append(q, n)[k] = q[k]
      /\ Append(q, n)[Len(q) + 1] = n
  OBVIOUS
<1> QED BY <1>1 DEF Range

\* The parent is a row of this layer.
LEMMA ParentIsRow ==
  ASSUME RowsInvariant, LayersAreOrdered, CallIsTyped, Searching, queue # <<>>
  PROVE  /\ Parent \in Rows /\ rows[Parent] \in StateRow
         /\ ~ ByStates => rows[Parent].depth = round
<1>1. Parent \in Range(queue)
  BY HeadIsListed DEF CallIsTyped, Parent
<1>2. At(Parent, round)
  BY <1>1 DEF LayersAreOrdered
<1> QED BY <1>2 DEF At, RowsInvariant, RowsAreRecorded, Rows

\* So its child is typed.
LEMMA ChildIsTyped ==
  ASSUME SearchInvariant, pc = "apply", NEW b \in pending
  PROVE  Parent \in Rows /\ rows[Parent] \in StateRow /\ b \in Batches /\ Child(b) \in IR
         /\ (~ ByStates => rows[Parent].depth = round)
         /\ rows[Parent].depth \in Nat /\ rows[Parent].depth + 1 \in 0 .. MaxRounds
         /\ rows[Parent].module \in IR
<1>1. Searching /\ queue # <<>> /\ b \in Batches
  BY DEF SearchInvariant, Searching, CallIsApplied, CallIsTyped
<1>2. /\ Parent \in Rows /\ rows[Parent] \in StateRow
      /\ ~ ByStates => rows[Parent].depth = round
  BY <1>1, ParentIsRow DEF SearchInvariant
<1>3. rows[Parent].module \in IR /\ rows[Parent].depth \in Nat
  BY <1>2, RowIsTyped
<1>4. Child(b) \in IR
  BY <1>1, <1>3, WorldIsTyped DEF Child, SearchInvariant, CallIsTyped
<1>5. rows[Parent].depth + 1 \in 0 .. MaxRounds
  <2>1. CASE ByStates
    BY <1>3, <2>1, LegacyAssumption DEF SearchInvariant, CallIsApplied
  <2>2. CASE ~ ByStates
    BY <1>1, <1>2, <2>2, LegacyAssumption DEF SearchInvariant, CallIsTyped
  <2> QED BY <2>1, <2>2
<1> QED BY <1>1, <1>2, <1>3, <1>4, <1>5

\* The batch that comes next leads from the parent to its child.
LEMMA BatchLeads ==
  ASSUME SearchInvariant, pc = "apply", NEW b \in pending, NEW n,
         Compiler.hash[n] = Compiler.hash[Child(b)], ~ Exact => n = Child(b)
  PROVE  Leads(Compiler, mode, rows[Parent].module, b, n)
<1>1. b \in Batches
  BY ChildIsTyped
<1>2. CASE ByStates
  BY <1>1, <1>2 DEF SearchInvariant, CallIsApplied, Active, Leads, Child, ByStates, Exact
<1>3. CASE ~ ByStates
  BY <1>1, <1>3 DEF SearchInvariant, CallIsApplied, Certifiable, Leads, Child, ByStates, Exact
<1> QED BY <1>2, <1>3

\* The row of a child fits.
LEMMA RowFits ==
  ASSUME SearchInvariant, pc = "apply", NEW b \in pending,
         NEW copy \in 0 .. Len(rows), NEW d, d = rows[Parent].depth + 1
  PROVE  /\ Fits(Row(b, copy, d))
         /\ Row(b, copy, d).module = Child(b) /\ Row(b, copy, d).copyOf = copy
         /\ Row(b, copy, d).depth = d /\ Row(b, copy, d).parent = Parent
         /\ Row(b, copy, d).batch = b
<1>1. /\ Parent \in Rows /\ rows[Parent] \in StateRow /\ b \in Batches /\ Child(b) \in IR
      /\ rows[Parent].depth \in Nat /\ d \in 0 .. MaxRounds
  BY ChildIsTyped
<1>2. /\ Rows = 1 .. Len(rows) /\ Len(rows) \in Nat /\ Parent \in Nat /\ copy \in Nat /\ copy <= Len(rows)
      /\ rows[Parent].path.length = rows[Parent].depth
  BY <1>1 DEF SearchInvariant, RowsInvariant, RowsAreRecorded, Rows
<1>3. rows[Parent].path \in PathInfo /\ rows[Parent].first \in Seq(Batches)
  BY <1>1, RowIsTyped
<1> DEFINE q == ExtendPath(rows[Parent].path, b)
           f == Append(rows[Parent].first, b)
           r == Row(b, copy, d)
<1>4. q \in PathInfo /\ q.length = d /\ f \in Seq(Batches)
  BY <1>1, <1>2, <1>3, PathIsExtended
<1>5. r = [module |-> Child(b), copyOf |-> copy, depth |-> d, parent |-> Parent, batch |-> b, path |-> q, first |-> f]
  BY DEF Row
<1>6. Walk(rows[1].module, f) = Child(b)
  <2>1. Walk(rows[1].module, rows[Parent].first) = rows[Parent].module
    BY <1>1 DEF SearchInvariant, RowsInvariant, FirstsLead
  <2>2. Walk(rows[1].module, f) = Compiler.apply[Walk(rows[1].module, rows[Parent].first)][b]
    BY <1>1, <1>3, WalkAppend
  <2> QED BY <2>1, <2>2 DEF Child
<1>7. Leads(Compiler, mode, rows[Parent].module, b, Child(b))
  BY BatchLeads
<1>8. q = ExtendPath(rows[Parent].path, b)
  OBVIOUS
<1> HIDE DEF q, f, r
<1>9. /\ r \in StateRow
      /\ r.path = q /\ r.parent = Parent /\ r.batch = b
      /\ r.module = Child(b) /\ r.copyOf = copy /\ r.depth = d
      /\ r.first = f
  <2>1. Child(b) \in IR /\ copy \in Nat /\ d \in 0 .. MaxRounds /\ Parent \in Nat /\ b \in Batches \cup {0}
    BY <1>1, <1>2
  <2> QED BY <1>4, <1>5, <2>1 DEF StateRow
<1>10. Follows(r, rows[r.parent])
  BY <1>7, <1>8, <1>9 DEF Follows
<1>11. Fits(r)
  BY <1>1, <1>2, <1>4, <1>6, <1>9, <1>10 DEF Fits
<1> QED BY <1>9, <1>11 DEF r

-----------------------------------------------------------------------------
(* What each action does to the rows.                                      *)

\* A batch is applied within a round.
LEMMA ApplyIsAt ==
  ASSUME NEW b, IsNext(b)
  PROVE  pc = "apply" /\ b \in pending
BY DEF IsNext

\* A known row is an original.
LEMMA KnownRow ==
  ASSUME SearchInvariant, NEW m, NEW i \in Known(m)
  PROVE  i \in Rows /\ i \in 1 .. Len(rows) /\ rows[i].copyOf = 0
         /\ Compiler.hash[rows[i].module] = Compiler.hash[m] /\ rows[i] \in StateRow
BY DEF Known, Rows, SearchInvariant, RowsInvariant, RowsAreRecorded

\* A new state is added.
LEMMA NewStateKeepsRows ==
  ASSUME SearchInvariant, NEW b \in pending, NewState(b)
  PROVE  RowsInvariant'
<1>1. /\ pc = "apply" /\ UNCHANGED <<world, mode>> /\ ~ ByStates
      /\ Known(Child(b)) = {}
      /\ rows' = Append(rows, Row(b, 0, round + 1))
  BY DEF NewState, IsNext, runVars, Budgeted, Exact, ByStates
<1>2. round + 1 = rows[Parent].depth + 1 /\ 0 \in 0 .. Len(rows)
  BY <1>1, ChildIsTyped DEF SearchInvariant, RowsInvariant, RowsAreRecorded
<1>3. Fits(Row(b, 0, round + 1)) /\ Row(b, 0, round + 1).module = Child(b)
  BY <1>1, <1>2, RowFits
<1> QED BY <1>1, <1>3, RowsAdd DEF SearchInvariant

\* A copy is added.
LEMMA CopyKeepsRows ==
  ASSUME SearchInvariant, pc = "apply", NEW b \in pending, UNCHANGED <<world, mode>>,
         NEW i \in Known(Child(b)), NEW d, d = rows[Parent].depth + 1,
         rows' = Append(rows, Row(b, i, d))
  PROVE  RowsInvariant'
<1>1. i \in 0 .. Len(rows) /\ i # 0
  BY KnownRow DEF SearchInvariant, RowsInvariant, RowsAreRecorded
<1>2. Fits(Row(b, i, d)) /\ Row(b, i, d).copyOf # 0
  BY <1>1, RowFits
<1> QED BY <1>2, RowsAdd DEF SearchInvariant

\* The budgeted search adds copies.
LEMMA BudgetedDuplicateKeepsRows ==
  ASSUME SearchInvariant, NEW b \in pending, BudgetedDuplicate(b)
  PROVE  RowsInvariant'
<1>1. /\ pc = "apply" /\ UNCHANGED <<world, mode>> /\ ~ ByStates
      /\ \E i \in Known(Child(b)) : rows' = Append(rows, Row(b, i, round + 1))
  BY DEF BudgetedDuplicate, IsNext, runVars, Budgeted, ByStates
<1>2. round + 1 = rows[Parent].depth + 1
  BY <1>1, ChildIsTyped
<1> QED BY <1>1, <1>2, CopyKeepsRows

\* explore_batches adds both.
LEMMA ExploreBatchKeepsRows ==
  ASSUME SearchInvariant, NEW b \in pending, ExploreBatch(b)
  PROVE  RowsInvariant'
<1>1. pc = "apply" /\ UNCHANGED <<world, mode>> /\ ~ ByStates
  BY DEF ExploreBatch, IsNext, runVars, ByBatches, ByStates
<1>2. round + 1 = rows[Parent].depth + 1 /\ 0 \in 0 .. Len(rows)
  BY <1>1, ChildIsTyped DEF SearchInvariant, RowsInvariant, RowsAreRecorded
<1>3. CASE Known(Child(b)) = {}
  <2>1. rows' = Append(rows, Row(b, 0, round + 1))
    BY <1>3 DEF ExploreBatch
  <2>2. Fits(Row(b, 0, round + 1)) /\ Row(b, 0, round + 1).module = Child(b)
    BY <1>1, <1>2, RowFits
  <2> QED BY <1>1, <1>3, <2>1, <2>2, RowsAdd DEF SearchInvariant
<1>4. CASE Known(Child(b)) # {}
  <2>1. \E i \in Known(Child(b)) : rows' = Append(rows, Row(b, i, round + 1))
    BY <1>4 DEF ExploreBatch
  <2> QED BY <1>1, <1>2, <2>1, CopyKeepsRows
<1> QED BY <1>3, <1>4

\* explore_states does, too.
LEMMA ExplorePassKeepsRows ==
  ASSUME SearchInvariant, NEW b \in pending, ExplorePass(b)
  PROVE  RowsInvariant'
<1> DEFINE d == rows[Parent].depth + 1
<1>1. pc = "apply" /\ UNCHANGED <<world, mode>> /\ 0 \in 0 .. Len(rows)
  BY DEF ExplorePass, IsNext, runVars, SearchInvariant, RowsInvariant, RowsAreRecorded
<1>3. CASE Known(Child(b)) = {}
  <2>1. rows' = Append(rows, Row(b, 0, d))
    BY <1>3 DEF ExplorePass
  <2>2. Fits(Row(b, 0, d)) /\ Row(b, 0, d).module = Child(b)
    BY <1>1, RowFits
  <2> QED BY <1>1, <1>3, <2>1, <2>2, RowsAdd DEF SearchInvariant
<1>4. CASE Known(Child(b)) # {}
  <2>1. PICK i \in Known(Child(b)) : rows' = Append(rows, Row(b, i, d))
    BY <1>4 DEF ExplorePass
  <2> QED BY <1>1, <2>1, CopyKeepsRows
<1> QED BY <1>3, <1>4

\* A better path is not longer.
LEMMA BetterIsNotLonger ==
  ASSUME NEW p, NEW q, PathIsBetter(p, q)
  PROVE  p.length < q.length \/ p.length = q.length
BY DEF PathIsBetter

\* The row of a known state changes only if it is a row of the layer that is made.
LEMMA ExactDuplicateIsReroute ==
  ASSUME SearchInvariant, NEW b \in pending, ExactDuplicate(b)
  PROVE  \/ rows' = rows
         \/ \E i \in Known(Child(b)) \ {1} :
              /\ rows' = Rerouted(rows, i, ExtendPath(rows[Parent].path, b), Parent, b)
              /\ rows[i].depth = rows[Parent].depth + 1
              /\ \A j \in Rows \ {1} : rows[j].parent # i
<1>1. pc = "apply" /\ Exact /\ ~ ByStates /\ Searching
  BY DEF ExactDuplicate, IsNext, Exact, ByStates, Searching
<1>2. PICK i \in Known(Child(b)) :
        rows' = IF PathIsBetter(Row(b, 0, round + 1).path, rows[i].path)
                THEN [rows EXCEPT ![i].path = Row(b, 0, round + 1).path, ![i].parent = Parent, ![i].batch = b]
                ELSE rows
  BY DEF ExactDuplicate
<1> DEFINE q == Row(b, 0, round + 1).path
<1>3. q = ExtendPath(rows[Parent].path, b)
  BY DEF Row
<1>4. /\ Parent \in Rows /\ rows[Parent] \in StateRow /\ b \in Batches
      /\ rows[Parent].depth = round /\ rows[Parent].depth \in Nat
  BY <1>1, ChildIsTyped
<1>5. /\ i \in Rows /\ rows[i] \in StateRow /\ 1 \in Rows
  BY KnownRow DEF SearchInvariant, RowsInvariant, RowsAreRecorded, Rows
<1>6. q.length = round + 1
  <2>1. rows[Parent].path \in PathInfo /\ rows[Parent].path.length = round
    BY <1>4, RowIsTyped DEF SearchInvariant, RowsInvariant, RowsAreRecorded
  <2> QED BY <1>3, <1>4, <2>1, PathIsExtended
<1>7. \A j \in Rows : rows[j].depth <= round + 1 /\ rows[j].depth \in Nat /\ rows[j].path.length = rows[j].depth
  <2>1. \A j \in Rows : rows[j] \in StateRow
    BY DEF SearchInvariant, RowsInvariant, RowsAreRecorded, Rows
  <2> QED BY <1>1, <2>1, RowIsTyped DEF SearchInvariant, LayersAreOrdered, Deepest, RowsInvariant, RowsAreRecorded
<1> HIDE DEF q
<1>8. CASE PathIsBetter(q, rows[i].path)
  <2>a. q.length < rows[i].path.length \/ q.length = rows[i].path.length
    BY <1>8, BetterIsNotLonger
  <2>1. q.length <= rows[i].path.length
    BY <1>4, <1>5, <1>6, <1>7, <2>a
  <2>2. rows[i].depth = round + 1
    BY <1>4, <1>5, <1>6, <1>7, <2>1
  <2>3. i # 1
    BY <1>4, <2>2 DEF SearchInvariant, RowsInvariant, RowsAreRecorded
  <2>4. ASSUME NEW j \in Rows \ {1}, rows[j].parent = i PROVE FALSE
    <3>1. rows[j].depth = rows[i].depth + 1
      BY <2>4 DEF SearchInvariant, RowsInvariant, RowsFollow, Follows
    <3> QED BY <1>4, <1>7, <2>2, <3>1
  <2>5. rows' = Rerouted(rows, i, q, Parent, b)
    BY <1>2, <1>8 DEF Rerouted, q
  <2> QED BY <1>3, <1>4, <2>2, <2>3, <2>4, <2>5
<1>9. CASE ~ PathIsBetter(q, rows[i].path)
  BY <1>2, <1>9 DEF q
<1> QED BY <1>8, <1>9

\* The exact search reroutes.
LEMMA ExactDuplicateKeepsRows ==
  ASSUME SearchInvariant, NEW b \in pending, ExactDuplicate(b)
  PROVE  RowsInvariant'
<1>1. pc = "apply" /\ Exact /\ UNCHANGED <<world, mode>>
  BY DEF ExactDuplicate, IsNext, runVars
<1>2. CASE rows' = rows
  BY <1>1, <1>2, RowsStay DEF SearchInvariant
<1>3. ASSUME NEW i \in Known(Child(b)) \ {1},
             rows' = Rerouted(rows, i, ExtendPath(rows[Parent].path, b), Parent, b),
             rows[i].depth = rows[Parent].depth + 1,
             \A j \in Rows \ {1} : rows[j].parent # i
      PROVE  RowsInvariant'
  <2>1. i \in Rows \ {1} /\ Compiler.hash[rows[i].module] = Compiler.hash[Child(b)]
    BY KnownRow
  <2>2. Leads(Compiler, mode, rows[Parent].module, b, rows[i].module)
    BY <1>1, <2>1, BatchLeads
  <2>3. Parent \in Rows /\ b \in Batches
    BY <1>1, ChildIsTyped
  <2> QED BY <1>1, <1>3, <2>1, <2>2, <2>3, RowsChange DEF SearchInvariant
<1> QED BY <1>2, <1>3, ExactDuplicateIsReroute

-----------------------------------------------------------------------------
(* The beginning of a search.                                              *)

\* A search that has not begun.
Fresh ==
  /\ world \in DOMAIN Worlds /\ mode \in SearchModes /\ limits \in Limits \cup {NoLimits}
  /\ \E m \in IR : rows = RootRow(m)
  /\ expanded = {} /\ leaf = {} /\ stop = FALSE
  /\ round = 0 /\ frontier = <<1>> /\ children = <<>> /\ queue = <<>> /\ pending = {}
  /\ pc = "round"

\* The row of the root.
LEMMA RootIsRow ==
  ASSUME NEW m \in IR
  PROVE  /\ RootRow(m) \in Seq(StateRow) /\ RootRow(m) # <<>> /\ Len(RootRow(m)) = 1
         /\ DOMAIN RootRow(m) = {1}
         /\ RootRow(m)[1].module = m /\ RootRow(m)[1].copyOf = 0 /\ RootRow(m)[1].depth = 0
         /\ RootRow(m)[1].path = RootPath /\ RootRow(m)[1].first = <<>>
         /\ RootPath \in PathInfo /\ RootPath.length = 0
<1> DEFINE r == [module |-> m, copyOf |-> 0, depth |-> 0, parent |-> 0, batch |-> 0, path |-> RootPath,
                 first |-> <<>>]
<1>1. RootPath \in PathInfo /\ RootPath.length = 0
  BY DEF RootPath, PathInfo
<1>2. r \in StateRow
  BY <1>1, LegacyAssumption DEF StateRow
<1>3. RootRow(m) = <<r>>
  BY DEF RootRow
<1>4. /\ r.module = m /\ r.copyOf = 0 /\ r.depth = 0
      /\ r.path = RootPath /\ r.first = <<>>
  OBVIOUS
<1> HIDE DEF r
<1> QED BY <1>1, <1>2, <1>3, <1>4

\* A search that has not begun keeps every promise.
LEMMA FreshIsSound == Fresh => SearchInvariant
<1> SUFFICES ASSUME Fresh PROVE SearchInvariant
  OBVIOUS
<1>1. PICK m \in IR : rows = RootRow(m)
  BY DEF Fresh
<1>2. /\ rows \in Seq(StateRow) /\ rows # <<>> /\ Len(rows) = 1 /\ Rows = {1}
      /\ rows[1].module = m /\ rows[1].copyOf = 0 /\ rows[1].depth = 0
      /\ rows[1].path = RootPath /\ rows[1].first = <<>>
      /\ rows[1].path.length = 0
  BY <1>1, RootIsRow DEF Rows
<1>3. RowsInvariant
  <2>1. RowsAreRecorded
    BY <1>2 DEF RowsAreRecorded
  <2>2. RowsFollow
    BY <1>2 DEF RowsFollow
  <2>3. FirstsLead
    BY <1>2, WalkNowhere DEF FirstsLead
  <2>4. OriginalsDiffer
    BY <1>2 DEF OriginalsDiffer
  <2> QED BY <2>1, <2>2, <2>3, <2>4 DEF RowsInvariant
<1>4. Range(frontier) = {1} /\ Len(frontier) = 1 /\ Len(children) = 0
      /\ frontier \in Seq(Nat) /\ children \in Seq(Nat) /\ queue \in Seq(Nat)
  BY DEF Fresh, Range
<1>5. ~ Searching /\ pc # "apply" /\ round = 0
  BY DEF Fresh, Searching
<1>6. LayersAreOrdered
  BY <1>2, <1>4, <1>5 DEF LayersAreOrdered, Deepest, At
<1>7. CallIsTyped
  BY <1>4, <1>5, LegacyAssumption DEF CallIsTyped, Fresh, HasReason
<1>8. CallIsApplied
  BY <1>2, <1>5 DEF CallIsApplied, Fresh
<1>9. CapIsKept
  <2>1. {i \in Rows : rows[i].copyOf = 0} = {1}
    BY <1>2
  <2>2. StateCount = 1
    BY <2>1, FS_Singleton DEF StateCount
  <2> QED BY <2>2, LegacyAssumption DEF CapIsKept
<1> QED BY <1>3, <1>6, <1>7, <1>8, <1>9 DEF SearchInvariant

\* The same, of the next state.
LEMMA FreshIsSoundNext == Fresh' => SearchInvariant'
BY FreshIsSound, PTL

\* At first no search has begun.
LEMMA InitIsFresh == Init => Fresh
<1> SUFFICES ASSUME Init PROVE Fresh
  OBVIOUS
<1>1. Compiler.root \in IR
  BY WorldAssumption DEF Init, Compiler, World
<1>2. limits \in Limits \cup {NoLimits} /\ mode \in SearchModes
  BY LegacyAssumption DEF Init, SearchModes
<1> QED BY <1>1, <1>2 DEF Init, Fresh

\* The rows depend on the mode only when there are several.
LEMMA OneRowStays ==
  ASSUME RowsInvariant, UNCHANGED <<world, rows>>, Len(rows) = 1
  PROVE  RowsInvariant'
<1>1. Rows' = Rows /\ Compiler' = Compiler /\ Rows = {1}
  BY DEF Rows, Compiler, RowsInvariant, RowsAreRecorded
<1>2. RowsAreRecorded'
  BY <1>1 DEF RowsInvariant, RowsAreRecorded
<1>3. RowsFollow'
  BY <1>1 DEF RowsFollow
<1>4. OriginalsDiffer'
  BY <1>1 DEF OriginalsDiffer
<1> QED BY <1>2, <1>3, <1>4, FirstsStay DEF RowsInvariant

-----------------------------------------------------------------------------
(* Steps between and within rounds.                                        *)

\* What the invariant says of the rows, collected.
LEMMA RowsAreSound ==
  ASSUME SearchInvariant
  PROVE  /\ Len(rows) \in Nat \ {0} /\ Rows = 1 .. Len(rows) /\ 1 \in Rows
         /\ \A i \in Rows : rows[i] \in StateRow /\ rows[i].depth \in Nat /\ rows[i].module \in IR
                            /\ rows[i].path \in PathInfo /\ rows[i].path.length = rows[i].depth
                            /\ rows[i].copyOf \in Nat /\ rows[i].copyOf < i
<1>1. rows \in Seq(StateRow) /\ rows # <<>>
  BY DEF SearchInvariant, RowsInvariant, RowsAreRecorded
<1>2. Len(rows) \in Nat \ {0} /\ Rows = 1 .. Len(rows) /\ 1 \in Rows
  BY <1>1 DEF Rows
<1>3. \A i \in Rows : rows[i] \in StateRow
  BY <1>1, <1>2
<1> QED BY <1>2, <1>3, RowIsTyped DEF SearchInvariant, RowsInvariant, RowsAreRecorded

\* The count of states depends on nothing but the copies.
LEMMA CountStays ==
  ASSUME Rows' = Rows, \A i \in Rows : rows'[i].copyOf = rows[i].copyOf
  PROVE  StateCount' = StateCount
BY DEF StateCount

\* It grows with every original.
LEMMA CountGrows ==
  ASSUME SearchInvariant, NEW r \in StateRow, rows' = Append(rows, r)
  PROVE  /\ StateCount \in Nat
         /\ StateCount' = IF r.copyOf = 0 THEN StateCount + 1 ELSE StateCount
<1> DEFINE T == {i \in Rows : rows[i].copyOf = 0}
           n == Len(rows) + 1
<1>1. /\ Rows = 1 .. Len(rows) /\ n \in Nat /\ n \notin Rows /\ n \in Rows'
      /\ \A i \in Rows : i \in Rows' /\ rows'[i] = rows[i]
      /\ rows'[n] = r
      /\ \A i \in Rows' : i \in Rows \/ i = n
  BY RowIsAppended DEF SearchInvariant, RowsInvariant
<1>2. IsFiniteSet(T) /\ Cardinality(T) \in Nat /\ n \notin T
  <2>1. IsFiniteSet(Rows)
    BY <1>1, RowsAreSound, FS_Interval
  <2>2. IsFiniteSet(T)
    BY <2>1, FS_Subset
  <2> QED BY <1>1, <2>2, FS_CardinalityType
<1>3. {i \in Rows' : rows'[i].copyOf = 0} = IF r.copyOf = 0 THEN T \cup {n} ELSE T
  BY <1>1
<1> HIDE DEF n
<1>4. Cardinality(T \cup {n}) = Cardinality(T) + 1
  BY <1>2, FS_AddElement
<1> QED BY <1>2, <1>3, <1>4 DEF StateCount

\* The cap is kept where nothing changes.
LEMMA CapStays ==
  ASSUME CapIsKept, UNCHANGED <<rows, mode>>
  PROVE  CapIsKept'
BY DEF CapIsKept, StateCount, Rows, Budgeted, Exact

-----------------------------------------------------------------------------

\* auto becomes budgeted or exact.
LEMMA ChooseAutoModeKeeps ==
  ASSUME SearchInvariant, ChooseAutoMode
  PROVE  SearchInvariant'
<1>1. /\ pc = "round" /\ pc' = pc /\ mode = "auto" /\ mode' \in {"budgeted", "exact"} /\ Len(rows) = 1
      /\ UNCHANGED <<world, limits, rows, expanded, leaf, round, frontier, children, queue, pending>>
  BY DEF ChooseAutoMode, searchVars, SearchInvariant, CallIsApplied
<1>2. Rows' = Rows /\ ~ Searching /\ ~ Searching' /\ ~ ByStates /\ ~ ByStates'
  BY <1>1 DEF Rows, Searching, ByStates
<1>3. RowsInvariant'
  BY <1>1, OneRowStays DEF SearchInvariant
<1>4. LayersAreOrdered'
  BY <1>1, <1>2 DEF SearchInvariant, LayersAreOrdered, Deepest, At
<1>5. CallIsTyped'
  <2>1. mode' \in SearchModes
    BY <1>1 DEF SearchModes
  <2> QED BY <1>1, <1>2, <2>1 DEF SearchInvariant, CallIsTyped, HasReason
<1>6. CallIsApplied'
  BY <1>1, <1>2 DEF CallIsApplied
<1>7. CapIsKept'
  <2>1. {i \in Rows : rows[i].copyOf = 0} \subseteq {1} /\ Rows = {1}
    BY <1>1, RowsAreSound
  <2>2. {i \in Rows : rows[i].copyOf = 0} = {1}
    BY <2>1, RowsAreSound
  <2>3. StateCount = 1
    BY <2>2, FS_Singleton DEF StateCount
  <2>4. StateCount' = StateCount
    BY <1>1 DEF StateCount, Rows
  <2> QED BY <2>3, <2>4, LegacyAssumption DEF CapIsKept
<1> QED BY <1>3, <1>4, <1>5, <1>6, <1>7 DEF SearchInvariant

\* A round starts.
LEMMA StartRoundKeeps ==
  ASSUME SearchInvariant, StartRound
  PROVE  SearchInvariant'
<1>1. /\ pc = "round" /\ mode # "auto"
      /\ UNCHANGED <<world, mode, limits, rows, expanded, leaf, round, frontier, pending>>
      /\ \/ pc' = "finish" /\ UNCHANGED <<queue, children>>
         \/ pc' = "parent" /\ queue' = frontier /\ children' = <<>> /\ round # MaxRounds
  BY DEF StartRound, runVars
<1>2. Rows' = Rows /\ ~ Searching /\ ByStates' = ByStates
  BY <1>1 DEF Rows, Searching, ByStates
<1>3. RowsInvariant'
  BY <1>1, RowsStay DEF SearchInvariant
<1>4. round \in Nat /\ round <= MaxRounds /\ MaxRounds \in Nat
  BY LegacyAssumption DEF SearchInvariant, CallIsTyped, HasReason
<1>5. LayersAreOrdered'
  <2>1. \A i \in Rows : rows[i].depth \in Nat /\ Len(rows) \in Nat \ {0}
    BY RowsAreSound
  <2>2. CASE pc' = "finish" /\ UNCHANGED <<queue, children>>
    BY <1>1, <1>2, <2>2 DEF SearchInvariant, LayersAreOrdered, Deepest, At, Searching
  <2>3. CASE pc' = "parent" /\ queue' = frontier /\ children' = <<>> /\ round # MaxRounds
    <3>1. Searching' /\ Len(children') = 0 /\ Range(children') = {}
      BY <2>3 DEF Searching, Range
    <3>2. \A i \in Range(frontier) : At(i, round)
      BY <1>2 DEF SearchInvariant, LayersAreOrdered
    <3> QED BY <1>1, <1>2, <1>4, <2>1, <2>3, <3>1, <3>2 DEF SearchInvariant, LayersAreOrdered, Deepest, At
  <2> QED BY <1>1, <2>2, <2>3
<1>6. CallIsTyped'
  <2>1. <<>> \in Seq(Nat)
    OBVIOUS
  <2>2. Searching' => round' < MaxRounds
    BY <1>1, <1>4 DEF Searching
  <2> QED BY <1>1, <1>2, <2>1, <2>2 DEF SearchInvariant, CallIsTyped, HasReason
<1>7. CallIsApplied'
  BY <1>1, <1>2 DEF CallIsApplied, SearchInvariant
<1> QED BY <1>1, <1>3, <1>5, <1>6, <1>7, CapStays DEF SearchInvariant

\* A step within a round that adds no row.
LEMMA RoundStepKeeps ==
  ASSUME SearchInvariant, Searching, Searching',
         UNCHANGED <<world, mode, limits, rows, frontier, children, round>>,
         queue' = queue \/ (queue # <<>> /\ queue' = Tail(queue)),
         pending' \subseteq Batches, HasReason' \subseteq Rows, expanded' \subseteq Rows,
         CallIsApplied'
  PROVE  SearchInvariant'
<1>1. Rows' = Rows /\ ByStates' = ByStates
  BY DEF Rows, ByStates
<1>2. RowsInvariant'
  BY RowsStay DEF SearchInvariant
<1>3. queue' \in Seq(Nat) /\ Range(queue') \subseteq Range(queue)
  <2>1. queue \in Seq(Nat)
    BY DEF SearchInvariant, CallIsTyped
  <2>2. CASE queue' = queue
    BY <2>1, <2>2
  <2>3. CASE queue # <<>> /\ queue' = Tail(queue)
    BY <2>1, <2>3, HeadIsListed
  <2> QED BY <2>2, <2>3
<1>4. LayersAreOrdered'
  <2>1. Deepest' = Deepest /\ pc' # "round"
    BY DEF Deepest, Searching
  <2>2. \A i \in Range(children) : At(i, round + 1)'
    BY <1>1 DEF SearchInvariant, LayersAreOrdered, At
  <2>3. \A i \in Range(queue') : At(i, round)'
    BY <1>1, <1>3 DEF SearchInvariant, LayersAreOrdered, At
  <2>4. \A i \in Rows : ByStates \/ rows[i].depth <= Deepest
    BY DEF SearchInvariant, LayersAreOrdered
  <2>5. Len(frontier) <= Len(rows) /\ Len(children) < Len(rows) /\ Range(frontier) \subseteq Rows
    BY DEF SearchInvariant, LayersAreOrdered
  <2> QED BY <1>1, <2>1, <2>2, <2>3, <2>4, <2>5 DEF LayersAreOrdered
<1>5. CallIsTyped'
  BY <1>1, <1>3 DEF SearchInvariant, CallIsTyped
<1> QED BY <1>2, <1>4, <1>5, CapStays DEF SearchInvariant

\* What holds when a parent is next.
LEMMA ParentFacts ==
  ASSUME SearchInvariant, pc = "parent", queue # <<>>
  PROVE  /\ Searching /\ Parent \in Rows /\ mode # "auto"
         /\ rows[Parent].module \in IR
         /\ Certifiable(rows[Parent].module) \subseteq Batches
         /\ expanded \cup {Parent} \subseteq Rows
         /\ pending \subseteq Batches /\ HasReason \subseteq Rows
<1>1. Searching
  BY DEF Searching
<1>2. Parent \in Rows
  BY <1>1, ParentIsRow DEF SearchInvariant
<1>3. rows[Parent].module \in IR
  BY <1>2, RowsAreSound
<1>4. Certifiable(rows[Parent].module) \subseteq Batches
  BY <1>3, WorldIsTyped DEF SearchInvariant, CallIsTyped
<1>5. mode # "auto"
  BY <1>1 DEF SearchInvariant, CallIsApplied
<1>6. pending \subseteq Batches /\ HasReason \subseteq Rows /\ expanded \subseteq Rows
  BY DEF SearchInvariant, CallIsTyped
<1> QED BY <1>1, <1>2, <1>3, <1>4, <1>5, <1>6

\* A reason is added for a row.
LEMMA LeafIsAdded ==
  ASSUME NEW i, NEW reason, leaf' = leaf \cup {<<i, reason>>}
  PROVE  HasReason' = HasReason \cup {i}
<1> DEFINE l == <<i, reason>>
<1>1. l[1] = i
  OBVIOUS
<1>2. leaf' = leaf \cup {l}
  OBVIOUS
<1> HIDE DEF l
<1>3. {k[1] : k \in leaf \cup {l}} = {k[1] : k \in leaf} \cup {l[1]}
  OBVIOUS
<1> QED BY <1>1, <1>2, <1>3 DEF HasReason

\* Whoever applies batches of a parent that has been built.
LEMMA ApplyIsSound ==
  ASSUME mode' = mode, rows' = rows, world' = world, queue' = queue, queue # <<>>, mode # "auto",
         Parent \in expanded', ~ ByStates, pending' \subseteq Certifiable(rows[Parent].module),
         pc' # "layer" \/ ~ ByStates
  PROVE  CallIsApplied'
BY DEF CallIsApplied, ByStates, Certifiable, Compiler, Parent

\* Nobody applies batches otherwise.
LEMMA NotApplyIsSound ==
  ASSUME mode' = mode, mode # "auto", pc' # "apply", pc' # "layer" \/ ~ ByStates
  PROVE  CallIsApplied'
BY DEF CallIsApplied, ByStates

\* A parent is expanded or is a leaf.
LEMMA ExpandIsSound ==
  ASSUME SearchInvariant, pc = "parent", queue # <<>>, ~ ByStates,
         UNCHANGED <<world, mode, limits, rows, frontier, children, round>>,
         expanded' = expanded \cup {Parent},
         NEW batches \in SUBSET Certifiable(rows[Parent].module), ExpandBy(batches)
  PROVE  SearchInvariant'
<1>0. /\ Searching /\ Parent \in Rows /\ mode # "auto"
      /\ Certifiable(rows[Parent].module) \subseteq Batches
      /\ expanded \cup {Parent} \subseteq Rows
      /\ HasReason \subseteq Rows
  BY ParentFacts
<1>1a. pc = "parent"
  OBVIOUS
<1>1. CASE batches # {}
  <2>1. pc' = "apply" /\ UNCHANGED <<queue, leaf>> /\ pending' = batches /\ HasReason' = HasReason
    BY <1>1 DEF ExpandBy, HasReason
  <2>2. CallIsApplied'
    BY <1>0, <2>1, ApplyIsSound
  <2>3. Searching'
    BY <2>1 DEF Searching
  <2> QED BY <1>0, <2>1, <2>2, <2>3, RoundStepKeeps
<1>2. CASE batches = {}
  <2>1. /\ pc' = "parent" /\ pending' = {} /\ queue' = Tail(queue)
        /\ \/ leaf' = leaf \cup {<<Parent, "no_executable_batches">>}
           \/ leaf' = leaf \cup {<<Parent, "no_active_passes">>}
    BY <1>1a, <1>2 DEF ExpandBy, Leaf
  <2>2. CallIsApplied'
    BY <1>0, <2>1, NotApplyIsSound
  <2>3. Searching'
    BY <2>1 DEF Searching
  <2>4. HasReason' \subseteq Rows
    BY <1>0, <2>1, LeafIsAdded
  <2>5. pending' \subseteq Batches /\ (queue # <<>> /\ queue' = Tail(queue)) /\ expanded' \subseteq Rows
    BY <1>0, <2>1
  <2> QED BY <1>0, <2>2, <2>3, <2>4, <2>5, RoundStepKeeps
<1> QED BY <1>1, <1>2

\* A parent of the exact search.
LEMMA ExactParentKeeps ==
  ASSUME SearchInvariant, ExactParent
  PROVE  SearchInvariant'
<1>1. /\ pc = "parent" /\ queue # <<>> /\ ~ ByStates
      /\ UNCHANGED <<world, mode, limits, rows, frontier, children, round>>
      /\ expanded' = expanded \cup {Parent}
  BY DEF ExactParent, Build, runVars, Exact, ByStates
<1>2. PICK e \in ExactEvidence(rows[Parent].module) :
        IF e.gap /\ mode = "exact"
        THEN stop' = TRUE /\ Leaf("exact_incomplete") /\ pc' = "layer" /\ UNCHANGED <<queue, pending>>
        ELSE ExpandBy(e.certified)
  BY DEF ExactParent
<1>3. e.certified \subseteq Certifiable(rows[Parent].module)
  BY DEF ExactEvidence
<1>4. CASE e.gap /\ mode = "exact"
  <2>1. pc' = "layer" /\ UNCHANGED <<queue, pending>> /\ leaf' = leaf \cup {<<Parent, "exact_incomplete">>}
    BY <1>2, <1>4 DEF Leaf
  <2>2. CallIsApplied' /\ Searching'
    BY <1>1, <2>1, ParentFacts, NotApplyIsSound DEF Searching
  <2>a. HasReason' \subseteq Rows
    BY <1>1, <2>1, ParentFacts, LeafIsAdded
  <2>3. Searching /\ expanded' \subseteq Rows /\ pending' \subseteq Batches /\ HasReason' \subseteq Rows
    BY <1>1, <2>1, <2>a, ParentFacts
  <2> QED BY <1>1, <2>1, <2>2, <2>3, RoundStepKeeps
<1>5. CASE ~ (e.gap /\ mode = "exact")
  BY <1>1, <1>2, <1>3, <1>5, ExpandIsSound
<1> QED BY <1>4, <1>5

\* A parent of the budgeted search.
LEMMA BudgetedParentKeeps ==
  ASSUME SearchInvariant, BudgetedParent
  PROVE  SearchInvariant'
<1>1. /\ pc = "parent" /\ queue # <<>> /\ ~ ByStates
      /\ UNCHANGED <<world, mode, limits, rows, frontier, children, round>>
  BY DEF BudgetedParent, runVars, Budgeted, ByStates
<1>2. CASE StateCount >= MaxStates
  <2>1. pc' = "layer" /\ UNCHANGED <<expanded, queue, leaf, pending>> /\ HasReason' = HasReason
    BY <1>2 DEF BudgetedParent, HasReason
  <2>2. CallIsApplied' /\ Searching'
    BY <1>1, <2>1, ParentFacts, NotApplyIsSound DEF Searching
  <2> QED BY <1>1, <2>1, <2>2, ParentFacts, RoundStepKeeps
<1>3. CASE ~ (StateCount >= MaxStates)
  <2>1. PICK executable \in SUBSET Certifiable(rows[Parent].module) :
          \E batches \in Selections(executable) : ExpandBy(batches)
    BY <1>3 DEF BudgetedParent
  <2>2. PICK batches \in Selections(executable) : ExpandBy(batches)
    BY <2>1
  <2>3. batches \in SUBSET Certifiable(rows[Parent].module)
    BY <2>2 DEF Selections
  <2>4. expanded' = expanded \cup {Parent}
    BY <1>3 DEF BudgetedParent, Build
  <2> QED BY <1>1, <2>2, <2>3, <2>4, ExpandIsSound
<1> QED BY <1>2, <1>3

\* A parent of explore_batches.
LEMMA ExploreParentKeeps ==
  ASSUME SearchInvariant, ExploreParent
  PROVE  SearchInvariant'
<1>1. /\ pc = "parent" /\ queue # <<>> /\ ~ ByStates
      /\ UNCHANGED <<world, mode, limits, rows, frontier, children, round, queue, leaf>>
      /\ expanded' = expanded \cup {Parent} /\ pc' = "apply"
      /\ \E f \in Families(rows[Parent].module) : pending' = Chosen(f.candidates, f.certified) \cap f.certified
  BY DEF ExploreParent, Build, runVars, ByBatches, ByStates
<1>2. pending' \subseteq Certifiable(rows[Parent].module)
  BY <1>1 DEF Families
<1>3. Parent \in expanded' /\ Searching' /\ Searching /\ HasReason' = HasReason
  BY <1>1 DEF Searching, HasReason
<1>4. mode # "auto" /\ pending' \subseteq Batches /\ expanded' \subseteq Rows /\ HasReason' \subseteq Rows
  BY <1>1, <1>2, <1>3, ParentFacts
<1>5. CallIsApplied'
  BY <1>1, <1>2, <1>3, <1>4, ApplyIsSound
<1> QED BY <1>1, <1>3, <1>4, <1>5, RoundStepKeeps

\* A parent of explore_states.
LEMMA ExploreStateKeeps ==
  ASSUME SearchInvariant, ExploreState
  PROVE  SearchInvariant'
<1>1. /\ pc = "parent" /\ queue # <<>> /\ ByStates
      /\ UNCHANGED <<world, mode, limits, rows, frontier, children, round, leaf>>
  BY DEF ExploreState, runVars
<1>2. Searching /\ HasReason' = HasReason /\ mode # "auto" /\ HasReason' \subseteq Rows
  BY <1>1, ParentFacts DEF HasReason
<1>3. CASE rows[Parent].depth >= MaxRounds
  <2>1. queue' = Tail(queue) /\ UNCHANGED <<pending, lost, expanded, pc>>
    BY <1>3 DEF ExploreState
  <2>2. Searching' /\ CallIsApplied'
    BY <1>1, <1>2, <2>1, NotApplyIsSound DEF Searching
  <2>3. pending' \subseteq Batches /\ expanded' \subseteq Rows
    BY <1>1, <2>1, ParentFacts
  <2> QED BY <1>1, <1>2, <2>1, <2>2, <2>3, RoundStepKeeps
<1>4. CASE ~ (rows[Parent].depth >= MaxRounds)
  <2>1. /\ expanded' = expanded \cup {Parent} /\ pc' = "apply" /\ queue' = queue
        /\ pending' \subseteq Active(rows[Parent].module)
    BY <1>4 DEF ExploreState, PassFrontiers
  <2>2. Searching' /\ pending' \subseteq Batches /\ expanded' \subseteq Rows
    BY <1>1, <2>1, ParentFacts DEF Searching, Active
  <2>3. rows[Parent].depth < MaxRounds
    BY <1>1, <1>4, ParentFacts, RowsAreSound, LegacyAssumption
  <2>4. CallIsApplied'
    BY <1>1, <1>2, <2>1, <2>3 DEF CallIsApplied, ByStates, Active, Compiler, Parent
  <2> QED BY <1>1, <1>2, <2>1, <2>2, <2>4, RoundStepKeeps
<1> QED BY <1>3, <1>4

\* What holds when a batch is next.
LEMMA ApplyFacts ==
  ASSUME SearchInvariant, pc = "apply"
  PROVE  /\ Searching /\ queue # <<>> /\ Parent \in Rows /\ Parent \in expanded /\ mode # "auto"
         /\ pending \subseteq Batches /\ expanded \subseteq Rows /\ HasReason \subseteq Rows
<1>1. Searching
  BY DEF Searching
<1>2. queue # <<>> /\ Parent \in expanded /\ mode # "auto"
  BY <1>1 DEF SearchInvariant, CallIsApplied
<1> QED BY <1>1, <1>2 DEF SearchInvariant, CallIsTyped

\* opt fails.
LEMMA ApplyFailsKeeps ==
  ASSUME SearchInvariant, NEW b \in pending, ApplyFails(b)
  PROVE  SearchInvariant'
<1>1. /\ pc = "apply" /\ pc' = pc /\ pending' = pending \ {b}
      /\ UNCHANGED <<world, mode, limits, rows, frontier, children, round, leaf, queue, expanded>>
  BY DEF ApplyFails, IsNext, runVars
<1>2. Searching' /\ HasReason' = HasReason
  BY <1>1 DEF Searching, HasReason
<1>3. CallIsApplied'
  <2>1. Parent' = Parent /\ ByStates' = ByStates /\ Active(rows[Parent].module)' = Active(rows[Parent].module)
        /\ Certifiable(rows[Parent].module)' = Certifiable(rows[Parent].module)
    BY <1>1 DEF Parent, ByStates, Active, Certifiable, Compiler
  <2> QED BY <1>1, <1>2, <2>1, ApplyFacts DEF SearchInvariant, CallIsApplied, Searching
<1>4. Searching /\ pending' \subseteq Batches /\ expanded' \subseteq Rows /\ HasReason' \subseteq Rows
  BY <1>1, <1>2, ApplyFacts
<1> QED BY <1>1, <1>2, <1>3, <1>4, RoundStepKeeps

\* The exact search is capped.
LEMMA ExactCapKeeps ==
  ASSUME SearchInvariant, NEW b \in pending, ExactCap(b)
  PROVE  SearchInvariant'
<1>1. /\ pc = "apply" /\ pc' = "parent" /\ pending' = {} /\ queue' = Tail(queue)
      /\ leaf' = leaf \cup {<<Parent, "state_cap_reached">>}
      /\ UNCHANGED <<world, mode, limits, rows, frontier, children, round, expanded>>
  BY DEF ExactCap, IsNext, runVars, Leaf
<1>2. Searching' /\ HasReason' = HasReason \cup {Parent}
  BY <1>1, LeafIsAdded DEF Searching
<1>3. /\ Searching /\ queue # <<>> /\ pending' \subseteq Batches /\ expanded' \subseteq Rows
      /\ HasReason' \subseteq Rows /\ mode # "auto"
  BY <1>1, <1>2, ApplyFacts
<1>4. CallIsApplied'
  BY <1>1, <1>3, NotApplyIsSound
<1> QED BY <1>1, <1>2, <1>3, <1>4, RoundStepKeeps

\* The budgeted search is capped.
LEMMA BudgetedCapKeeps ==
  ASSUME SearchInvariant, NEW b \in pending, BudgetedCap(b)
  PROVE  SearchInvariant'
<1>1. /\ pc = "apply" /\ pc' = "layer" /\ pending' = {} /\ queue' = queue
      /\ leaf' = leaf \cup {<<Parent, "state_cap_reached">>} /\ ~ ByStates
      /\ UNCHANGED <<world, mode, limits, rows, frontier, children, round, expanded>>
  BY DEF BudgetedCap, IsNext, runVars, Leaf, Budgeted, ByStates
<1>2. Searching' /\ HasReason' = HasReason \cup {Parent}
  BY <1>1, LeafIsAdded DEF Searching
<1>3. /\ Searching /\ queue # <<>> /\ pending' \subseteq Batches /\ expanded' \subseteq Rows
      /\ HasReason' \subseteq Rows /\ mode # "auto"
  BY <1>1, <1>2, ApplyFacts
<1>4. CallIsApplied'
  BY <1>1, <1>3, NotApplyIsSound
<1> QED BY <1>1, <1>2, <1>3, <1>4, RoundStepKeeps

\* A parent is done.
LEMMA ParentDoneKeeps ==
  ASSUME SearchInvariant, ParentDone
  PROVE  SearchInvariant'
<1>1. /\ pc = "apply" /\ pc' = "parent" /\ pending' = pending /\ queue' = Tail(queue)
      /\ UNCHANGED <<world, mode, limits, rows, frontier, children, round, expanded, leaf>>
  BY DEF ParentDone, runVars
<1>2. Searching' /\ HasReason' = HasReason
  BY <1>1 DEF Searching, HasReason
<1>3. /\ Searching /\ queue # <<>> /\ pending' \subseteq Batches /\ expanded' \subseteq Rows
      /\ HasReason' \subseteq Rows /\ mode # "auto"
  BY <1>1, <1>2, ApplyFacts
<1>4. CallIsApplied'
  BY <1>1, <1>3, NotApplyIsSound
<1> QED BY <1>1, <1>2, <1>3, <1>4, RoundStepKeeps

\* A layer is done.
LEMMA LayerDoneKeeps ==
  ASSUME SearchInvariant, LayerDone
  PROVE  SearchInvariant'
<1>1. /\ pc = "parent" /\ pc' = "layer" /\ ~ ByStates
      /\ UNCHANGED <<world, mode, limits, rows, frontier, children, round, expanded, leaf, queue, pending>>
  BY DEF LayerDone, runVars, searchVars, ByStates
<1>2. Searching /\ Searching' /\ HasReason' = HasReason
  BY <1>1 DEF Searching, HasReason
<1>3. /\ pending' \subseteq Batches /\ expanded' \subseteq Rows
      /\ HasReason' \subseteq Rows /\ mode # "auto"
  BY <1>1, <1>2 DEF SearchInvariant, CallIsTyped, CallIsApplied
<1>4. CallIsApplied'
  BY <1>1, <1>3, NotApplyIsSound
<1> QED BY <1>1, <1>2, <1>3, <1>4, RoundStepKeeps

\* A step between rounds that leaves the search as it is.
LEMMA RestKeeps ==
  ASSUME SearchInvariant, ~ Searching', ~ Searching \/ ByStates,
         UNCHANGED <<world, mode, limits, rows, frontier, children, round, queue, pending, expanded>>,
         HasReason' \subseteq Rows
  PROVE  SearchInvariant'
<1>1. Rows' = Rows /\ ByStates' = ByStates /\ pc' # "apply" /\ pc' # "layer"
  BY DEF Rows, ByStates, Searching
<1>2. RowsInvariant'
  BY RowsStay DEF SearchInvariant
<1>3. LayersAreOrdered'
  BY <1>1 DEF SearchInvariant, LayersAreOrdered, Deepest, At
<1>4. CallIsTyped'
  BY <1>1 DEF SearchInvariant, CallIsTyped
<1>5. CallIsApplied'
  BY <1>1 DEF SearchInvariant, CallIsApplied
<1> QED BY <1>2, <1>3, <1>4, <1>5, CapStays DEF SearchInvariant

-----------------------------------------------------------------------------
(* The end of a round and of a search.                                     *)

\* The length and the entries of a sequence.
LEMMA SequenceIsListed ==
  ASSUME NEW S, NEW q \in Seq(S)
  PROVE  /\ Len(q) \in Nat /\ DOMAIN q = 1 .. Len(q) /\ Range(q) = {q[i] : i \in DOMAIN q}
         /\ Range(q) \subseteq S
BY DEF Range

\* A queue that grows keeps its head.
LEMMA AppendKeepsHead ==
  ASSUME NEW q \in Seq(Nat), q # <<>>, NEW n \in Nat
  PROVE  Append(q, n) # <<>> /\ Head(Append(q, n)) = Head(q)
<1>1. Len(q) \in Nat \ {0} /\ Len(Append(q, n)) = Len(q) + 1 /\ Append(q, n)[1] = q[1]
  OBVIOUS
<1>2. Append(q, n) # <<>>
  BY <1>1
<1>3. Head(Append(q, n)) = Append(q, n)[1] /\ Head(q) = q[1]
  BY <1>1, <1>2
<1> QED BY <1>1, <1>2, <1>3

\* Whatever is kept of the children comes from them, and is no longer.
LEMMA BeamIsOfChildren ==
  ASSUME children \in Seq(Nat), limits \in Limits \cup {NoLimits}, NEW f \in Beam
  PROVE  f \in Seq(Nat) /\ Range(f) \subseteq Range(children) /\ Len(f) <= Len(children)
<1>1. limits.frontier \in Nat
  BY LegacyAssumption DEF NoLimits
<1>2. Len(children) \in Nat /\ DOMAIN children = 1 .. Len(children)
  OBVIOUS
<1> DEFINE n == IF Len(children) < limits.frontier THEN Len(children) ELSE limits.frontier
<1>3. n \in 0 .. Len(children)
  BY <1>1, <1>2
<1>4. FirstChildren = SubSeq(children, 1, n)
  BY DEF FirstChildren
<1> HIDE DEF n
<1>5. /\ FirstChildren \in Seq(Nat) /\ Len(FirstChildren) = n /\ DOMAIN FirstChildren = 1 .. n
      /\ \A k \in 1 .. n : FirstChildren[k] = children[k]
  BY <1>2, <1>3, <1>4
<1>6. Range(FirstChildren) \subseteq Range(children)
  BY <1>2, <1>3, <1>5 DEF Range
<1>7. CASE Budgeted
  <2>a. ~ Exact
    BY <1>7 DEF Exact, Budgeted
  <2> HIDE DEF Budgeted, Exact
  <2>0. Beam = Rankings(Len(FirstChildren))
    BY <1>7, <2>a, Zenon DEF Beam
  <2>1. f \in Rankings(n)
    BY <1>5, <2>0
  <2>2. f \in [1 .. n -> Range(children)]
    BY <2>1 DEF Rankings, Range
  <2>3. Range(children) \subseteq Nat
    BY SequenceIsListed
  <2>4. f \in [1 .. n -> Nat] /\ Range(f) \subseteq Range(children)
    BY <2>2, <2>3 DEF Range
  <2>5. f \in Seq(Nat) /\ Len(f) = n
    BY <1>2, <1>3, <2>4
  <2> QED BY <1>2, <1>3, <2>4, <2>5
<1>8. CASE Exact
  <2>1. ~ Budgeted
    BY <1>8 DEF Exact, Budgeted
  <2>2. f = children
    BY <1>8, <2>1 DEF Beam
  <2> QED BY <1>2, <2>2
<1>9. CASE ~ Budgeted /\ ~ Exact
  <2>1. f = FirstChildren
    BY <1>9 DEF Beam
  <2> QED BY <1>2, <1>3, <1>5, <1>6, <2>1
<1> QED BY <1>7, <1>8, <1>9

\* A round ends.
LEMMA EndRoundKeeps ==
  ASSUME SearchInvariant, EndRound
  PROVE  SearchInvariant'
<1>1. /\ pc = "layer" /\ pc' = "round" /\ frontier' \in Beam /\ round' = round + 1 /\ queue' = <<>>
      /\ UNCHANGED <<world, mode, limits, rows, children, expanded, leaf, pending>>
  BY DEF EndRound, runVars, searchVars
<1>2. /\ Searching /\ ~ Searching' /\ HasReason' = HasReason /\ Rows' = Rows /\ ByStates' = ByStates
      /\ ~ ByStates /\ mode # "auto"
  BY <1>1 DEF Searching, HasReason, Rows, ByStates, SearchInvariant, CallIsApplied
<1>3. frontier' \in Seq(Nat) /\ Range(frontier') \subseteq Range(children) /\ Len(frontier') <= Len(children)
  BY <1>1, BeamIsOfChildren DEF SearchInvariant, CallIsTyped
<1>4. round \in Nat /\ round < MaxRounds /\ MaxRounds \in Nat
  BY <1>2, LegacyAssumption DEF SearchInvariant, CallIsTyped
<1>5. RowsInvariant'
  BY <1>1, RowsStay DEF SearchInvariant
<1>6. \A i \in Range(children) : i \in Rows /\ rows[i].depth = round + 1
  BY <1>2 DEF SearchInvariant, LayersAreOrdered, At
<1>7. LayersAreOrdered'
  <2>1. Len(children) < Len(rows) /\ Len(rows) \in Nat /\ Len(children) \in Nat /\ Len(frontier') \in Nat
    BY <1>3, RowsAreSound DEF SearchInvariant, LayersAreOrdered, CallIsTyped
  <2>2. \A i \in Rows : rows[i].depth <= round + 1
    BY <1>2 DEF SearchInvariant, LayersAreOrdered, Deepest
  <2>3. Len(frontier') <= Len(rows)
    BY <1>3, <2>1
  <2>4. \A i \in Range(frontier') : At(i, round)'
    BY <1>1, <1>2, <1>3, <1>6 DEF At
  <2> QED BY <1>1, <1>2, <1>3, <1>6, <2>1, <2>2, <2>3, <2>4 DEF LayersAreOrdered, Deepest
<1>8. CallIsTyped'
  <2>1. <<>> \in Seq(Nat)
    OBVIOUS
  <2> QED BY <1>1, <1>2, <1>3, <1>4, <2>1 DEF SearchInvariant, CallIsTyped
<1>9. CallIsApplied'
  BY <1>1, <1>2 DEF CallIsApplied
<1> QED BY <1>1, <1>5, <1>7, <1>8, <1>9, CapStays DEF SearchInvariant

\* A search ends.
LEMMA FinishKeeps ==
  ASSUME SearchInvariant, Finish
  PROVE  SearchInvariant'
<1>1. /\ pc = "finish" /\ pc' = "done" /\ leaf' = leaf \cup LastLeaves
      /\ UNCHANGED <<world, mode, limits, rows, frontier, children, round, queue, pending, expanded>>
  BY DEF Finish, runVars, searchVars
<1>2. ~ Searching /\ ~ Searching'
  BY <1>1 DEF Searching
<1>3. \A l \in LastLeaves : l[1] \in Rows
  <2>1. CASE Budgeted
    BY <2>1 DEF LastLeaves
  <2>2. CASE ~ Budgeted
    <3>1. \A k \in DOMAIN frontier : frontier[k] \in Rows
      BY DEF SearchInvariant, LayersAreOrdered, Range
    <3> QED BY <2>2, <3>1 DEF LastLeaves
  <2> QED BY <2>1, <2>2
<1>4. HasReason' \subseteq Rows
  <2>1. \A l \in leaf : l[1] \in Rows
    BY DEF SearchInvariant, CallIsTyped, HasReason
  <2> QED BY <1>1, <1>3, <2>1 DEF HasReason
<1> QED BY <1>1, <1>2, <1>4, RestKeeps

-----------------------------------------------------------------------------
(* Rows that are added.                                                    *)

\* Whoever adds a row of the next layer.
LEMMA AddKeeps ==
  ASSUME SearchInvariant, pc = "apply", pc' = "apply", NEW b \in pending, pending' = pending \ {b},
         UNCHANGED <<world, mode, limits, frontier, round, expanded, leaf>>,
         RowsInvariant',
         NEW r \in StateRow, rows' = Append(rows, r), r.depth = rows[Parent].depth + 1,
         children' = children
           \/ (~ ByStates /\ children' = Append(children, Len(rows) + 1)),
         queue' = queue \/ (ByStates /\ queue' = Append(queue, Len(rows) + 1)),
         Budgeted \/ Exact => r.copyOf # 0 \/ StateCount < MaxStates
  PROVE  SearchInvariant'
<1> DEFINE n == Len(rows) + 1
<1>1. /\ Len(rows) \in Nat \ {0} /\ n \in Nat /\ Len(rows') = n
      /\ n \in Rows' /\ rows'[n] = r
      /\ \A i \in Rows : i \in Rows' /\ rows'[i] = rows[i]
      /\ \A i \in Rows' : i \in Rows \/ i = n
  BY RowIsAppended DEF SearchInvariant, RowsInvariant
<1>2. /\ Searching /\ Searching' /\ ByStates' = ByStates /\ queue # <<>> /\ Parent \in Rows /\ Parent \in expanded
      /\ mode # "auto" /\ pending \subseteq Batches /\ HasReason' = HasReason /\ Compiler' = Compiler
      /\ expanded \subseteq Rows /\ HasReason \subseteq Rows
  BY ApplyFacts DEF Searching, ByStates, HasReason, Compiler
<1>3. /\ children \in Seq(Nat) /\ queue \in Seq(Nat) /\ frontier \in Seq(Nat)
      /\ Len(children) \in Nat /\ Len(frontier) \in Nat
      /\ Len(children) < Len(rows) /\ Len(frontier) <= Len(rows)
  BY DEF SearchInvariant, CallIsTyped, LayersAreOrdered
<1>4. ~ ByStates => r.depth = round + 1
  BY ChildIsTyped
<1> HIDE DEF n
<1>5. /\ children' \in Seq(Nat) /\ Len(children') < Len(rows')
      /\ Range(children') \subseteq Range(children) \cup (IF ByStates THEN {} ELSE {n})
  <2>1. CASE children' = children
    BY <1>1, <1>3, <2>1 DEF n
  <2>2. CASE ~ ByStates /\ children' = Append(children, Len(rows) + 1)
    <3>1. /\ Append(children, n) \in Seq(Nat) /\ Len(Append(children, n)) = Len(children) + 1
          /\ Range(Append(children, n)) = Range(children) \cup {n}
      BY <1>1, <1>3, AppendIsListed
    <3> QED BY <1>1, <1>3, <2>2, <3>1 DEF n
  <2> QED BY <2>1, <2>2
<1>6. /\ queue' \in Seq(Nat) /\ queue' # <<>> /\ Head(queue') = Head(queue)
      /\ Range(queue') \subseteq Range(queue) \cup (IF ByStates THEN {n} ELSE {})
  <2>1. CASE queue' = queue
    BY <1>2, <1>3, <2>1
  <2>2. CASE ByStates /\ queue' = Append(queue, Len(rows) + 1)
    <3>1. Append(queue, n) \in Seq(Nat) /\ Range(Append(queue, n)) = Range(queue) \cup {n}
      BY <1>1, <1>3, AppendIsListed
    <3>2. Append(queue, n) # <<>> /\ Head(Append(queue, n)) = Head(queue)
      BY <1>1, <1>2, <1>3, AppendKeepsHead
    <3> QED BY <2>2, <3>1, <3>2 DEF n
  <2> QED BY <2>1, <2>2
<1>7. \A i, d : At(i, d) => (ByStates \/ rows'[i].depth = d) /\ i \in Rows'
  BY <1>1 DEF At
<1>8. LayersAreOrdered'
  <2>1. Deepest = round + 1 /\ Deepest' = round + 1
    BY <1>2 DEF Deepest
  <2>2. \A i \in Rows' : ByStates \/ rows'[i].depth <= round + 1
    <3>1. round + 1 <= round + 1
      BY DEF SearchInvariant, CallIsTyped
    <3>2. \A i \in Rows : ByStates \/ rows[i].depth <= round + 1
      BY <2>1 DEF SearchInvariant, LayersAreOrdered
    <3> QED BY <1>1, <1>4, <3>1, <3>2
  <2>3. Len(frontier') <= Len(rows')
    BY <1>1, <1>3 DEF n
  <2>4. Range(frontier') \subseteq Rows'
    BY <1>1 DEF SearchInvariant, LayersAreOrdered
  <2>5. \A i \in Range(children') : i \in Rows' /\ (ByStates \/ rows'[i].depth = round + 1)
    BY <1>1, <1>2, <1>4, <1>5, <1>7 DEF SearchInvariant, LayersAreOrdered
  <2>6. \A i \in Range(queue') : i \in Rows' /\ (ByStates \/ rows'[i].depth = round)
    BY <1>1, <1>2, <1>6, <1>7 DEF SearchInvariant, LayersAreOrdered
  <2> QED BY <1>2, <1>5, <2>1, <2>2, <2>3, <2>4, <2>5, <2>6 DEF LayersAreOrdered, At
<1>9. CallIsTyped'
  BY <1>1, <1>2, <1>5, <1>6 DEF SearchInvariant, CallIsTyped
<1>10. CallIsApplied'
  <2>1. Parent' = Parent /\ rows'[Parent] = rows[Parent]
    BY <1>1, <1>2, <1>6 DEF Parent
  <2>2. Active(rows[Parent].module)' = Active(rows[Parent].module)
        /\ Certifiable(rows[Parent].module)' = Certifiable(rows[Parent].module)
    BY <1>2, <2>1 DEF Active, Certifiable
  <2> QED BY <1>2, <1>6, <2>1, <2>2 DEF SearchInvariant, CallIsApplied, Searching
<1>11. CapIsKept'
  <2>1. /\ StateCount \in Nat
        /\ StateCount' = IF r.copyOf = 0 THEN StateCount + 1 ELSE StateCount
    BY CountGrows
  <2>2. MaxStates \in Nat /\ Budgeted' = Budgeted /\ Exact' = Exact
    BY LegacyAssumption DEF Budgeted, Exact
  <2> QED BY <2>1, <2>2 DEF SearchInvariant, CapIsKept
<1> QED BY <1>8, <1>9, <1>10, <1>11 DEF SearchInvariant

\* A state is new.
LEMMA NewStateKeeps ==
  ASSUME SearchInvariant, NEW b \in pending, NewState(b)
  PROVE  SearchInvariant'
<1>1. /\ pc = "apply" /\ pc' = "apply" /\ pending' = pending \ {b} /\ ~ ByStates
      /\ UNCHANGED <<world, mode, limits, frontier, round, expanded, leaf, queue>>
      /\ rows' = Append(rows, Row(b, 0, round + 1))
      /\ children' = Append(children, Len(rows) + 1)
      /\ StateCount < MaxStates
  BY DEF NewState, IsNext, runVars, Budgeted, Exact, ByStates
<1>2. round + 1 = rows[Parent].depth + 1 /\ 0 \in 0 .. Len(rows)
  BY <1>1, ChildIsTyped, RowsAreSound
<1>3. Row(b, 0, round + 1) \in StateRow /\ Row(b, 0, round + 1).depth = rows[Parent].depth + 1
  BY <1>1, <1>2, RowFits DEF Fits
<1> QED BY <1>1, <1>3, NewStateKeepsRows, AddKeeps

\* A known state has a copy.
LEMMA CopyKeeps ==
  ASSUME SearchInvariant, pc = "apply", pc' = "apply", NEW b \in pending, pending' = pending \ {b},
         UNCHANGED <<world, mode, limits, frontier, round, expanded, leaf, queue, children>>,
         NEW i \in Known(Child(b)), NEW d, d = rows[Parent].depth + 1,
         rows' = Append(rows, Row(b, i, d))
  PROVE  SearchInvariant'
<1>1. i \in 0 .. Len(rows) /\ i # 0
  BY KnownRow, RowsAreSound
<1>2. Row(b, i, d) \in StateRow /\ Row(b, i, d).copyOf # 0 /\ Row(b, i, d).depth = rows[Parent].depth + 1
  BY <1>1, RowFits DEF Fits
<1>3. RowsInvariant'
  BY CopyKeepsRows
<1> QED BY <1>2, <1>3, AddKeeps

\* The budgeted search makes one.
LEMMA BudgetedDuplicateKeeps ==
  ASSUME SearchInvariant, NEW b \in pending, BudgetedDuplicate(b)
  PROVE  SearchInvariant'
<1>1. /\ pc = "apply" /\ pc' = "apply" /\ pending' = pending \ {b} /\ ~ ByStates
      /\ UNCHANGED <<world, mode, limits, frontier, round, expanded, leaf, queue, children>>
  BY DEF BudgetedDuplicate, IsNext, runVars, Budgeted, ByStates
<1>2. round + 1 = rows[Parent].depth + 1
  BY <1>1, ChildIsTyped
<1>3. PICK i \in Known(Child(b)) : rows' = Append(rows, Row(b, i, round + 1))
  BY DEF BudgetedDuplicate
<1> QED BY <1>1, <1>2, <1>3, CopyKeeps

\* A batch of explore_batches is applied.
LEMMA ExploreBatchKeeps ==
  ASSUME SearchInvariant, NEW b \in pending, ExploreBatch(b)
  PROVE  SearchInvariant'
<1>1. /\ pc = "apply" /\ pc' = "apply" /\ pending' = pending \ {b} /\ ~ ByStates /\ ~ Budgeted /\ ~ Exact
      /\ UNCHANGED <<world, mode, limits, frontier, round, expanded, leaf, queue>>
  BY DEF ExploreBatch, IsNext, runVars, ByBatches, ByStates, Budgeted, Exact
<1>2. round + 1 = rows[Parent].depth + 1 /\ 0 \in 0 .. Len(rows)
  BY <1>1, ChildIsTyped, RowsAreSound
<1>3. CASE Known(Child(b)) = {}
  <2> DEFINE r == Row(b, 0, round + 1)
  <2>1. rows' = Append(rows, r) /\ children' = Append(children, Len(rows'))
    BY <1>3 DEF ExploreBatch
  <2>2. r \in StateRow /\ r.depth = rows[Parent].depth + 1
    BY <1>1, <1>2, RowFits DEF Fits
  <2>3. Len(rows') = Len(rows) + 1
    BY <2>1, <2>2, RowIsAppended DEF SearchInvariant, RowsInvariant
  <2> HIDE DEF r
  <2>4. children' = Append(children, Len(rows) + 1)
    BY <2>1, <2>3
  <2> QED BY <1>1, <2>1, <2>2, <2>4, ExploreBatchKeepsRows, AddKeeps
<1>4. CASE Known(Child(b)) # {}
  <2>1. UNCHANGED children
    BY <1>4 DEF ExploreBatch
  <2>2. PICK i \in Known(Child(b)) : rows' = Append(rows, Row(b, i, round + 1))
    BY <1>4 DEF ExploreBatch
  <2> QED BY <1>1, <1>2, <2>1, <2>2, CopyKeeps
<1> QED BY <1>3, <1>4

\* A pass of explore_states is applied.
LEMMA ExplorePassKeeps ==
  ASSUME SearchInvariant, NEW b \in pending, ExplorePass(b)
  PROVE  SearchInvariant'
<1> DEFINE d == rows[Parent].depth + 1
<1>1. /\ pc = "apply" /\ pc' = "apply" /\ pending' = pending \ {b} /\ ByStates /\ ~ Budgeted /\ ~ Exact
      /\ UNCHANGED <<world, mode, limits, frontier, round, expanded, leaf, children>>
  BY DEF ExplorePass, IsNext, runVars, ByStates, Budgeted, Exact
<1>2. 0 \in 0 .. Len(rows)
  BY RowsAreSound
<1>3. CASE Known(Child(b)) = {}
  <2> DEFINE r == Row(b, 0, d)
  <2>1. rows' = Append(rows, r) /\ queue' = Append(queue, Len(rows'))
    BY <1>3 DEF ExplorePass
  <2>2. r \in StateRow /\ r.depth = rows[Parent].depth + 1
    BY <1>1, <1>2, RowFits DEF Fits
  <2>3. Len(rows') = Len(rows) + 1
    BY <2>1, <2>2, RowIsAppended DEF SearchInvariant, RowsInvariant
  <2> HIDE DEF r
  <2>4. queue' = Append(queue, Len(rows) + 1)
    BY <2>1, <2>3
  <2> QED BY <1>1, <2>1, <2>2, <2>4, ExplorePassKeepsRows, AddKeeps
<1>4. CASE Known(Child(b)) # {}
  <2>1. UNCHANGED queue
    BY <1>4 DEF ExplorePass
  <2>2. PICK i \in Known(Child(b)) : rows' = Append(rows, Row(b, i, d))
    BY <1>4 DEF ExplorePass
  <2> HIDE DEF d
  <2>3. d = rows[Parent].depth + 1
    BY DEF d
  <2> QED BY <1>1, <2>1, <2>2, <2>3, CopyKeeps
<1> QED BY <1>3, <1>4

\* A rerouted row leaves everything but its path as it was.
LEMMA DuplicateLeavesRows ==
  ASSUME SearchInvariant, NEW b \in pending, ExactDuplicate(b)
  PROVE  /\ Rows' = Rows /\ Len(rows') = Len(rows)
         /\ \A j \in Rows : /\ rows'[j].module = rows[j].module /\ rows'[j].copyOf = rows[j].copyOf
                            /\ rows'[j].depth = rows[j].depth /\ rows'[j].first = rows[j].first
<1>1. pc = "apply"
  BY DEF ExactDuplicate, IsNext
<1>2. CASE rows' = rows
  BY <1>2 DEF Rows
<1>3. ASSUME NEW i \in Known(Child(b)) \ {1},
             rows' = Rerouted(rows, i, ExtendPath(rows[Parent].path, b), Parent, b)
      PROVE  /\ Rows' = Rows /\ Len(rows') = Len(rows)
             /\ \A j \in Rows : /\ rows'[j].module = rows[j].module /\ rows'[j].copyOf = rows[j].copyOf
                                /\ rows'[j].depth = rows[j].depth /\ rows'[j].first = rows[j].first
  <2>1. i \in Rows
    BY KnownRow
  <2>2. Parent \in Rows /\ b \in Batches
    BY <1>1, ChildIsTyped
  <2>3. ExtendPath(rows[Parent].path, b) \in PathInfo
    BY <2>2, RowsAreSound, PathIsExtended
  <2>4. RowsAreRecorded
    BY DEF SearchInvariant, RowsInvariant
  <2> QED BY <1>3, <2>1, <2>2, <2>3, <2>4, RowIsRerouted
<1> QED BY <1>2, <1>3, ExactDuplicateIsReroute

\* The exact search finds a state again.
LEMMA ExactDuplicateKeeps ==
  ASSUME SearchInvariant, NEW b \in pending, ExactDuplicate(b)
  PROVE  SearchInvariant'
<1>1. /\ pc = "apply" /\ pc' = "apply" /\ pending' = pending \ {b} /\ ~ ByStates /\ ~ ByStates'
      /\ UNCHANGED <<world, mode, limits, frontier, round, expanded, leaf, queue, children>>
  BY DEF ExactDuplicate, IsNext, runVars, Exact, ByStates
<1>2. /\ Rows' = Rows /\ Len(rows') = Len(rows)
      /\ \A j \in Rows : /\ rows'[j].module = rows[j].module /\ rows'[j].copyOf = rows[j].copyOf
                         /\ rows'[j].depth = rows[j].depth
  BY DuplicateLeavesRows
<1>3. RowsInvariant'
  BY ExactDuplicateKeepsRows
<1>4. /\ Searching /\ Searching' /\ HasReason' = HasReason /\ queue # <<>> /\ Parent \in Rows /\ Parent \in expanded
      /\ mode # "auto" /\ Compiler' = Compiler /\ Deepest' = Deepest
  BY <1>1, ApplyFacts DEF Searching, HasReason, Compiler, Deepest
<1>5. LayersAreOrdered'
  BY <1>1, <1>2, <1>4 DEF SearchInvariant, LayersAreOrdered, At
<1>6. CallIsTyped'
  BY <1>1, <1>2, <1>4 DEF SearchInvariant, CallIsTyped
<1>7. CallIsApplied'
  <2>1. Parent' = Parent /\ rows'[Parent].module = rows[Parent].module
    BY <1>1, <1>2, <1>4 DEF Parent
  <2>2. Certifiable(rows[Parent].module)' = Certifiable(rows[Parent].module)
    BY <1>4, <2>1 DEF Certifiable
  <2> QED BY <1>1, <1>4, <2>1, <2>2 DEF SearchInvariant, CallIsApplied, Searching
<1>8. CapIsKept'
  <2>1. StateCount' = StateCount
    BY <1>2, CountStays
  <2> QED BY <1>1, <2>1 DEF SearchInvariant, CapIsKept, Budgeted, Exact
<1> QED BY <1>3, <1>5, <1>6, <1>7, <1>8 DEF SearchInvariant

-----------------------------------------------------------------------------

\* A comparison leaves the search as it is.
LEMMA BaselinesRest ==
  ASSUME BaselinesNext
  PROVE  /\ UNCHANGED <<world, asked, mode, limits, rows, frontier, children, round, queue, pending, expanded, leaf,
                        lost, reasons, stop, selected>>
         /\ pc \in {"round", "fixed", "greedy", "random", "write"}
         /\ pc' \in {"fixed", "greedy", "random", "write", "compared", "aborted"}
<1> USE DEF SameSearch, runVars, searchVars
<1>1. CASE StartComparison
  BY <1>1 DEF StartComparison
<1>2. CASE FixedRows
  BY <1>2 DEF FixedRows
<1>3. CASE GreedyRound
  BY <1>3 DEF GreedyRound
<1>4. CASE RandomRound
  BY <1>4 DEF RandomRound
<1>5. CASE WalkFails
  BY <1>5 DEF WalkFails
<1>6. CASE GreedyDone
  BY <1>6 DEF GreedyDone
<1>7. CASE TrialDone
  BY <1>7 DEF TrialDone
<1>8. CASE RandomDone
  BY <1>8 DEF RandomDone
<1>9. CASE Abort
  BY <1>9 DEF Abort
<1>10. CASE WriteComparison
  BY <1>10 DEF WriteComparison
<1> QED BY <1>1, <1>2, <1>3, <1>4, <1>5, <1>6, <1>7, <1>8, <1>9, <1>10 DEF BaselinesNext

-----------------------------------------------------------------------------
(* Every step of a search.                                                 *)

\* Every step of the exact and budgeted searches keeps the invariant.
LEMMA LegacyStepKeeps ==
  ASSUME SearchInvariant, Next
  PROVE  SearchInvariant'
<1>1. CASE ChooseAutoMode
  BY <1>1, ChooseAutoModeKeeps
<1>2. CASE StartRound
  BY <1>2, StartRoundKeeps
<1>3. CASE ExactParent
  BY <1>3, ExactParentKeeps
<1>4. CASE BudgetedParent
  BY <1>4, BudgetedParentKeeps
<1>5. ASSUME NEW b \in pending, ApplyBatch(b) PROVE SearchInvariant'
  BY <1>5, ApplyFailsKeeps, NewStateKeeps, ExactCapKeeps, ExactDuplicateKeeps, BudgetedCapKeeps,
     BudgetedDuplicateKeeps DEF ApplyBatch
<1>6. CASE ParentDone
  BY <1>6, ParentDoneKeeps
<1>7. CASE LayerDone
  BY <1>7, LayerDoneKeeps
<1>8. CASE EndRound
  BY <1>8, EndRoundKeeps
<1>9. CASE Finish
  BY <1>9, FinishKeeps
<1> QED BY <1>1, <1>2, <1>3, <1>4, <1>5, <1>6, <1>7, <1>8, <1>9 DEF Next

\* Every step of the explorers does.
LEMMA ExplorerStepKeeps ==
  ASSUME SearchInvariant, ExplorerNext
  PROVE  SearchInvariant'
<1>0. HasReason \subseteq Rows
  BY DEF SearchInvariant, CallIsTyped
<1>1. CASE ExploreParent
  BY <1>1, ExploreParentKeeps
<1>2. CASE ExploreState
  BY <1>2, ExploreStateKeeps
<1>3. CASE QueueEmpty
  <2>1. /\ ~ Searching' /\ ByStates /\ HasReason' = HasReason
        /\ UNCHANGED <<world, mode, limits, rows, frontier, children, round, queue, pending, expanded>>
    BY <1>3 DEF QueueEmpty, Searching, runVars, searchVars, HasReason
  <2> QED BY <1>0, <2>1, RestKeeps
<1>4. CASE WriteExploration
  <2>1. /\ ~ Searching' /\ ~ Searching /\ HasReason' = HasReason
        /\ UNCHANGED <<world, mode, limits, rows, frontier, children, round, queue, pending, expanded>>
    BY <1>4 DEF WriteExploration, Searching, runVars, searchVars, HasReason
  <2> QED BY <1>0, <2>1, RestKeeps
<1>5. ASSUME NEW b \in pending, ExploreBatch(b) \/ ExplorePass(b) PROVE SearchInvariant'
  BY <1>5, ExploreBatchKeeps, ExplorePassKeeps
<1> QED BY <1>1, <1>2, <1>3, <1>4, <1>5 DEF ExplorerNext

\* The root, the world and the results of earlier stages are nothing a search changes.
LEMMA AppendKeepsRoot ==
  ASSUME SearchInvariant, NEW r \in StateRow, rows' = Append(rows, r)
  PROVE  rows'[1] = rows[1]
BY RowIsAppended DEF SearchInvariant, RowsInvariant

\* The row of a child leaves the root.
LEMMA AppliedRow ==
  ASSUME SearchInvariant, pc = "apply", NEW b \in pending, NEW copy \in {0} \cup Known(Child(b)),
         NEW d, d = rows[Parent].depth + 1, rows' = Append(rows, Row(b, copy, d))
  PROVE  rows'[1].module = rows[1].module
<1>1. copy \in 0 .. Len(rows)
  BY KnownRow, RowsAreSound
<1>2. Row(b, copy, d) \in StateRow
  BY <1>1, RowFits DEF Fits
<1> QED BY <1>2, AppendKeepsRoot

\* A step of these searches leaves the root, and ends only with Finish.
LEMMA LegacyStepKeepsRoot ==
  ASSUME SearchInvariant, Next
  PROVE  /\ world' = world /\ rows'[1].module = rows[1].module
         /\ pc \notin {"done", "verified", "handed", "staged", "raised", "explored",
                       "fixed", "greedy", "random", "write", "compared", "aborted"}
         /\ pc' \in {"round", "parent", "apply", "layer", "finish"} \/ Finish
<1> USE DEF runVars, searchVars
<1>1. CASE ChooseAutoMode
  BY <1>1 DEF ChooseAutoMode
<1>2. CASE StartRound
  BY <1>2 DEF StartRound
<1>3. CASE ExactParent
  BY <1>3 DEF ExactParent, Build, ExpandBy
<1>4. CASE BudgetedParent
  BY <1>4 DEF BudgetedParent, Build, ExpandBy
<1>5. ASSUME NEW b \in pending, ApplyBatch(b)
      PROVE  /\ world' = world /\ rows'[1].module = rows[1].module
             /\ pc = "apply" /\ pc' \in {"round", "parent", "apply", "layer", "finish"}
  <2>1. CASE ApplyFails(b)
    BY <2>1 DEF ApplyFails, IsNext
  <2>2. CASE NewState(b)
    <3>1. /\ pc = "apply" /\ rows' = Append(rows, Row(b, 0, round + 1)) /\ ~ ByStates
          /\ world' = world /\ pc' = pc
      BY <2>2 DEF NewState, IsNext, Budgeted, Exact, ByStates
    <3>2. round + 1 = rows[Parent].depth + 1
      BY <3>1, ChildIsTyped
    <3> QED BY <3>1, <3>2, AppliedRow
  <2>3. CASE ExactCap(b)
    BY <2>3 DEF ExactCap, IsNext
  <2>4. CASE ExactDuplicate(b)
    <3>1. rows'[1].module = rows[1].module
      BY <2>4, DuplicateLeavesRows, RowsAreSound
    <3> QED BY <2>4, <3>1 DEF ExactDuplicate, IsNext
  <2>5. CASE BudgetedCap(b)
    BY <2>5 DEF BudgetedCap, IsNext
  <2>6. CASE BudgetedDuplicate(b)
    <3>1. PICK i \in Known(Child(b)) : rows' = Append(rows, Row(b, i, round + 1))
      BY <2>6 DEF BudgetedDuplicate
    <3>2. pc = "apply" /\ ~ ByStates /\ world' = world /\ pc' = pc
      BY <2>6 DEF BudgetedDuplicate, IsNext, Budgeted, ByStates
    <3>3. round + 1 = rows[Parent].depth + 1
      BY <3>2, ChildIsTyped
    <3> QED BY <3>1, <3>2, <3>3, AppliedRow
  <2> QED BY <1>5, <2>1, <2>2, <2>3, <2>4, <2>5, <2>6 DEF ApplyBatch
<1>6. CASE ParentDone
  BY <1>6 DEF ParentDone
<1>7. CASE LayerDone
  BY <1>7 DEF LayerDone
<1>8. CASE EndRound
  BY <1>8 DEF EndRound
<1>9. CASE Finish
  BY <1>9 DEF Finish
<1> QED BY <1>1, <1>2, <1>3, <1>4, <1>5, <1>6, <1>7, <1>8, <1>9 DEF Next

\* A step of the explorers leaves the root, and selects nothing.
LEMMA ExplorerStepKeepsRoot ==
  ASSUME SearchInvariant, ExplorerNext
  PROVE  /\ world' = world /\ rows'[1].module = rows[1].module
         /\ pc \notin {"done", "verified", "handed", "staged", "raised", "explored"}
         /\ pc' \in {"parent", "apply", "finish", "explored"}
<1> USE DEF runVars, searchVars
<1>1. CASE ExploreParent
  BY <1>1 DEF ExploreParent, Build
<1>2. CASE ExploreState
  BY <1>2 DEF ExploreState
<1>3. CASE QueueEmpty
  BY <1>3 DEF QueueEmpty
<1>4. CASE WriteExploration
  BY <1>4 DEF WriteExploration
<1>5. ASSUME NEW b \in pending, ExploreBatch(b)
      PROVE  /\ world' = world /\ rows'[1].module = rows[1].module /\ pc = "apply" /\ pc' = pc
  <2>1. pc = "apply" /\ ~ ByStates /\ world' = world /\ pc' = pc
    BY <1>5 DEF ExploreBatch, IsNext, ByBatches, ByStates
  <2>2. PICK copy \in {0} \cup Known(Child(b)) : rows' = Append(rows, Row(b, copy, round + 1))
    <3>1. CASE Known(Child(b)) = {}
      BY <1>5, <3>1 DEF ExploreBatch
    <3>2. CASE Known(Child(b)) # {}
      BY <1>5, <3>2 DEF ExploreBatch
    <3> QED BY <3>1, <3>2
  <2>3. round + 1 = rows[Parent].depth + 1
    BY <2>1, ChildIsTyped
  <2> QED BY <2>1, <2>2, <2>3, AppliedRow
<1>6. ASSUME NEW b \in pending, ExplorePass(b)
      PROVE  /\ world' = world /\ rows'[1].module = rows[1].module /\ pc = "apply" /\ pc' = pc
  <2>1. pc = "apply" /\ world' = world /\ pc' = pc
    BY <1>6 DEF ExplorePass, IsNext
  <2> DEFINE d == rows[Parent].depth + 1
  <2>2. PICK copy \in {0} \cup Known(Child(b)) : rows' = Append(rows, Row(b, copy, d))
    <3>1. CASE Known(Child(b)) = {}
      BY <1>6, <3>1 DEF ExplorePass
    <3>2. CASE Known(Child(b)) # {}
      BY <1>6, <3>2 DEF ExplorePass
    <3> QED BY <3>1, <3>2
  <2>3. d = rows[Parent].depth + 1
    OBVIOUS
  <2> HIDE DEF d
  <2> QED BY <2>1, <2>2, <2>3, AppliedRow
<1> QED BY <1>1, <1>2, <1>3, <1>4, <1>5, <1>6 DEF ExplorerNext

-----------------------------------------------------------------------------
(* The stages. What the pipelines make.                                    *)

\* Where the module of a stage comes from.
Sources == {"ir_objective", "ir_objective_fallback", "required_transition", "runtime_median"}
\* A row of staged_summary.csv.
StageRow == [input : IR, module : IR, pipeline : Seq(Batches), source : Sources]

\* A module is made by a pipeline, unless two modules have one hash.
Made(m, pipeline, n) == ~ HashesCollide => Walk(m, pipeline) = n

\* The module of this stage has not been handed on.
BeforeHandover == pc \notin {"handed", "staged"}

\* The inductive invariant of the stages.
StagesInvariant ==
  /\ plan \in Plans /\ stages \in Seq(StageRow) /\ Len(stages) <= Len(plan)
  /\ \A k \in DOMAIN stages : Made(stages[k].input, stages[k].pipeline, stages[k].module)
  /\ BeforeHandover /\ stages # <<>> => rows[1].module = Last(stages).module
  /\ pc = "handed" => stages # <<>>
  /\ pc \in {"done", "verified"} => selected \in Rows /\ \A j \in Rows : KeyBefore(selected, j)
  /\ StagesAreReplayed

\* Where hashes do not collide every recorded path leads to its module.
LEMMA PathsLead ==
  ASSUME SearchInvariant, ~ HashesCollide
  PROVE  \A i \in Rows : Walk(rows[1].module, rows[i].path.sequence) = rows[i].module
<1> DEFINE T == {d \in Nat : \E i \in Rows : /\ rows[i].depth = d
                                            /\ Walk(rows[1].module, rows[i].path.sequence) # rows[i].module}
<1> SUFFICES ASSUME T # {} PROVE FALSE
  <2>1. ASSUME NEW i \in Rows, Walk(rows[1].module, rows[i].path.sequence) # rows[i].module
        PROVE  rows[i].depth \in T
    BY <2>1, RowsAreSound
  <2> QED BY <2>1
<1>1. PICK d \in T : \A e \in T : d <= e
  BY LeastNumber
<1>2. PICK i \in Rows : rows[i].depth = d /\ Walk(rows[1].module, rows[i].path.sequence) # rows[i].module
  BY <1>1
<1>3. i # 1
  <2>1. rows[1].path.sequence = <<>>
    BY DEF SearchInvariant, RowsInvariant, RowsAreRecorded, RootPath
  <2> QED BY <1>2, <2>1, WalkNowhere
<1> DEFINE p == rows[i].parent
           b == rows[i].batch
           out == Compiler.apply[rows[p].module][b]
<1>4. p \in Rows /\ Follows(rows[i], rows[p])
  BY <1>3 DEF SearchInvariant, RowsInvariant, RowsFollow
<1> HIDE DEF p, b
<1>5. /\ rows[i].depth = rows[p].depth + 1
      /\ rows[i].path = ExtendPath(rows[p].path, b)
      /\ b \in Batches /\ Compiler.hash[out] = Compiler.hash[rows[i].module]
  BY <1>4 DEF Follows, Leads, b
<1>6. rows[p].depth \in Nat /\ rows[p].path \in PathInfo /\ rows[p].module \in IR /\ rows[i].module \in IR
  BY <1>4, RowsAreSound
<1>7. Walk(rows[1].module, rows[p].path.sequence) = rows[p].module
  <2>1. rows[p].depth \notin T
    <3> SUFFICES ASSUME rows[p].depth \in T PROVE FALSE
      OBVIOUS
    <3>1. d <= rows[p].depth
      BY <1>1
    <3> QED BY <1>2, <1>5, <1>6, <3>1
  <2> QED BY <1>4, <1>6, <2>1
<1>8. rows[p].path.sequence \in Seq(Batches)
  BY <1>6 DEF PathInfo
<1>9. Walk(rows[1].module, rows[i].path.sequence) = out
  <2>1. rows[i].path.sequence = Append(rows[p].path.sequence, b)
    BY <1>5, <1>6, PathIsExtended
  <2>2. Walk(rows[1].module, Append(rows[p].path.sequence, b))
          = Compiler.apply[Walk(rows[1].module, rows[p].path.sequence)][b]
    BY <1>5, <1>8, WalkAppend
  <2> QED BY <1>7, <2>1, <2>2
<1>10. out \in IR
  BY <1>5, <1>6, WorldIsTyped DEF SearchInvariant, CallIsTyped
<1>11. out = rows[i].module
  BY <1>5, <1>6, <1>10 DEF HashesCollide
<1> QED BY <1>2, <1>9, <1>11

\* So the pipeline that is written makes the selected module.
LEMMA ChosenMakes ==
  ASSUME SearchInvariant, NEW i \in Rows
  PROVE  ChosenPath(i) \in Seq(Batches) /\ Made(rows[1].module, ChosenPath(i), rows[i].module)
<1>1. ChosenPath(i) = rows[i].path.sequence
  BY ChosenIsRecorded DEF SearchInvariant, RowsInvariant
<1>2. rows[i].path.sequence \in Seq(Batches)
  BY RowsAreSound DEF PathInfo
<1> QED BY <1>1, <1>2, PathsLead DEF Made

-----------------------------------------------------------------------------
(* Pipelines one after the other.                                          *)

\* What FlattenSeq defines.
Flattening(s, f) ==
  f = [i \in 1 .. Len(s) |-> IF i = 1 THEN s[i] ELSE f[i - 1] \o s[i]]

\* FlattenSeq is defined by recursion.
LEMMA FlattenHasSteps ==
  ASSUME NEW s, Len(s) # 0, NEW f, Flattening(s, f)
  PROVE  \E g : Flattening(s, g) /\ FlattenSeq(s) = g[Len(s)]
<1> DEFINE W == CHOOSE g : Flattening(s, g)
<1>1. Flattening(s, W)
  OBVIOUS
<1>2. FlattenSeq(s) = W[Len(s)]
  BY DEF FlattenSeq, Flattening
<1> QED BY <1>1, <1>2

\* The function it chooses exists.
LEMMA FlatteningExists ==
  ASSUME NEW s \in Seq(Seq(Batches))
  PROVE  \E f : Flattening(s, f)
<1> DEFINE step == [p \in Seq(Batches) |-> [q \in Seq(Batches) |-> p \o q]]
<1>1. PICK g : Steps(step, <<>>, s, g)
  BY StepsExist
<1>2. \A k \in 0 .. Len(s) : g[k] = IF k = 0 THEN <<>> ELSE step[g[k - 1]][s[k]]
  BY <1>1 DEF Steps
<1>3. \A k \in 0 .. Len(s) : g[k] \in Seq(Batches)
  <2> DEFINE T == {k \in 0 .. Len(s) : g[k] \notin Seq(Batches)}
  <2> SUFFICES ASSUME T # {} PROVE FALSE
    OBVIOUS
  <2>1. T \in SUBSET Nat
    OBVIOUS
  <2>2. PICK k \in T : \A j \in T : k <= j
    <3> HIDE DEF T
    <3> QED BY <2>1, LeastNumber
  <2>3. k # 0
    <3>1. <<>> \in Seq(Batches)
      OBVIOUS
    <3> QED BY <1>2, <2>2, <3>1
  <2>4. k - 1 \in 0 .. Len(s) /\ k - 1 < k /\ k \in 1 .. Len(s)
    BY <2>2, <2>3
  <2>5. g[k - 1] \in Seq(Batches)
    BY <2>2, <2>4
  <2>6. s[k] \in Seq(Batches)
    BY <2>4
  <2>7. g[k] = g[k - 1] \o s[k]
    BY <1>2, <2>3, <2>4, <2>5, <2>6
  <2>8. g[k] \in Seq(Batches)
    BY <2>5, <2>6, <2>7
  <2> QED BY <2>2, <2>8
<1> DEFINE f == [i \in 1 .. Len(s) |-> g[i]]
<1>4. ASSUME NEW i \in 1 .. Len(s)
      PROVE  f[i] = IF i = 1 THEN s[i] ELSE f[i - 1] \o s[i]
  <2>1. i \in 0 .. Len(s) /\ i - 1 \in 0 .. Len(s) /\ i # 0 /\ s[i] \in Seq(Batches)
    OBVIOUS
  <2>2. g[i - 1] \in Seq(Batches)
    BY <1>3, <2>1
  <2>3. g[i] = g[i - 1] \o s[i]
    BY <1>2, <2>1, <2>2
  <2>4. CASE i = 1
    <3>1. g[0] = <<>>
      <4>1. 0 \in 0 .. Len(s)
        OBVIOUS
      <4> QED BY <1>2, <4>1
    <3>2. <<>> \o s[i] = s[i]
      BY <2>1
    <3>3. i - 1 = 0
      BY <2>4
    <3>4. g[i] = s[i]
      BY <2>3, <3>1, <3>2, <3>3
    <3>5. f[i] = g[i]
      OBVIOUS
    <3> HIDE DEF f
    <3> QED BY <2>4, <3>4, <3>5
  <2>5. CASE i # 1
    <3>1. i - 1 \in 1 .. Len(s)
      BY <2>5
    <3> QED BY <2>3, <2>5, <3>1
  <2> QED BY <2>4, <2>5
<1>5. f = [i \in 1 .. Len(s) |-> f[i]]
  OBVIOUS
<1> HIDE DEF f
<1>6. f = [i \in 1 .. Len(s) |-> IF i = 1 THEN s[i] ELSE f[i - 1] \o s[i]]
  BY <1>4, <1>5
<1> QED BY <1>6 DEF Flattening

\* Pipelines that lead from module to module lead on from the first to the last.
LEMMA FlattenLeads ==
  ASSUME NEW s \in Seq(Seq(Batches)), Len(s) # 0, NEW module,
         \A k \in 1 .. Len(s) : Walk(module[k - 1], s[k]) = module[k]
  PROVE  FlattenSeq(s) \in Seq(Batches) /\ Walk(module[0], FlattenSeq(s)) = module[Len(s)]
<1>1. PICK g : Flattening(s, g) /\ FlattenSeq(s) = g[Len(s)]
  BY FlatteningExists, FlattenHasSteps
<1>2. \A i \in 1 .. Len(s) : g[i] = IF i = 1 THEN s[i] ELSE g[i - 1] \o s[i]
  BY <1>1 DEF Flattening
<1> DEFINE T == {k \in 1 .. Len(s) : ~ (g[k] \in Seq(Batches) /\ Walk(module[0], g[k]) = module[k])}
<1>3. T = {}
  <2> SUFFICES ASSUME T # {} PROVE FALSE
    OBVIOUS
  <2>1. T \in SUBSET Nat
    OBVIOUS
  <2>2. PICK k \in T : \A j \in T : k <= j
    <3> HIDE DEF T
    <3> QED BY <2>1, LeastNumber
  <2>3. k \in 1 .. Len(s) /\ s[k] \in Seq(Batches) /\ Walk(module[k - 1], s[k]) = module[k]
    BY <2>2
  <2>4. CASE k = 1
    <3>1. g[k] = s[k]
      BY <1>2, <2>3, <2>4
    <3> QED BY <2>2, <2>3, <2>4, <3>1
  <2>5. CASE k # 1
    <3>1. k - 1 \in 1 .. Len(s) /\ k - 1 < k /\ k - 1 \notin T
      <4>1. k \in Nat /\ k - 1 \in 1 .. Len(s) /\ k - 1 < k
        BY <2>3, <2>5
      <4>2. ASSUME k - 1 \in T PROVE FALSE
        <5>1. k <= k - 1
          BY <2>2, <4>2
        <5> QED BY <4>1, <5>1
      <4> QED BY <4>1, <4>2
    <3>2. g[k - 1] \in Seq(Batches) /\ Walk(module[0], g[k - 1]) = module[k - 1]
      BY <3>1
    <3>3. g[k] = g[k - 1] \o s[k]
      BY <1>2, <2>3, <2>5
    <3>4. g[k] \in Seq(Batches)
      BY <2>3, <3>2, <3>3
    <3>5. Walk(module[0], g[k - 1] \o s[k]) = Walk(Walk(module[0], g[k - 1]), s[k])
      BY <2>3, <3>2, WalkGoesOn
    <3> QED BY <2>2, <2>3, <3>2, <3>3, <3>4, <3>5
  <2> QED BY <2>4, <2>5
<1>4. Len(s) \in 1 .. Len(s)
  OBVIOUS
<1> QED BY <1>1, <1>3, <1>4

-----------------------------------------------------------------------------
(* What may be handed on.                                                  *)

\* A candidate for a hand-over from input, under a stage that may require a transition.
CandidateIsSound(c, input, required) ==
  /\ c.module \in IR /\ c.pipeline \in Seq(Batches) /\ c.source \in Sources
  /\ Made(input, c.pipeline, c.module)
  /\ c.source \in {"required_transition", "runtime_median"} => Walk(input, c.pipeline) = c.module
  /\ required => c.pipeline # <<>> /\ (c.source # "runtime_median" => c.module # input)

\* A pipeline with one batch more is not empty.
LEMMA AppendIsSomething ==
  ASSUME NEW s \in Seq(Batches), NEW b \in Batches
  PROVE  Append(s, b) # <<>>
<1>1. Len(Append(s, b)) = Len(s) + 1 /\ Len(s) \in Nat
  OBVIOUS
<1>2. Len(<<>>) = 0
  OBVIOUS
<1> QED BY <1>1, <1>2

\* The first path of a row leads to its module.
LEMMA FirstsAreTyped ==
  ASSUME SearchInvariant, NEW i \in Rows
  PROVE  /\ rows[i].first \in Seq(Batches) /\ rows[i].module \in IR
         /\ Walk(rows[1].module, rows[i].first) = rows[i].module
<1>1. rows[i] \in StateRow
  BY RowsAreSound
<1> QED BY <1>1, RowIsTyped DEF SearchInvariant, RowsInvariant, FirstsLead

\* The fields of a candidate.
LEMMA CandidateHasFields ==
  ASSUME NEW i, NEW s
  PROVE  /\ Candidate(i, s).module = rows[i].module /\ Candidate(i, s).pipeline = rows[i].first
         /\ Candidate(i, s).source = s
BY DEF Candidate

\* Only the root has no path to it.
LEMMA RootHasNoPath ==
  ASSUME SearchInvariant, NEW i \in Rows
  PROVE  /\ rows[i].depth = 0 => i = 1
         /\ ChosenPath(i) = <<>> => i = 1
         /\ ChosenPath(1) = <<>>
<1>1. ChosenPath(i) = rows[i].path.sequence /\ ChosenPath(1) = rows[1].path.sequence
  BY ChosenIsRecorded, RowsAreSound DEF SearchInvariant, RowsInvariant
<1>2. rows[1].path.sequence = <<>>
  BY DEF SearchInvariant, RowsInvariant, RowsAreRecorded, RootPath
<1>3. ASSUME i # 1
      PROVE  rows[i].depth # 0 /\ rows[i].path.sequence # <<>>
  <2> DEFINE p == rows[i].parent
             b == rows[i].batch
  <2>1. p \in Rows /\ Follows(rows[i], rows[p])
    BY <1>3 DEF SearchInvariant, RowsInvariant, RowsFollow
  <2> HIDE DEF p, b
  <2>2. rows[i].depth = rows[p].depth + 1 /\ rows[i].path = ExtendPath(rows[p].path, b) /\ b \in Batches
    BY <2>1 DEF Follows, Leads, b
  <2>3. rows[p].depth \in Nat /\ rows[p].path \in PathInfo
    BY <2>1, RowsAreSound
  <2>4. rows[i].path.sequence = Append(rows[p].path.sequence, b)
    BY <2>2, <2>3, PathIsExtended
  <2>5. rows[p].path.sequence \in Seq(Batches)
    BY <2>3 DEF PathInfo
  <2>6. Append(rows[p].path.sequence, b) # <<>>
    BY <2>2, <2>5, AppendIsSomething
  <2> QED BY <2>2, <2>3, <2>4, <2>6
<1> QED BY <1>1, <1>2, <1>3

\* No state has a better key than the root but one of another module.
LEMMA BestIsNotRoot ==
  ASSUME SearchInvariant, selected \in Rows, \A j \in Rows : KeyBefore(selected, j), selected # 1
  PROVE  rows[selected].module # rows[1].module
<1> SUFFICES ASSUME rows[selected].module = rows[1].module PROVE FALSE
  OBVIOUS
<1>1. 1 \in Rows /\ rows[1].depth = 0 /\ selected > 1
  BY RowsAreSound DEF SearchInvariant, RowsInvariant, RowsAreRecorded
<1>2. /\ rows[1].path.length = 0 /\ rows[selected].path.length = rows[selected].depth
      /\ rows[selected].depth \in Nat /\ rows[selected].depth # 0
  BY <1>1, RowsAreSound, RootHasNoPath
<1>3. Objective(selected) = Objective(1) /\ Objective(1) \in Nat
  <2>1. rows[1].module \in IR
    BY <1>1, RowsAreSound
  <2> QED BY <2>1, WorldIsTyped DEF Objective, SearchInvariant, CallIsTyped
<1>4. KeyBefore(selected, 1)
  BY <1>1
<1> QED BY <1>1, <1>2, <1>3, <1>4 DEF KeyBefore

\* What was selected may be handed on.
LEMMA ChosenIsSound ==
  ASSUME SearchInvariant, selected \in Rows, \A j \in Rows : KeyBefore(selected, j),
         NEW required \in BOOLEAN, ~ (required /\ ChosenPath(selected) = <<>>), NEW c,
         c = [module |-> rows[selected].module, pipeline |-> ChosenPath(selected), source |-> "ir_objective"]
  PROVE  CandidateIsSound(c, rows[1].module, required)
<1>1. /\ c.module = rows[selected].module /\ c.pipeline = ChosenPath(selected)
      /\ c.source = "ir_objective"
  OBVIOUS
<1>2. rows[selected].module \in IR
  BY RowsAreSound
<1>3. required => selected # 1
  BY RootHasNoPath
<1> QED BY <1>1, <1>2, <1>3, ChosenMakes, BestIsNotRoot DEF CandidateIsSound, Sources

\* So may what a transition leads to where one is required,
LEMMA RequiredIsSound ==
  ASSUME SearchInvariant, selected \in Rows, ChosenPath(selected) = <<>>,
         NEW i \in Representatives, rows[i].first # <<>>, NEW required \in BOOLEAN
  PROVE  CandidateIsSound(Candidate(i, "required_transition"), rows[1].module, required)
<1>1. selected = 1 /\ i \in Rows /\ i \in Eligible /\ 1 \in Eligible
  BY RootHasNoPath DEF Representatives, Eligible
<1>2. rows[i].module # rows[1].module
  <2> SUFFICES ASSUME rows[i].module = rows[1].module PROVE FALSE
    OBVIOUS
  <2>1. Preferred(i, 1)
    BY <1>1 DEF Representatives
  <2>2. i = 1
    BY <1>1, <2>1 DEF Preferred
  <2> QED BY <2>2 DEF SearchInvariant, RowsInvariant, RowsAreRecorded
<1> DEFINE c == Candidate(i, "required_transition")
<1>3. c.module = rows[i].module /\ c.pipeline = rows[i].first /\ c.source = "required_transition"
  BY CandidateHasFields
<1> HIDE DEF c
<1>4. c.module \in IR /\ c.pipeline \in Seq(Batches) /\ Walk(rows[1].module, c.pipeline) = c.module
  BY <1>1, <1>3, FirstsAreTyped
<1>5. CandidateIsSound(c, rows[1].module, required)
  BY <1>2, <1>3, <1>4 DEF CandidateIsSound, Sources, Made
<1> QED BY <1>5 DEF c

\* and the fastest executable.
LEMMA WinnerIsSound ==
  ASSUME SearchInvariant, NEW i \in Winners, NEW required \in BOOLEAN,
         required => Candidate(i, "runtime_median").pipeline # <<>>
  PROVE  CandidateIsSound(Candidate(i, "runtime_median"), rows[1].module, required)
<1> DEFINE c == Candidate(i, "runtime_median")
<1>1. c.module = rows[i].module /\ c.pipeline = rows[i].first /\ c.source = "runtime_median"
  BY CandidateHasFields
<1>2. required => c.pipeline # <<>>
  OBVIOUS
<1> HIDE DEF c
<1>3. i \in Rows
  BY DEF Winners
<1>4. c.module \in IR /\ c.pipeline \in Seq(Batches) /\ Walk(rows[1].module, c.pipeline) = c.module
  BY <1>1, <1>3, FirstsAreTyped
<1>5. CandidateIsSound(c, rows[1].module, required)
  BY <1>1, <1>2, <1>4 DEF CandidateIsSound, Sources, Made
<1> QED BY <1>5 DEF c

\* The choice before the reranking.
LEMMA SelectionIsSound ==
  ASSUME SearchInvariant, selected \in Rows, \A j \in Rows : KeyBefore(selected, j),
         ThisStage.require \in BOOLEAN, NEW c \in Selection
  PROVE  CandidateIsSound(c, rows[1].module, ThisStage.require)
<1>1. CASE ThisStage.require /\ ChosenPath(selected) = <<>>
  <2>1. PICK i \in Representatives : rows[i].first # <<>> /\ c = Candidate(i, "required_transition")
    BY <1>1 DEF Selection, BestObjective
  <2> QED BY <1>1, <2>1, RequiredIsSound
<1>2. CASE ~ (ThisStage.require /\ ChosenPath(selected) = <<>>)
  <2>1. c = [module |-> rows[selected].module, pipeline |-> ChosenPath(selected), source |-> "ir_objective"]
    BY <1>2 DEF Selection
  <2> QED BY <1>2, <2>1, ChosenIsSound
<1> QED BY <1>1, <1>2

\* A choice that the reranking falls back to.
LEMMA FallbackIsSound ==
  ASSUME NEW c, NEW input, NEW required \in BOOLEAN, CandidateIsSound(c, input, required),
         NEW d, d.module = c.module, d.pipeline = c.pipeline, d.source = "ir_objective_fallback",
         required => c.module # input
  PROVE  CandidateIsSound(d, input, required)
BY DEF CandidateIsSound, Sources

\* The fields of a choice whose source is changed.
LEMMA RecordHasFields ==
  ASSUME NEW m, NEW p, NEW s, NEW t,
         NEW c, c = [module |-> m, pipeline |-> p, source |-> s]
  PROVE  /\ [c EXCEPT !.source = t].module = c.module
         /\ [c EXCEPT !.source = t].pipeline = c.pipeline
         /\ [c EXCEPT !.source = t].source = t
         /\ c.source = s
OBVIOUS

\* The fields of a choice.
LEMMA SelectionHasFields ==
  ASSUME NEW c \in Selection
  PROVE  /\ [c EXCEPT !.source = "ir_objective_fallback"].module = c.module
         /\ [c EXCEPT !.source = "ir_objective_fallback"].pipeline = c.pipeline
         /\ [c EXCEPT !.source = "ir_objective_fallback"].source = "ir_objective_fallback"
         /\ c.source # "runtime_median"
<1>1. \E m, p : \E s \in {"ir_objective", "required_transition"} :
        c = [module |-> m, pipeline |-> p, source |-> s]
  BY DEF Selection, Candidate
<1> QED BY <1>1, RecordHasFields

\* The choice after the reranking.
LEMMA RerankedIsSound ==
  ASSUME SearchInvariant, selected \in Rows, \A j \in Rows : KeyBefore(selected, j),
         ThisStage.require \in BOOLEAN, NEW choice \in Selection, NEW c \in Reranked(choice)
  PROVE  CandidateIsSound(c, rows[1].module, ThisStage.require)
<1>1. CASE c = [choice EXCEPT !.source = "ir_objective_fallback"]
  <2>1. CandidateIsSound(choice, rows[1].module, ThisStage.require)
    BY SelectionIsSound
  <2>2. /\ c.module = choice.module /\ c.pipeline = choice.pipeline
        /\ c.source = "ir_objective_fallback" /\ choice.source # "runtime_median"
    BY <1>1, SelectionHasFields
  <2>3. ThisStage.require => choice.module # rows[1].module
    BY <2>1, <2>2 DEF CandidateIsSound
  <2> QED BY <2>1, <2>2, <2>3, FallbackIsSound
<1>2. CASE c # [choice EXCEPT !.source = "ir_objective_fallback"]
  <2>1. PICK i \in Winners : /\ c = Candidate(i, "runtime_median")
                             /\ ThisStage.require => c.pipeline # <<>>
    BY <1>2 DEF Reranked
  <2> QED BY <2>1, WinnerIsSound
<1> QED BY <1>1, <1>2

-----------------------------------------------------------------------------
(* The stages under a search in progress.                                  *)

\* Whether hashes collide depends on the world alone.
LEMMA HashesStay ==
  ASSUME world' = world
  PROVE  HashesCollide' = HashesCollide
BY DEF HashesCollide, Compiler

\* What the stages have come to, whatever the search in progress does.
StagesHold ==
  /\ plan \in Plans /\ stages \in Seq(StageRow) /\ Len(stages) <= Len(plan)
  /\ \A k \in DOMAIN stages : Made(stages[k].input, stages[k].pipeline, stages[k].module)
  /\ StagesAreReplayed

\* What was earned stays earned.
LEMMA EarnedStays ==
  ASSUME HandoversAreEarned, UNCHANGED <<world, plan, stages>>
  PROVE  HandoversAreEarned'
<1> SUFFICES ASSUME NEW k \in DOMAIN stages
             PROVE  (LET s == stages[k]
                     IN /\ s.source \in {"required_transition", "runtime_median"} =>
                             Walk(s.input, s.pipeline) = s.module
                        /\ k > 1 => s.input = stages[k - 1].module
                        /\ plan[k].require =>
                             s.pipeline # <<>> /\ (s.source # "runtime_median" => s.module # s.input))'
  BY DEF HandoversAreEarned
<1>1. Walk(stages[k].input, stages[k].pipeline)' = Walk(stages[k].input, stages[k].pipeline)
  BY DEF Walk, Compiler
<1> QED BY <1>1 DEF HandoversAreEarned

\* The stages hold as long as nobody changes them.
LEMMA HeldStays ==
  ASSUME StagesHold, UNCHANGED <<world, plan, stages>>,
         ~ HashesCollide => verified' # "mismatch" /\ replay' # "mismatch"
  PROVE  StagesHold'
<1>1. HandoversAreEarned'
  BY EarnedStays DEF StagesHold, StagesAreReplayed
<1>2. ReplaysAgree'
  BY HashesStay DEF ReplaysAgree
<1>3. ASSUME NEW k \in DOMAIN stages
      PROVE  Made(stages[k].input, stages[k].pipeline, stages[k].module)'
  <2>1. Made(stages[k].input, stages[k].pipeline, stages[k].module)'
          = Made(stages[k].input, stages[k].pipeline, stages[k].module)
    BY HashesStay DEF Made, Walk, Compiler
  <2> QED BY <2>1 DEF StagesHold
<1>4. (\A k \in DOMAIN stages : Made(stages[k].input, stages[k].pipeline, stages[k].module))'
  BY <1>3
<1> QED BY <1>1, <1>2, <1>4 DEF StagesHold, StagesAreReplayed

\* The invariant of the stages, in parts.
LEMMA StagesSplit ==
  StagesInvariant <=>
    /\ StagesHold
    /\ BeforeHandover /\ stages # <<>> => rows[1].module = Last(stages).module
    /\ pc = "handed" => stages # <<>>
    /\ pc \in {"done", "verified"} => selected \in Rows /\ \A j \in Rows : KeyBefore(selected, j)
BY DEF StagesInvariant, StagesHold

\* A search in progress leaves the stages alone.
LEMMA SearchKeepsStages ==
  ASSUME StagesInvariant, UNCHANGED <<world, stagedVars>>, rows'[1].module = rows[1].module,
         BeforeHandover, pc' # "handed",
         pc' \in {"done", "verified"} => (selected \in Rows /\ \A j \in Rows : KeyBefore(selected, j))'
  PROVE  StagesInvariant'
<1>1. UNCHANGED <<plan, stages, verified, replay>>
  BY DEF stagedVars
<1>2. ~ HashesCollide => verified' # "mismatch" /\ replay' # "mismatch"
  BY <1>1, StagesSplit DEF StagesHold, StagesAreReplayed, ReplaysAgree
<1>3. StagesHold'
  BY <1>1, <1>2, HeldStays, StagesSplit
<1>4. (stages # <<>> => rows[1].module = Last(stages).module)'
  BY <1>1, StagesSplit DEF Last
<1> QED BY <1>1, <1>3, <1>4 DEF StagesInvariant, StagesHold

\* The exact and budgeted searches leave the stages alone.
LEMMA LegacyStepKeepsStages ==
  ASSUME SearchInvariant, StagesInvariant, Next, UNCHANGED stagedVars
  PROVE  StagesInvariant'
<1>1. /\ world' = world /\ rows'[1].module = rows[1].module /\ BeforeHandover
      /\ pc' \in {"round", "parent", "apply", "layer", "finish"} \/ Finish
  BY LegacyStepKeepsRoot DEF BeforeHandover
<1>2. pc' # "handed"
  BY <1>1 DEF Finish
<1>3. ASSUME Finish PROVE (selected \in Rows /\ \A j \in Rows : KeyBefore(selected, j))'
  <2>1. UNCHANGED <<world, rows>>
    BY <1>3 DEF Finish, runVars, searchVars
  <2>2. selected' \in {i \in Rows : \A j \in Rows : KeyBefore(i, j)}
    BY <1>3 DEF Finish
  <2> QED BY <2>1, <2>2 DEF Rows, KeyBefore, Objective, Compiler
<1> QED BY <1>1, <1>2, <1>3, SearchKeepsStages

\* So do the explorers,
LEMMA ExplorerStepKeepsStages ==
  ASSUME SearchInvariant, StagesInvariant, ExplorerNext, UNCHANGED stagedVars
  PROVE  StagesInvariant'
<1>1. /\ world' = world /\ rows'[1].module = rows[1].module /\ BeforeHandover
      /\ pc' \notin {"handed", "done", "verified"}
  BY ExplorerStepKeepsRoot DEF BeforeHandover
<1> QED BY <1>1, SearchKeepsStages

\* and the comparisons.
LEMMA BaselinesKeepStages ==
  ASSUME SearchInvariant, StagesInvariant, BaselinesNext, UNCHANGED stagedVars
  PROVE  StagesInvariant'
<1>1. /\ world' = world /\ rows'[1].module = rows[1].module /\ BeforeHandover
      /\ pc' \notin {"handed", "done", "verified"}
  BY BaselinesRest DEF BeforeHandover
<1> QED BY <1>1, SearchKeepsStages

-----------------------------------------------------------------------------
(* The steps of a stage.                                                   *)

\* A module compared with itself.
LEMMA EqualIsSuccess ==
  ASSUME NEW m
  PROVE  Comparison(m, m) = {"success"}
BY DEF Comparison, Equivalence

\* These steps leave the search as it is.
LEMMA StageKeepsSearch ==
  ASSUME SearchInvariant, VerifyPipeline \/ HandOver \/ ReplayStages
  PROVE  SearchInvariant' /\ UNCHANGED <<world, rows, selected>>
<1> USE DEF runVars, searchVars
<1>1. /\ ~ Searching /\ ~ Searching' /\ HasReason' = HasReason /\ HasReason \subseteq Rows
      /\ UNCHANGED <<world, mode, limits, rows, frontier, children, round, queue, pending, expanded, selected>>
  <2>1. CASE VerifyPipeline
    BY <2>1 DEF VerifyPipeline, Searching, HasReason, SearchInvariant, CallIsTyped
  <2>2. CASE HandOver
    BY <2>2 DEF HandOver, Searching, HasReason, SearchInvariant, CallIsTyped
  <2>3. CASE ReplayStages
    BY <2>3 DEF ReplayStages, Searching, HasReason, SearchInvariant, CallIsTyped
  <2> QED BY <2>1, <2>2, <2>3
<1> QED BY <1>1, RestKeeps

\* The selected state stays the best.
LEMMA SelectedStays ==
  ASSUME UNCHANGED <<world, rows, selected>>, selected \in Rows, \A j \in Rows : KeyBefore(selected, j)
  PROVE  (selected \in Rows /\ \A j \in Rows : KeyBefore(selected, j))'
BY DEF Rows, KeyBefore, Objective, Compiler

\* A pipeline is replayed.
LEMMA VerifyKeepsStages ==
  ASSUME SearchInvariant, StagesInvariant, VerifyPipeline
  PROVE  StagesInvariant'
<1>1. /\ pc = "done" /\ pc' = "verified" /\ UNCHANGED <<world, rows, selected, plan, stages, replay>>
      /\ verified' \in Comparison(Walk(rows[1].module, ChosenPath(selected)), rows[selected].module)
                         \cup {"failed"}
  BY DEF VerifyPipeline, runVars, searchVars
<1>2. selected \in Rows /\ \A j \in Rows : KeyBefore(selected, j)
  BY <1>1, StagesSplit
<1>3. ~ HashesCollide => verified' # "mismatch" /\ replay' # "mismatch"
  <2> SUFFICES ASSUME ~ HashesCollide PROVE verified' # "mismatch" /\ replay' # "mismatch"
    OBVIOUS
  <2>1. replay' # "mismatch"
    BY <1>1, StagesSplit DEF StagesHold, StagesAreReplayed, ReplaysAgree
  <2>2. Walk(rows[1].module, ChosenPath(selected)) = rows[selected].module
    BY <1>2, ChosenMakes DEF Made
  <2> QED BY <1>1, <2>1, <2>2, EqualIsSuccess
<1>4. StagesHold'
  BY <1>1, <1>3, HeldStays, StagesSplit
<1>5. (stages # <<>> => rows[1].module = Last(stages).module)'
  BY <1>1, StagesSplit DEF Last, BeforeHandover
<1> QED BY <1>1, <1>2, <1>4, <1>5, SelectedStays DEF StagesInvariant, StagesHold

\* What is handed on is added to the stages.
HandedRow(c) ==
  [input |-> rows[1].module, module |-> c.module, pipeline |-> c.pipeline, source |-> c.source]

\* The fields of a stage that is handed on.
LEMMA HandedIsRow ==
  ASSUME NEW c, rows[1].module \in IR, c.module \in IR, c.pipeline \in Seq(Batches), c.source \in Sources
  PROVE  /\ HandedRow(c) \in StageRow
         /\ HandedRow(c).input = rows[1].module /\ HandedRow(c).module = c.module
         /\ HandedRow(c).pipeline = c.pipeline /\ HandedRow(c).source = c.source
BY DEF HandedRow, StageRow

\* The stages with one more.
LEMMA StageIsAppended ==
  ASSUME stages \in Seq(StageRow), NEW r \in StageRow, stages' = Append(stages, r)
  PROVE  /\ stages' \in Seq(StageRow) /\ stages' # <<>>
         /\ Len(stages) \in Nat /\ Len(stages') = Len(stages) + 1
         /\ DOMAIN stages = 1 .. Len(stages) /\ DOMAIN stages' = 1 .. Len(stages) + 1
         /\ \A k \in DOMAIN stages : stages'[k] = stages[k]
         /\ stages'[Len(stages) + 1] = r
<1>1. Len(Append(stages, r)) = Len(stages) + 1 /\ Len(stages) \in Nat
  OBVIOUS
<1>2. Append(stages, r) # <<>>
  BY <1>1
<1> QED BY <1>1, <1>2

\* The stage of the plan that is next.
LEMMA PlanIsTyped ==
  ASSUME plan \in Plans, Len(stages) < Len(plan), stages \in Seq(StageRow)
  PROVE  /\ ThisStage = plan[Len(stages) + 1]
         /\ ThisStage.require \in BOOLEAN /\ ThisStage.mode \in Modes
<1>1. plan \in Seq(Stage)
  BY StagedAssumption DEF Manifest
<1>2. Len(stages) + 1 \in 1 .. Len(plan)
  BY <1>1
<1>3. ThisStage \in Stage
  BY <1>1, <1>2 DEF ThisStage
<1> QED BY <1>3 DEF Stage, ThisStage

\* The walk of a stage in the next state.
LEMMA WalkNext ==
  ASSUME world' = world, NEW r, NEW k, stages'[k] = r
  PROVE  Walk(stages[k].input, stages[k].pipeline)' = Walk(r.input, r.pipeline)
BY DEF Walk, Compiler

\* So what was made is still made.
LEMMA MadeNext ==
  ASSUME world' = world, NEW r, Made(r.input, r.pipeline, r.module), NEW k, stages'[k] = r
  PROVE  Made(stages[k].input, stages[k].pipeline, stages[k].module)'
BY WalkNext, HashesStay DEF Made

\* A stage is handed on.
LEMMA HandOverKeepsStages ==
  ASSUME SearchInvariant, StagesInvariant, HandOver
  PROVE  StagesInvariant'
<1>1. /\ pc = "verified" /\ Len(stages) < Len(plan)
      /\ UNCHANGED <<world, rows, selected, plan, verified, replay>>
  BY DEF HandOver, runVars, searchVars
<1>2. /\ selected \in Rows /\ \A j \in Rows : KeyBefore(selected, j)
      /\ stages # <<>> => rows[1].module = Last(stages).module
  BY <1>1, StagesSplit DEF BeforeHandover
<1>3. plan \in Plans /\ stages \in Seq(StageRow)
  BY StagesSplit DEF StagesHold
<1>4. CASE UNCHANGED stages /\ pc' = "raised"
  <2>1. ~ HashesCollide => verified' # "mismatch" /\ replay' # "mismatch"
    BY <1>1, StagesSplit DEF StagesHold, StagesAreReplayed, ReplaysAgree
  <2>2. StagesHold'
    BY <1>1, <1>4, <2>1, HeldStays, StagesSplit
  <2>3. (stages # <<>> => rows[1].module = Last(stages).module)'
    BY <1>1, <1>2, <1>4 DEF Last
  <2> QED BY <1>4, <2>2, <2>3 DEF StagesInvariant, StagesHold
<1>5. ASSUME NEW c, CandidateIsSound(c, rows[1].module, ThisStage.require),
             stages' = Append(stages, HandedRow(c)), pc' = "handed"
      PROVE  StagesInvariant'
  <2> DEFINE r == HandedRow(c)
             n == Len(stages) + 1
  <2>0. rows[1].module \in IR
    BY RowsAreSound
  <2>1. /\ r \in StageRow /\ r.input = rows[1].module /\ r.module = c.module
        /\ r.pipeline = c.pipeline /\ r.source = c.source
    BY <1>5, <2>0, HandedIsRow DEF CandidateIsSound
  <2>2. stages' = Append(stages, r)
    BY <1>5
  <2> HIDE DEF r
  <2>3. /\ stages' \in Seq(StageRow) /\ stages' # <<>> /\ Len(stages') = n
        /\ DOMAIN stages = 1 .. Len(stages) /\ Len(stages) \in Nat /\ DOMAIN stages' = 1 .. n
        /\ \A k \in DOMAIN stages : stages'[k] = stages[k]
        /\ stages'[n] = r
    BY <1>3, <2>1, <2>2, StageIsAppended
  <2>4. \A k \in DOMAIN stages' : k \in DOMAIN stages \/ k = n
    BY <2>3
  <2>5. ThisStage = plan[n] /\ plan' = plan
    BY <1>1, <1>3, PlanIsTyped
  <2>6. (\A k \in DOMAIN stages : Made(stages[k].input, stages[k].pipeline, stages[k].module))'
    <3>1. ASSUME NEW k \in DOMAIN stages'
          PROVE  Made(stages[k].input, stages[k].pipeline, stages[k].module)'
      <4>1. CASE k \in DOMAIN stages
        <5>1. Made(stages[k].input, stages[k].pipeline, stages[k].module)
          BY <4>1, StagesSplit DEF StagesHold
        <5> QED BY <1>1, <2>3, <4>1, <5>1, MadeNext
      <4>2. CASE k = n
        <5>1. Made(r.input, r.pipeline, r.module)
          BY <1>5, <2>1 DEF CandidateIsSound
        <5> QED BY <1>1, <2>3, <4>2, <5>1, MadeNext
      <4> QED BY <2>4, <4>1, <4>2
    <3> QED BY <3>1
  <2>7. HandoversAreEarned'
    <3> SUFFICES ASSUME NEW k \in DOMAIN stages'
                 PROVE  (LET s == stages[k]
                         IN /\ s.source \in {"required_transition", "runtime_median"} =>
                                 Walk(s.input, s.pipeline) = s.module
                            /\ k > 1 => s.input = stages[k - 1].module
                            /\ plan[k].require =>
                                 s.pipeline # <<>> /\ (s.source # "runtime_median" => s.module # s.input))'
      BY DEF HandoversAreEarned
    <3>1. CASE k \in DOMAIN stages
      <4>1. Walk(stages[k].input, stages[k].pipeline)' = Walk(stages[k].input, stages[k].pipeline)
        BY <1>1, <2>3, <3>1, WalkNext
      <4>2. k > 1 => k - 1 \in DOMAIN stages
        BY <2>3, <3>1
      <4>3. stages'[k] = stages[k] /\ (k > 1 => stages'[k - 1] = stages[k - 1])
        BY <2>3, <3>1, <4>2
      <4> QED BY <2>5, <3>1, <4>1, <4>3, StagesSplit
              DEF StagesHold, StagesAreReplayed, HandoversAreEarned
    <3>2. CASE k = n
      <4>1. Walk(stages[k].input, stages[k].pipeline)' = Walk(r.input, r.pipeline)
        BY <1>1, <2>3, <3>2, WalkNext
      <4>2. stages'[k] = r
        BY <2>3, <3>2
      <4>3. k > 1 => stages # <<>> /\ k - 1 \in DOMAIN stages /\ stages[k - 1] = Last(stages)
        BY <1>3, <2>3, <3>2 DEF Last
      <4>4. k > 1 => r.input = stages'[k - 1].module
        BY <1>2, <2>1, <2>3, <4>3
      <4>5. r.source \in {"required_transition", "runtime_median"} => Walk(r.input, r.pipeline) = r.module
        BY <1>5, <2>1 DEF CandidateIsSound
      <4>6. plan[k].require => r.pipeline # <<>> /\ (r.source # "runtime_median" => r.module # r.input)
        BY <1>5, <2>1, <2>5, <3>2 DEF CandidateIsSound
      <4> QED BY <2>5, <4>1, <4>2, <4>4, <4>5, <4>6
    <3> QED BY <2>4, <3>1, <3>2
  <2>8. ReplaysAgree'
    BY <1>1, HashesStay, StagesSplit DEF StagesHold, StagesAreReplayed, ReplaysAgree
  <2>9. n <= Len(plan)
    <3>1. plan \in Seq(Stage)
      BY <1>3, StagedAssumption DEF Manifest
    <3> QED BY <1>1, <2>3, <3>1
  <2> HIDE DEF n
  <2> QED BY <1>3, <1>5, <2>3, <2>5, <2>6, <2>7, <2>8, <2>9 DEF StagesInvariant, StagesAreReplayed, BeforeHandover
<1>6. CASE Selection # {}
  <2>0. PICK choice \in Selection :
          \E c \in IF ThisStage.rerank THEN Reranked(choice) ELSE {choice} :
            stages' = Append(stages, HandedRow(c))
    BY <1>6 DEF HandOver, HandedRow
  <2>1. PICK c \in IF ThisStage.rerank THEN Reranked(choice) ELSE {choice} :
          stages' = Append(stages, HandedRow(c))
    BY <2>0
  <2>2. CandidateIsSound(c, rows[1].module, ThisStage.require)
    <3>1. CASE ThisStage.rerank
      BY <1>1, <1>2, <1>3, <2>1, <3>1, PlanIsTyped, RerankedIsSound
    <3>2. CASE ~ ThisStage.rerank
      BY <1>1, <1>2, <1>3, <2>1, <3>2, PlanIsTyped, SelectionIsSound
    <3> QED BY <3>1, <3>2
  <2>3. pc' = "handed"
    BY <1>6 DEF HandOver
  <2> QED BY <1>5, <2>1, <2>2, <2>3
<1>7. CASE Selection = {}
  BY <1>4, <1>7 DEF HandOver
<1> QED BY <1>6, <1>7

-----------------------------------------------------------------------------
(* The next stage, the replay and every command.                           *)

\* The last stage.
LEMMA LastIsStage ==
  ASSUME stages \in Seq(StageRow), stages # <<>>
  PROVE  /\ Last(stages) = stages[Len(stages)] /\ Len(stages) \in DOMAIN stages
         /\ Len(stages) \in Nat \ {0} /\ DOMAIN stages = 1 .. Len(stages)
         /\ Last(stages).module \in IR
         /\ \A k \in DOMAIN stages : stages[k].module \in IR /\ stages[k].pipeline \in Seq(Batches)
<1>1. Len(stages) \in Nat \ {0} /\ DOMAIN stages = 1 .. Len(stages) /\ Last(stages) = stages[Len(stages)]
  BY DEF Last
<1>2. \A k \in DOMAIN stages : stages[k] \in StageRow
  BY <1>1
<1> QED BY <1>1, <1>2 DEF StageRow

\* The next search has not begun.
LEMMA NextStageIsFresh ==
  ASSUME SearchInvariant, StagesInvariant, NextStage
  PROVE  Fresh' /\ StagesInvariant'
<1>1. /\ pc = "handed" /\ Len(stages) < Len(plan) /\ stages # <<>>
      /\ plan \in Plans /\ stages \in Seq(StageRow)
  BY StagesSplit DEF NextStage, StagesHold
<1>2. Last(stages).module \in IR /\ ThisStage.mode \in Modes
  BY <1>1, LastIsStage, PlanIsTyped
<1>3. /\ mode' \in SearchModes /\ limits' \in Limits \cup {NoLimits}
      /\ rows' = RootRow(Last(stages).module) /\ pc' = "round"
      /\ world' = world /\ UNCHANGED <<plan, stages, replay>> /\ verified' = ""
  BY <1>2, LegacyAssumption DEF NextStage, SearchModes
<1>4. Fresh'
  <2>1. world \in DOMAIN Worlds
    BY DEF SearchInvariant, CallIsTyped
  <2> QED BY <1>2, <1>3, <2>1 DEF Fresh, NextStage
<1>5. ~ HashesCollide => verified' # "mismatch" /\ replay' # "mismatch"
  BY <1>3, StagesSplit DEF StagesHold, StagesAreReplayed, ReplaysAgree
<1>6. StagesHold'
  BY <1>3, <1>5, HeldStays, StagesSplit
<1>7. (rows[1].module = Last(stages).module)'
  <2>1. rows'[1].module = Last(stages).module
    BY <1>2, <1>3, RootIsRow
  <2> QED BY <1>3, <2>1 DEF Last
<1> QED BY <1>3, <1>4, <1>6, <1>7 DEF StagesInvariant, StagesHold

\* The pipelines of all stages lead from the first input to the last module.
LEMMA StagesLead ==
  ASSUME StagesInvariant, stages # <<>>, ~ HashesCollide
  PROVE  Walk(stages[1].input, FlattenSeq([k \in DOMAIN stages |-> stages[k].pipeline])) = Last(stages).module
<1>1. stages \in Seq(StageRow) /\ Len(stages) \in Nat \ {0} /\ DOMAIN stages = 1 .. Len(stages)
  BY LastIsStage, StagesSplit DEF StagesHold
<1> DEFINE s == [k \in DOMAIN stages |-> stages[k].pipeline]
           module == [k \in 0 .. Len(stages) |-> IF k = 0 THEN stages[1].input ELSE stages[k].module]
<1>2. s \in Seq(Seq(Batches)) /\ Len(s) = Len(stages)
  BY <1>1, LastIsStage
<1>3. \A k \in 1 .. Len(stages) : s[k] = stages[k].pipeline /\ module[k] = stages[k].module
  BY <1>1
<1>4. \A k \in 1 .. Len(stages) : module[k - 1] = stages[k].input
  <2> SUFFICES ASSUME NEW k \in 1 .. Len(stages) PROVE module[k - 1] = stages[k].input
    OBVIOUS
  <2>1. CASE k = 1
    BY <1>1, <2>1
  <2>2. CASE k # 1
    <3>1. k \in DOMAIN stages /\ k > 1 /\ k - 1 \in 1 .. Len(stages)
      BY <1>1, <2>2
    <3>2. stages[k].input = stages[k - 1].module
      BY <3>1, StagesSplit DEF StagesHold, StagesAreReplayed, HandoversAreEarned
    <3> QED BY <1>3, <3>1, <3>2
  <2> QED BY <2>1, <2>2
<1>5. module[0] = stages[1].input /\ module[Len(stages)] = Last(stages).module
  <2>1. Last(stages) = stages[Len(stages)]
    BY DEF Last
  <2>2. Len(stages) \in 1 .. Len(stages) /\ 0 \in 0 .. Len(stages)
    BY <1>1
  <2> QED BY <1>3, <2>1, <2>2
<1> HIDE DEF s, module
<1>6. \A k \in 1 .. Len(s) : Walk(module[k - 1], s[k]) = module[k]
  <2> SUFFICES ASSUME NEW k \in 1 .. Len(s) PROVE Walk(module[k - 1], s[k]) = module[k]
    OBVIOUS
  <2>1. k \in DOMAIN stages /\ k \in 1 .. Len(stages)
    BY <1>1, <1>2
  <2>2. Walk(stages[k].input, stages[k].pipeline) = stages[k].module
    BY <2>1, StagesSplit DEF StagesHold, Made
  <2> QED BY <1>3, <1>4, <2>1, <2>2
<1>7. Len(s) # 0
  BY <1>1, <1>2
<1>8. Walk(module[0], FlattenSeq(s)) = module[Len(s)]
  BY <1>2, <1>6, <1>7, FlattenLeads
<1> QED BY <1>2, <1>5, <1>8 DEF s

\* All stages are replayed.
LEMMA ReplayKeepsStages ==
  ASSUME SearchInvariant, StagesInvariant, ReplayStages
  PROVE  StagesInvariant'
<1> DEFINE pipeline == FlattenSeq([k \in DOMAIN stages |-> stages[k].pipeline])
<1>1. /\ pc = "handed" /\ pc' = "staged" /\ stages # <<>>
      /\ UNCHANGED <<world, rows, selected, plan, stages, verified>>
      /\ replay' \in {IF e = "equal" THEN "success" ELSE "mismatch" :
                        e \in Equivalence(Walk(stages[1].input, pipeline), Last(stages).module)} \cup {"failed"}
  BY StagesSplit DEF ReplayStages, runVars, searchVars
<1>2. ~ HashesCollide => Walk(stages[1].input, pipeline) = Last(stages).module
  BY <1>1, StagesLead
<1> HIDE DEF pipeline
<1>3. ~ HashesCollide => verified' # "mismatch" /\ replay' # "mismatch"
  <2> SUFFICES ASSUME ~ HashesCollide PROVE verified' # "mismatch" /\ replay' # "mismatch"
    OBVIOUS
  <2>1. verified' # "mismatch"
    BY <1>1, StagesSplit DEF StagesHold, StagesAreReplayed, ReplaysAgree
  <2>2. replay' \in {"success", "failed"}
    BY <1>1, <1>2 DEF Equivalence
  <2> QED BY <2>1, <2>2
<1>4. StagesHold'
  BY <1>1, <1>3, HeldStays, StagesSplit
<1> QED BY <1>1, <1>4 DEF StagesInvariant, StagesHold, BeforeHandover

\* Every step of optimize_staged keeps the invariants.
LEMMA StageStepKeeps ==
  ASSUME SearchInvariant, StagesInvariant, StagedNext
  PROVE  SearchInvariant' /\ StagesInvariant'
BY StageKeepsSearch, VerifyKeepsStages, HandOverKeepsStages, ReplayKeepsStages, NextStageIsFresh,
   FreshIsSoundNext DEF StagedNext

\* Every step of a comparison does.
LEMMA BaselinesKeepSearch ==
  ASSUME SearchInvariant, BaselinesNext
  PROVE  SearchInvariant'
<1>1. /\ ~ Searching' /\ ~ Searching /\ HasReason' = HasReason /\ HasReason \subseteq Rows
      /\ UNCHANGED <<world, mode, limits, rows, frontier, children, round, queue, pending, expanded>>
  BY BaselinesRest DEF Searching, HasReason, SearchInvariant, CallIsTyped
<1> QED BY <1>1, RestKeeps

\* So does doing nothing.
LEMMA NothingChanges ==
  ASSUME SearchInvariant, StagesInvariant, UNCHANGED commandVars
  PROVE  SearchInvariant' /\ StagesInvariant'
<1>1. UNCHANGED <<world, mode, limits, rows, frontier, children, round, queue, pending, expanded, leaf, pc, selected,
                  plan, stages, verified, replay>>
  BY DEF commandVars, explorerVars, stagedVars, vars, runVars, searchVars
<1>2. Rows' = Rows /\ Compiler' = Compiler /\ Searching' = Searching /\ HasReason' = HasReason
      /\ ByStates' = ByStates /\ Parent' = Parent /\ BeforeHandover' = BeforeHandover
  BY <1>1 DEF Rows, Compiler, Searching, HasReason, ByStates, Parent, BeforeHandover
<1>3. RowsInvariant'
  BY <1>1, RowsStay DEF SearchInvariant
<1>4. LayersAreOrdered'
  BY <1>1, <1>2 DEF SearchInvariant, LayersAreOrdered, Deepest, At
<1>5. CallIsTyped'
  BY <1>1, <1>2 DEF SearchInvariant, CallIsTyped
<1>6. CallIsApplied'
  BY <1>1, <1>2 DEF SearchInvariant, CallIsApplied, Certifiable, Active
<1>7. ~ HashesCollide => verified' # "mismatch" /\ replay' # "mismatch"
  BY <1>1, StagesSplit DEF StagesHold, StagesAreReplayed, ReplaysAgree
<1>8. StagesHold'
  BY <1>1, <1>7, HeldStays, StagesSplit
<1>9. (BeforeHandover /\ stages # <<>> => rows[1].module = Last(stages).module)'
  BY <1>1, <1>2, StagesSplit DEF Last
<1>10. (pc \in {"done", "verified"} => selected \in Rows /\ \A j \in Rows : KeyBefore(selected, j))'
  <2>1. CASE pc \in {"done", "verified"}
    BY <1>1, <2>1, SelectedStays, StagesSplit
  <2>2. CASE pc \notin {"done", "verified"}
    BY <1>1, <2>2
  <2> QED BY <2>1, <2>2
<1>11. (pc = "handed" => stages # <<>>)'
  BY <1>1, StagesSplit
<1>12. SearchInvariant'
  BY <1>1, <1>3, <1>4, <1>5, <1>6, CapStays DEF SearchInvariant
<1>13. StagesInvariant'
  BY <1>8, <1>9, <1>10, <1>11 DEF StagesInvariant, StagesHold
<1> QED BY <1>12, <1>13

\* The invariants hold at first.
LEMMA CommandInitIsSound ==
  ASSUME CommandInit
  PROVE  SearchInvariant /\ StagesInvariant
<1>1. Init /\ StagedInit
  BY DEF CommandInit, ExplorerInit
<1>2. SearchInvariant
  BY <1>1, InitIsFresh, FreshIsSound
<1>3. stages = <<>> /\ plan \in Plans /\ verified = "" /\ replay = "" /\ pc = "round"
  BY <1>1 DEF StagedInit, Init
<1>4. stages \in Seq(StageRow) /\ Len(stages) = 0 /\ DOMAIN stages = {}
  <2>1. <<>> \in Seq(StageRow) /\ Len(<<>>) = 0 /\ DOMAIN <<>> = {}
    OBVIOUS
  <2> QED BY <1>3, <2>1
<1>5. plan \in Seq(Stage)
  BY <1>3, StagedAssumption DEF Manifest
<1>6. Len(stages) <= Len(plan)
  BY <1>4, <1>5
<1> QED BY <1>2, <1>3, <1>4, <1>6 DEF StagesInvariant, StagesAreReplayed, ReplaysAgree, HandoversAreEarned

\* Every command keeps them.
LEMMA CommandStepKeeps ==
  ASSUME SearchInvariant, StagesInvariant, [CommandNext]_commandVars
  PROVE  SearchInvariant' /\ StagesInvariant'
<1>1. CASE Next /\ UNCHANGED stagedVars
  BY <1>1, LegacyStepKeeps, LegacyStepKeepsStages
<1>2. CASE ExplorerNext /\ UNCHANGED stagedVars
  BY <1>2, ExplorerStepKeeps, ExplorerStepKeepsStages
<1>3. CASE StagedNext
  BY <1>3, StageStepKeeps
<1>4. CASE BaselinesNext /\ UNCHANGED stagedVars
  BY <1>4, BaselinesKeepSearch, BaselinesKeepStages
<1>5. CASE UNCHANGED commandVars
  BY <1>5, NothingChanges
<1> QED BY <1>1, <1>2, <1>3, <1>4, <1>5 DEF CommandNext

\* The inductive invariants of the searches and of the stages hold for every world,
\* mode, limit and manifest.
THEOREM SearchInvariantHolds == CommandSpec => [](SearchInvariant /\ StagesInvariant)
<1>1. CommandInit => SearchInvariant /\ StagesInvariant
  BY CommandInitIsSound
<1>2. SearchInvariant /\ StagesInvariant /\ [CommandNext]_commandVars => (SearchInvariant /\ StagesInvariant)'
  BY CommandStepKeeps
<1> QED BY <1>1, <1>2, PTL DEF CommandSpec

\* What optimize_staged hands from stage to stage is earned, and no replay of a stage
\* or of all of them disagrees unless two modules have one hash.
THEOREM StagesAlwaysReplayed == CommandSpec => []StagesAreReplayed
<1>1. SearchInvariant /\ StagesInvariant => StagesAreReplayed
  BY DEF StagesInvariant
<1> QED BY <1>1, SearchInvariantHolds, PTL

-----------------------------------------------------------------------------
(* The paths.                                                              *)

\* The rows have their types.
LEMMA RowsAreWellFormed ==
  ASSUME SearchInvariant
  PROVE  TypeOK
<1>1. ASSUME NEW i \in Rows
      PROVE  /\ rows[i].module \in IR /\ rows[i].copyOf < i /\ rows[i].depth \in 0..MaxRounds
             /\ rows[i].path.length <= rows[i].depth
             /\ rows[i].copyOf = 0 => Known(rows[i].module) = {i}
  <2>1. /\ rows[i].module \in IR /\ rows[i].copyOf < i /\ rows[i].depth \in 0..MaxRounds
        /\ rows[i].path.length <= rows[i].depth
    BY RowsAreSound, RowIsTyped
  <2>2. ASSUME rows[i].copyOf = 0 PROVE Known(rows[i].module) = {i}
    BY <2>2 DEF Known, SearchInvariant, RowsInvariant, OriginalsDiffer, Original
  <2> QED BY <2>1, <2>2
<1>2. Budgeted \/ Exact => StateCount <= MaxStates
  BY DEF SearchInvariant, CapIsKept
<1>3. /\ expanded \cup HasReason \subseteq Rows
      /\ round \in 0..MaxRounds /\ Len(frontier) <= Len(rows)
      /\ pending \subseteq Batches
  BY DEF SearchInvariant, CallIsTyped, LayersAreOrdered
<1> QED BY <1>1, <1>2, <1>3 DEF TypeOK

\* The rows are what PathsAreWalked says.
LEMMA RowsArePaths ==
  ASSUME SearchInvariant
  PROVE  PathsAreWalked
<1>1. \A i \in Rows : Walk(rows[1].module, rows[i].first) = rows[i].module
  BY DEF SearchInvariant, RowsInvariant, FirstsLead
<1>2. rows[1].path = RootPath
  BY DEF SearchInvariant, RowsInvariant, RowsAreRecorded
<1>3. ASSUME NEW i \in Rows \ {1}
      PROVE  LET p == rows[rows[i].parent]
                 out == Compiler.apply[p.module][rows[i].batch]
             IN /\ ChosenPath(i) = rows[i].path.sequence
                /\ IF mode = "explore_states" THEN Compiler.hash[out] # Compiler.hash[p.module]
                   ELSE rows[i].batch \in Certifiable(p.module)
                /\ rows[i].path = ExtendPath(p.path, rows[i].batch)
                /\ Compiler.hash[out] = Compiler.hash[rows[i].module]
                /\ ~ Exact => out = rows[i].module
  <2>1. Follows(rows[i], rows[rows[i].parent])
    BY DEF SearchInvariant, RowsInvariant, RowsFollow
  <2>2. ChosenPath(i) = rows[i].path.sequence
    BY ChosenIsRecorded DEF SearchInvariant, RowsInvariant
  <2> QED BY <2>1, <2>2 DEF Follows, Leads, Certifiable, Exact
<1> QED BY <1>1, <1>2, <1>3, RowsAreWellFormed DEF PathsAreWalked

\* The path that is compared and reported is the one that _chosen_path_rows writes, and
\* it leads to the module of its row, however often better paths replaced older ones.
THEOREM PathsAlwaysWalked == CommandSpec => []PathsAreWalked
<1>1. SearchInvariant /\ StagesInvariant => PathsAreWalked
  BY RowsArePaths
<1> QED BY <1>1, SearchInvariantHolds, PTL

-----------------------------------------------------------------------------
(* The reports. What an exact search has not dropped.                      *)

\* auto is chosen before anything else.
Untried == mode = "auto" => ~ stop /\ round = 0 /\ frontier = <<1>>

\* What was executed stays executed.
LEMMA ExecutedStays ==
  ASSUME world' = world, Rows \subseteq Rows', lost \subseteq lost', expanded \subseteq expanded',
         \A i \in Rows : rows'[i].module = rows[i].module /\ rows'[i].copyOf = rows[i].copyOf
  PROVE  /\ \A i \in Rows : \A b : Executed(i, b) => Executed(i, b)'
         /\ \A i \in Rows : Handled(i) => Handled(i)'
<1>1. Compiler' = Compiler
  BY DEF Compiler
<1>2. ASSUME NEW m PROVE Known(m) \subseteq Known(m)'
  BY <1>1 DEF Known
<1>3. ASSUME NEW i \in Rows, NEW b, Executed(i, b) PROVE Executed(i, b)'
  <2>1. Compiler.apply[rows[i].module][b]' = Compiler.apply[rows[i].module][b]
    BY <1>1
  <2>2. ASSUME NEW n, n = Compiler.apply[rows[i].module][b], Known(n) # {} PROVE Executed(i, b)'
    <3>1. Known(Compiler.apply[rows[i].module][b])' = Known(n)'
      BY <2>1, <2>2 DEF Known
    <3> QED BY <1>2, <2>2, <3>1 DEF Executed
  <2>3. <<i, b>> \in lost => Executed(i, b)'
    BY DEF Executed
  <2> QED BY <1>3, <2>2, <2>3 DEF Executed
<1>4. ASSUME NEW i \in Rows, Handled(i) PROVE Handled(i)'
  <2>1. Certifiable(rows[i].module)' = Certifiable(rows[i].module)
    BY <1>1 DEF Certifiable
  <2> QED BY <1>3, <1>4, <2>1 DEF Handled
<1> QED BY <1>3, <1>4

\* Nothing is dropped by a step that is neither a search's nor its beginning.
LEMMA RestDropsNothing ==
  ASSUME SearchInvariant, NothingIsDropped, Untried,
         UNCHANGED <<world, mode, rows, lost, expanded, reasons, stop, round, frontier>>,
         ~ Searching, ~ Searching',
         pc' \in {"finish"} \cup AfterSearch => pc \in {"finish"} \cup AfterSearch
  PROVE  NothingIsDropped' /\ Untried'
<1>1. /\ Rows' = Rows /\ Exact' = Exact /\ Searching' = Searching /\ pc' \notin {"apply", "layer"}
      /\ AfterSearch' = AfterSearch
  BY DEF Rows, Exact, Searching, AfterSearch
<1>2. \A i \in Rows : Handled(i) => Handled(i)'
  BY <1>1, ExecutedStays
<1>3. Untried'
  BY DEF Untried
<1> QED BY <1>1, <1>2, <1>3 DEF NothingIsDropped

\* A search that has not begun has dropped nothing.
LEMMA FreshDropsNothing == Fresh => NothingIsDropped /\ ReasonsComeLast /\ Untried
<1> SUFFICES ASSUME Fresh PROVE NothingIsDropped /\ ReasonsComeLast /\ Untried
  OBVIOUS
<1>1. PICK m \in IR : rows = RootRow(m)
  BY DEF Fresh
<1>2. Rows = {1} /\ rows[1].depth = 0
  BY <1>1, RootIsRow DEF Rows
<1>3. Range(frontier) = {1}
  BY DEF Fresh, Range
<1>4. ~ Searching /\ round = 0 /\ ~ stop /\ leaf = {} /\ frontier = <<1>> /\ pc = "round"
  BY DEF Fresh, Searching
<1> QED BY <1>2, <1>3, <1>4 DEF NothingIsDropped, ReasonsComeLast, Untried, HasReason, AfterSearch

\* The same, of the next state.
LEMMA FreshDropsNothingNext == Fresh' => NothingIsDropped' /\ ReasonsComeLast' /\ Untried'
BY FreshDropsNothing, PTL

\* auto becomes exact at the root.
LEMMA ChooseAutoModeDrops ==
  ASSUME SearchInvariant, NothingIsDropped, Untried, ChooseAutoMode
  PROVE  NothingIsDropped' /\ Untried'
<1>1. /\ pc = "round" /\ pc' = pc /\ mode = "auto" /\ mode' # "auto" /\ Len(rows) = 1
      /\ UNCHANGED <<rows, stop, round, frontier>>
  BY DEF ChooseAutoMode, searchVars, SearchInvariant, CallIsApplied
<1>2. ~ stop /\ round = 0 /\ frontier = <<1>>
  BY <1>1 DEF Untried
<1>3. Rows' = {1} /\ rows'[1].depth = 0 /\ Range(frontier)' = {1}
  <2>1. Rows = {1} /\ rows[1].depth = 0
    BY <1>1, RowsAreSound DEF SearchInvariant, RowsInvariant, RowsAreRecorded
  <2> QED BY <1>1, <1>2, <2>1 DEF Rows, Range
<1>4. ~ Searching' /\ pc' \notin {"layer", "apply", "finish"} \cup AfterSearch'
  BY <1>1 DEF Searching, AfterSearch
<1> QED BY <1>1, <1>2, <1>3, <1>4 DEF NothingIsDropped, Untried

\* A round takes the whole frontier.
LEMMA StartRoundDrops ==
  ASSUME SearchInvariant, NothingIsDropped, Untried, StartRound
  PROVE  NothingIsDropped' /\ Untried'
<1>1. /\ pc = "round" /\ pc' \in {"finish", "parent"} /\ mode # "auto"
      /\ pc' = "finish" => round = MaxRounds \/ stop \/ Budgeted
      /\ pc' = "parent" => queue' = frontier /\ children' = <<>>
      /\ UNCHANGED <<world, mode, rows, lost, expanded, reasons, stop, round, frontier>>
  BY DEF StartRound, runVars
<1>2. Rows' = Rows /\ Exact' = Exact /\ ~ Searching /\ (Exact => ~ Budgeted) /\ AfterSearch' = AfterSearch
      /\ (Searching' <=> pc' = "parent")
  BY <1>1 DEF Rows, Exact, Searching, Budgeted, AfterSearch
<1>3. \A i \in Rows : Handled(i) => Handled(i)'
  BY <1>1, <1>2, ExecutedStays
<1>4. Untried'
  BY <1>1 DEF Untried
<1>5. \A i \in Rows : ~ ByStates => rows[i].depth <= round
  BY <1>2 DEF SearchInvariant, LayersAreOrdered, Deepest
<1>6. Exact => ~ ByStates
  BY DEF Exact, ByStates
<1>7. CASE pc' = "parent"
  <2>1. Range(queue)' = Range(frontier)
    BY <1>1, <1>7 DEF Range
  <2>2. round \in Nat /\ \A i \in Rows : rows[i].depth \in Nat
    BY RowsAreSound, LegacyAssumption DEF SearchInvariant, CallIsTyped
  <2>3. \A i \in Rows : Exact => rows[i].depth # round + 1
    BY <1>5, <1>6, <2>2
  <2>4. AfterSearch' = AfterSearch /\ pc' \notin {"finish"} \cup AfterSearch
    BY <1>2, <1>7 DEF AfterSearch
  <2> QED BY <1>1, <1>2, <1>3, <1>4, <1>7, <2>1, <2>3, <2>4 DEF NothingIsDropped
<1>8. CASE pc' = "finish"
  BY <1>1, <1>2, <1>3, <1>4, <1>8 DEF NothingIsDropped
<1> QED BY <1>1, <1>7, <1>8

\* The inductive invariant of the reports.
ReportsInvariant == NothingIsDropped /\ ReasonsComeLast /\ Untried /\ ReportsAreTrue

\* What the invariant says within a round.
LEMMA InRound ==
  ASSUME SearchInvariant, NothingIsDropped, Searching, Exact, reasons = {}
  PROVE  /\ ~ stop /\ ~ ByStates /\ round \in Nat /\ ~ Budgeted /\ mode # "auto"
         /\ \A i \in Rows : /\ rows[i].depth \in Nat /\ rows[i].depth <= round + 1
                            /\ rows[i].depth < round => Handled(i)
                            /\ rows[i].depth = round => i \in Range(queue) \/ Handled(i)
                            /\ rows[i].depth = round + 1 => i \in Range(children)
         /\ pc = "layer" => queue = <<>>
         /\ pc = "apply" => \A b \in Certifiable(rows[Parent].module) \ pending : Executed(Parent, b)
<1>1. ~ ByStates /\ ~ Budgeted /\ mode # "auto"
  BY DEF Exact, ByStates, Budgeted
<1>2. round \in Nat
  BY LegacyAssumption DEF SearchInvariant, CallIsTyped
<1>3. \A i \in Rows : rows[i].depth \in Nat /\ rows[i].depth <= round + 1
  BY <1>1, RowsAreSound DEF SearchInvariant, LayersAreOrdered, Deepest
<1> QED BY <1>1, <1>2, <1>3 DEF NothingIsDropped

\* What a step within a round must keep.
LEMMA RoundDropsNothing ==
  ASSUME Searching', round' = round, mode' # "auto",
         Exact' /\ reasons' = {} =>
           /\ ~ stop'
           /\ \A i \in Rows' : /\ rows'[i].depth < round => Handled(i)'
                               /\ rows'[i].depth = round => i \in Range(queue') \/ Handled(i)'
                               /\ rows'[i].depth = round + 1 => i \in Range(children')
           /\ pc' = "layer" => queue' = <<>>
           /\ pc' = "apply" => (\A b \in Certifiable(rows[Parent].module) \ pending : Executed(Parent, b))'
  PROVE  NothingIsDropped' /\ Untried'
<1>1. Untried'
  BY DEF Untried
<1>2. Range(queue)' = Range(queue') /\ Range(children)' = Range(children')
  BY DEF Range
<1>3. pc' \notin {"finish"} \cup AfterSearch'
  BY DEF Searching, AfterSearch
<1> QED BY <1>1, <1>2, <1>3 DEF NothingIsDropped

\* A batch that opt loses is recorded.
LEMMA ApplyFailsDrops ==
  ASSUME SearchInvariant, NothingIsDropped, NEW b \in pending, ApplyFails(b)
  PROVE  NothingIsDropped' /\ Untried'
<1>1. /\ pc = "apply" /\ pc' = pc /\ pending' = pending \ {b}
      /\ lost' = lost \cup {<<Parent, b>>}
      /\ UNCHANGED <<world, mode, rows, expanded, reasons, stop, round, frontier, children, queue>>
  BY DEF ApplyFails, IsNext, runVars
<1>2. /\ Rows' = Rows /\ Searching /\ Searching' /\ Exact' = Exact /\ Parent' = Parent /\ Parent \in Rows
      /\ mode # "auto"
  BY <1>1, ApplyFacts DEF Rows, Searching, Exact, Parent
<1>3. /\ \A i \in Rows : Handled(i) => Handled(i)'
      /\ \A i \in Rows : \A c : Executed(i, c) => Executed(i, c)'
  BY <1>1, <1>2, ExecutedStays
<1>4. Executed(Parent, b)'
  BY <1>1, <1>2 DEF Executed
<1>5. Certifiable(rows[Parent].module)' = Certifiable(rows[Parent].module)
  BY <1>1, <1>2 DEF Certifiable, Compiler
<1>6. ASSUME Exact, reasons = {}, NEW c \in Certifiable(rows[Parent].module) \ pending'
      PROVE  Executed(Parent, c)'
  BY <1>1, <1>2, <1>3, <1>4, <1>6, InRound
<1> QED BY <1>1, <1>2, <1>3, <1>5, <1>6, InRound, RoundDropsNothing

\* A parent that is finished and not dropped.
LEMMA ParentEnds ==
  ASSUME SearchInvariant, NothingIsDropped, Searching, queue # <<>>, queue' = Tail(queue),
         pc' = "parent", mode # "auto", expanded \subseteq expanded', reasons \subseteq reasons',
         UNCHANGED <<world, mode, rows, round, frontier, children, lost>>,
         NEW p \in Rows, p = Parent,
         Exact /\ reasons' = {} => stop' = stop /\ Handled(p)'
  PROVE  NothingIsDropped' /\ Untried'
<1>1. Searching' /\ Rows' = Rows /\ Exact' = Exact
  BY DEF Searching, Rows, Exact
<1>2. \A i \in Rows : Handled(i) => Handled(i)'
  BY <1>1, ExecutedStays
<1>3. Range(queue) = {p} \cup Range(queue')
  BY HeadIsListed DEF SearchInvariant, CallIsTyped, Parent
<1>5. ASSUME Exact, reasons' = {}
      PROVE  /\ ~ stop'
             /\ \A i \in Rows' : /\ rows'[i].depth < round => Handled(i)'
                                 /\ rows'[i].depth = round => i \in Range(queue') \/ Handled(i)'
                                 /\ rows'[i].depth = round + 1 => i \in Range(children')
  <2>1. reasons = {} /\ stop' = stop /\ Handled(p)'
    BY <1>5
  <2>2. /\ ~ stop
        /\ \A i \in Rows : /\ rows[i].depth < round => Handled(i)
                           /\ rows[i].depth = round => i \in Range(queue) \/ Handled(i)
                           /\ rows[i].depth = round + 1 => i \in Range(children)
    BY <1>5, <2>1, InRound
  <2>3. ASSUME NEW i \in Rows, rows[i].depth = round PROVE i \in Range(queue') \/ Handled(i)'
    <3>1. CASE i = p
      BY <2>1, <3>1
    <3>2. CASE i # p
      BY <1>2, <1>3, <2>2, <2>3, <3>2
    <3> QED BY <3>1, <3>2
  <2> QED BY <1>1, <1>2, <2>1, <2>2, <2>3
<1> QED BY <1>1, <1>5, RoundDropsNothing

\* A parent is done.
LEMMA ParentDoneDrops ==
  ASSUME SearchInvariant, NothingIsDropped, ParentDone
  PROVE  NothingIsDropped' /\ Untried'
<1>1. /\ pc = "apply" /\ pc' = "parent" /\ pending = {} /\ queue' = Tail(queue)
      /\ UNCHANGED <<world, mode, rows, lost, expanded, reasons, stop, round, frontier, children>>
  BY DEF ParentDone, runVars
<1>2. Searching /\ queue # <<>> /\ Parent \in Rows /\ Parent \in expanded /\ mode # "auto"
  BY <1>1, ApplyFacts
<1>3. PICK p \in Rows : p = Parent
  BY <1>2
<1>4. Exact /\ reasons = {} => Handled(p)
  BY <1>1, <1>2, <1>3, InRound DEF Handled
<1>5. Rows' = Rows
  BY <1>1 DEF Rows
<1>6. Exact /\ reasons' = {} => Handled(p)'
  BY <1>1, <1>4, <1>5, ExecutedStays
<1> QED BY <1>1, <1>2, <1>3, <1>6, ParentEnds

\* A parent without a gap is expanded by all its batches.
LEMMA ExactParentDrops ==
  ASSUME SearchInvariant, NothingIsDropped, ExactParent
  PROVE  NothingIsDropped' /\ Untried'
<1>1. /\ pc = "parent" /\ queue # <<>> /\ expanded' = expanded \cup {Parent}
      /\ UNCHANGED <<world, mode, rows, lost, children, round, frontier>>
  BY DEF ExactParent, Build, runVars
<1>2. Searching /\ Parent \in Rows /\ mode # "auto" /\ Rows' = Rows /\ Exact' = Exact
  BY <1>1, ParentFacts DEF Rows, Exact
<1>3. PICK e \in ExactEvidence(rows[Parent].module) :
        /\ reasons' = reasons \cup (IF e.gap THEN {"evidence"} ELSE {})
        /\ IF e.gap /\ mode = "exact"
           THEN stop' = TRUE /\ Leaf("exact_incomplete") /\ pc' = "layer" /\ UNCHANGED <<queue, pending>>
           ELSE ExpandBy(e.certified) /\ UNCHANGED stop
  BY DEF ExactParent
<1>4. PICK p \in Rows : p = Parent
  BY <1>2
<1>5. \A i \in Rows : Handled(i) => Handled(i)'
  BY <1>1, <1>2, ExecutedStays
<1>6. CASE e.gap
  <2>1. reasons' # {} /\ pc' \in {"layer", "apply", "parent"}
    BY <1>1, <1>3, <1>6 DEF ExpandBy
  <2>2. Searching'
    BY <2>1 DEF Searching
  <2> QED BY <1>1, <1>2, <2>1, <2>2, RoundDropsNothing
<1>7. CASE ~ e.gap
  <2>1. reasons' = reasons /\ ExpandBy(e.certified) /\ stop' = stop
        /\ e.certified = Certifiable(rows[p].module)
    BY <1>3, <1>4, <1>7 DEF ExactEvidence
  <2>2. CASE e.certified = {}
    <3>1. Handled(p)'
      <4>1. Certifiable(rows[p].module)' = {}
        BY <1>1, <2>1, <2>2 DEF Certifiable, Compiler
      <4> QED BY <1>1, <1>4, <4>1 DEF Handled
    <3>2. queue' = Tail(queue) /\ pc' = "parent"
      BY <1>1, <2>1, <2>2 DEF ExpandBy
    <3> QED BY <1>1, <1>2, <1>4, <2>1, <3>1, <3>2, ParentEnds
  <2>3. CASE e.certified # {}
    <3>1. pc' = "apply" /\ queue' = queue /\ pending' = e.certified
      BY <2>1, <2>3 DEF ExpandBy
    <3>2. Searching' /\ Parent' = Parent
      BY <3>1 DEF Searching, Parent
    <3>3. Certifiable(rows[Parent].module)' = e.certified
      BY <1>1, <1>4, <2>1, <3>2 DEF Certifiable, Compiler
    <3> QED BY <1>1, <1>2, <1>5, <2>1, <3>1, <3>2, <3>3, InRound, RoundDropsNothing
  <2> QED BY <2>2, <2>3
<1> QED BY <1>6, <1>7

\* A step of a round in which a reason is given, or of another search, need say nothing.
LEMMA ReasonIsGiven ==
  ASSUME Searching', round' = round, mode' # "auto", Exact' => reasons' # {}
  PROVE  NothingIsDropped' /\ Untried'
BY RoundDropsNothing

\* A batch whose child is known was executed.
LEMMA KnownIsExecuted ==
  ASSUME world' = world, NEW p \in Rows, NEW b, NEW k \in Rows', rows'[p].module = rows[p].module,
         rows'[k].copyOf = 0,
         Compiler.hash[rows'[k].module] = Compiler.hash[Compiler.apply[rows[p].module][b]]
  PROVE  Executed(p, b)'
<1>1. Compiler' = Compiler
  BY DEF Compiler
<1>2. k \in Known(Compiler.apply[rows[p].module][b])'
  BY <1>1 DEF Known
<1> QED BY <1>2 DEF Executed

\* A batch of an exact search is applied.
LEMMA BatchDrops ==
  ASSUME SearchInvariant, NothingIsDropped, pc = "apply", pc' = pc, NEW b \in pending, pending' = pending \ {b},
         UNCHANGED <<world, mode, lost, expanded, reasons, stop, round, frontier, queue>>, Exact,
         Rows \subseteq Rows',
         \A i \in Rows : /\ rows'[i].module = rows[i].module /\ rows'[i].copyOf = rows[i].copyOf
                         /\ rows'[i].depth = rows[i].depth,
         Range(children) \subseteq Range(children'),
         \A i \in Rows' \ Rows : rows'[i].depth = round + 1 /\ i \in Range(children'),
         NEW k \in Rows', rows'[k].copyOf = 0,
         Compiler.hash[rows'[k].module] = Compiler.hash[Child(b)]
  PROVE  NothingIsDropped' /\ Untried'
<1>1. Searching /\ Searching' /\ Parent \in Rows /\ mode # "auto" /\ Parent' = Parent /\ Exact' = Exact
  BY ApplyFacts DEF Searching, Parent, Exact
<1>2. /\ \A i \in Rows : Handled(i) => Handled(i)'
      /\ \A i \in Rows : \A c : Executed(i, c) => Executed(i, c)'
  BY ExecutedStays
<1>3. PICK p \in Rows : p = Parent
  BY <1>1
<1>4. Executed(p, b)'
  BY <1>3, KnownIsExecuted DEF Child
<1>5. Certifiable(rows[p].module)' = Certifiable(rows[p].module)
  BY DEF Certifiable, Compiler
<1>6. ASSUME reasons = {}, NEW c \in Certifiable(rows[p].module) \ pending'
      PROVE  Executed(p, c)'
  BY <1>1, <1>2, <1>3, <1>4, <1>6, InRound
<1>7. Exact' /\ reasons' = {} => (\A c \in Certifiable(rows[Parent].module) \ pending : Executed(Parent, c))'
  BY <1>1, <1>3, <1>5, <1>6
<1>8. ASSUME reasons = {}, NEW i \in Rows'
      PROVE  /\ rows'[i].depth < round => Handled(i)'
             /\ rows'[i].depth = round => i \in Range(queue') \/ Handled(i)'
             /\ rows'[i].depth = round + 1 => i \in Range(children')
  <2>0. round \in Nat
    BY <1>1, <1>8, InRound
  <2>1. CASE i \in Rows
    BY <1>1, <1>2, <1>8, <2>1, InRound
  <2>2. CASE i \notin Rows
    BY <2>0, <2>2
  <2> QED BY <2>1, <2>2
<1>9. reasons = {} => ~ stop'
  BY <1>1, InRound
<1> QED BY <1>1, <1>7, <1>8, <1>9, RoundDropsNothing

\* A new state is a child of this layer.
LEMMA NewStateDrops ==
  ASSUME SearchInvariant, NothingIsDropped, NEW b \in pending, NewState(b), Exact
  PROVE  NothingIsDropped' /\ Untried'
<1> DEFINE r == Row(b, 0, round + 1)
           n == Len(rows) + 1
<1>1. /\ pc = "apply" /\ pc' = pc /\ pending' = pending \ {b} /\ ~ ByStates
      /\ UNCHANGED <<world, mode, lost, expanded, reasons, stop, round, frontier, queue>>
      /\ rows' = Append(rows, r) /\ children' = Append(children, n)
  BY DEF NewState, IsNext, runVars, Exact, ByStates
<1>2. round + 1 = rows[Parent].depth + 1 /\ 0 \in 0 .. Len(rows)
  BY <1>1, ChildIsTyped, RowsAreSound
<1>3. r \in StateRow /\ r.module = Child(b) /\ r.copyOf = 0 /\ r.depth = round + 1
  BY <1>1, <1>2, RowFits DEF Fits
<1> HIDE DEF r
<1>4. /\ Rows \subseteq Rows' /\ n \in Rows' /\ rows'[n] = r
      /\ \A i \in Rows : rows'[i] = rows[i]
      /\ \A i \in Rows' : i \in Rows \/ i = n
  BY <1>1, <1>3, RowIsAppended DEF SearchInvariant, RowsInvariant
<1>5. n \in Nat /\ children \in Seq(Nat)
  BY RowsAreSound DEF SearchInvariant, CallIsTyped
<1>6. Range(children') = Range(children) \cup {n}
  BY <1>1, <1>5, AppendIsListed
<1> HIDE DEF n
<1> QED BY <1>1, <1>3, <1>4, <1>6, BatchDrops

\* A duplicate was executed.
LEMMA ExactDuplicateDrops ==
  ASSUME SearchInvariant, NothingIsDropped, NEW b \in pending, ExactDuplicate(b)
  PROVE  NothingIsDropped' /\ Untried'
<1>1. /\ pc = "apply" /\ pc' = pc /\ pending' = pending \ {b} /\ Exact
      /\ UNCHANGED <<world, mode, lost, expanded, reasons, stop, round, frontier, queue, children>>
  BY DEF ExactDuplicate, IsNext, runVars
<1>2. PICK k \in Known(Child(b)) : TRUE
  BY DEF ExactDuplicate
<1>3. /\ Rows' = Rows
      /\ \A j \in Rows : /\ rows'[j].module = rows[j].module /\ rows'[j].copyOf = rows[j].copyOf
                         /\ rows'[j].depth = rows[j].depth
  BY DuplicateLeavesRows
<1>4. k \in Rows' /\ rows'[k].copyOf = 0 /\ Compiler.hash[rows'[k].module] = Compiler.hash[Child(b)]
  BY <1>2, <1>3 DEF Known
<1> QED BY <1>1, <1>3, <1>4, BatchDrops

\* Nothing is said of other searches.
LEMMA OtherSearchDrops ==
  ASSUME ~ Exact', mode' # "auto"
  PROVE  NothingIsDropped' /\ Untried'
BY DEF NothingIsDropped, Untried

\* A layer is done.
LEMMA LayerDoneDrops ==
  ASSUME SearchInvariant, NothingIsDropped, LayerDone
  PROVE  NothingIsDropped' /\ Untried'
<1>1. /\ pc = "parent" /\ pc' = "layer" /\ queue = <<>>
      /\ UNCHANGED <<world, mode, rows, lost, expanded, reasons, stop, round, frontier, queue, children>>
  BY DEF LayerDone, runVars, searchVars
<1>2. Searching /\ Searching' /\ Rows' = Rows /\ Exact' = Exact /\ mode # "auto"
  BY <1>1 DEF Searching, Rows, Exact, SearchInvariant, CallIsApplied
<1>3. \A i \in Rows : Handled(i) => Handled(i)'
  BY <1>1, <1>2, ExecutedStays
<1> QED BY <1>1, <1>2, <1>3, InRound, RoundDropsNothing

\* The next frontier is all children.
LEMMA EndRoundDrops ==
  ASSUME SearchInvariant, NothingIsDropped, EndRound
  PROVE  NothingIsDropped' /\ Untried'
<1>1. /\ pc = "layer" /\ pc' = "round" /\ frontier' \in Beam /\ round' = round + 1 /\ queue' = <<>>
      /\ UNCHANGED <<world, mode, rows, lost, children, expanded, reasons, stop>>
  BY DEF EndRound, runVars, searchVars
<1>2. Searching /\ ~ Searching' /\ Rows' = Rows /\ Exact' = Exact /\ mode # "auto"
  BY <1>1 DEF Searching, Rows, Exact, SearchInvariant, CallIsApplied
<1>3. \A i \in Rows : Handled(i) => Handled(i)'
  BY <1>1, <1>2, ExecutedStays
<1>4. Exact => frontier' = children
  BY <1>1 DEF Beam, Exact, Budgeted
<1>5. pc' \notin {"finish", "layer", "apply"} \cup AfterSearch'
  BY <1>1 DEF AfterSearch
<1>6. Untried'
  BY <1>1, <1>2 DEF Untried
<1>7. ASSUME Exact, reasons = {}
      PROVE  /\ ~ stop' /\ round' \in Nat
             /\ \A i \in Rows : rows[i].depth < round + 1 => Handled(i)'
             /\ \A i \in Rows : rows[i].depth = round + 1 => i \in Range(frontier')
  <2>1. /\ ~ stop /\ round \in Nat /\ queue = <<>>
        /\ \A i \in Rows : /\ rows[i].depth \in Nat
                           /\ rows[i].depth < round => Handled(i)
                           /\ rows[i].depth = round => i \in Range(queue) \/ Handled(i)
                           /\ rows[i].depth = round + 1 => i \in Range(children)
    BY <1>1, <1>2, <1>7, InRound
  <2>2. Range(queue) = {}
    BY <2>1 DEF Range
  <2>3. ASSUME NEW i \in Rows, rows[i].depth < round + 1 PROVE Handled(i)'
    <3>1. rows[i].depth < round \/ rows[i].depth = round
      BY <2>1, <2>3
    <3> QED BY <1>3, <2>1, <2>2, <3>1
  <2> QED BY <1>1, <1>4, <1>7, <2>1, <2>3
<1>8. Range(frontier)' = Range(frontier')
  BY DEF Range
<1> QED BY <1>1, <1>2, <1>5, <1>6, <1>7, <1>8 DEF NothingIsDropped

\* Every step of these searches keeps what it says.
LEMMA LegacyStepDrops ==
  ASSUME SearchInvariant, NothingIsDropped, Untried, Next
  PROVE  NothingIsDropped' /\ Untried'
<1>1. CASE ChooseAutoMode
  BY <1>1, ChooseAutoModeDrops
<1>2. CASE StartRound
  BY <1>2, StartRoundDrops
<1>3. CASE ExactParent
  BY <1>3, ExactParentDrops
<1>4. CASE BudgetedParent
  <2>1. ~ Exact' /\ mode' # "auto"
    BY <1>4 DEF BudgetedParent, Budgeted, Exact, runVars
  <2> QED BY <2>1, OtherSearchDrops
<1>5. ASSUME NEW b \in pending, ApplyBatch(b) PROVE NothingIsDropped' /\ Untried'
  <2>1. CASE ApplyFails(b)
    BY <2>1, ApplyFailsDrops
  <2>2. CASE NewState(b)
    <3>1. CASE Exact
      BY <2>2, <3>1, NewStateDrops
    <3>2. CASE ~ Exact
      <4>1. ~ Exact' /\ mode' # "auto"
        BY <2>2, <3>2 DEF NewState, Budgeted, Exact, runVars
      <4> QED BY <4>1, OtherSearchDrops
    <3> QED BY <3>1, <3>2
  <2>3. CASE ExactCap(b)
    <3>1. Searching' /\ round' = round /\ mode' # "auto" /\ reasons' # {}
      BY <2>3 DEF ExactCap, Searching, Exact, runVars
    <3> QED BY <3>1, ReasonIsGiven
  <2>4. CASE ExactDuplicate(b)
    BY <2>4, ExactDuplicateDrops
  <2>5. CASE BudgetedCap(b) \/ BudgetedDuplicate(b)
    <3>1. ~ Exact' /\ mode' # "auto"
      BY <2>5 DEF BudgetedCap, BudgetedDuplicate, Budgeted, Exact, runVars
    <3> QED BY <3>1, OtherSearchDrops
  <2> QED BY <1>5, <2>1, <2>2, <2>3, <2>4, <2>5 DEF ApplyBatch
<1>6. CASE ParentDone
  BY <1>6, ParentDoneDrops
<1>7. CASE LayerDone
  BY <1>7, LayerDoneDrops
<1>8. CASE EndRound
  BY <1>8, EndRoundDrops
<1>9. CASE Finish
  <2>1. /\ pc = "finish" /\ ~ Searching /\ ~ Searching'
        /\ UNCHANGED <<world, mode, rows, lost, expanded, reasons, stop, round, frontier>>
    BY <1>9 DEF Finish, Searching, runVars, searchVars
  <2> QED BY <2>1, RestDropsNothing
<1> QED BY <1>1, <1>2, <1>3, <1>4, <1>5, <1>6, <1>7, <1>8, <1>9 DEF Next

\* Every step of the explorers does.
LEMMA ExplorerStepDrops ==
  ASSUME ExplorerNext
  PROVE  NothingIsDropped' /\ Untried'
<1>1. ByBatches \/ ByStates
  BY DEF ExplorerNext, ExploreParent, ExploreState, QueueEmpty, WriteExploration, ExploreBatch, ExplorePass
<1>2. mode' = mode
  BY DEF ExplorerNext, ExploreParent, ExploreState, QueueEmpty, WriteExploration, ExploreBatch, ExplorePass,
         runVars
<1> QED BY <1>1, <1>2, OtherSearchDrops DEF ByBatches, ByStates, Exact

-----------------------------------------------------------------------------
(* The reasons and the report at the end.                                  *)

\* Rows with a reason have been expanded before the end.
LEMMA ReasonsStay ==
  ASSUME ReasonsComeLast, expanded \subseteq expanded', HasReason' \subseteq HasReason \cup expanded',
         pc' \notin AfterSearch => pc \notin AfterSearch
  PROVE  ReasonsComeLast'
BY DEF ReasonsComeLast, AfterSearch

\* Every step of these searches keeps that.
LEMMA LegacyStepReasons ==
  ASSUME SearchInvariant, ReasonsComeLast, Next
  PROVE  ReasonsComeLast'
<1> USE DEF runVars, searchVars
<1>0. pc \notin AfterSearch
  BY LegacyStepKeepsRoot DEF AfterSearch
<1>1. CASE UNCHANGED <<leaf, expanded>>
  BY <1>0, <1>1, ReasonsStay DEF HasReason
<1>2. CASE ExactParent \/ BudgetedParent
  <2>1. CASE leaf' = leaf /\ expanded \subseteq expanded'
    BY <1>0, <2>1, ReasonsStay DEF HasReason
  <2>2. CASE Build /\ \E reason : Leaf(reason)
    <3>1. expanded' = expanded \cup {Parent}
      BY <2>2 DEF Build
    <3>2. HasReason' = HasReason \cup {Parent}
      BY <2>2, LeafIsAdded DEF Leaf
    <3> QED BY <1>0, <3>1, <3>2, ReasonsStay
  <2>3. CASE UNCHANGED <<leaf, expanded>>
    BY <1>1, <2>3
  <2> QED BY <1>2, <2>1, <2>2, <2>3 DEF ExactParent, BudgetedParent, Build, ExpandBy
<1>3. ASSUME NEW b \in pending, ApplyBatch(b) PROVE ReasonsComeLast'
  <2>1. CASE ApplyFails(b) \/ NewState(b) \/ ExactDuplicate(b) \/ BudgetedDuplicate(b)
    <3>1. UNCHANGED <<leaf, expanded>>
      BY <2>1 DEF ApplyFails, NewState, ExactDuplicate, BudgetedDuplicate
    <3> QED BY <1>1, <3>1
  <2>2. CASE ExactCap(b) \/ BudgetedCap(b)
    <3>1. /\ pc = "apply" /\ expanded' = expanded
          /\ leaf' = leaf \cup {<<Parent, "state_cap_reached">>}
      BY <2>2 DEF ExactCap, BudgetedCap, IsNext, Leaf
    <3>2. Parent \in expanded
      BY <3>1, ApplyFacts
    <3>3. HasReason' = HasReason \cup {Parent}
      BY <3>1, LeafIsAdded
    <3> QED BY <1>0, <3>1, <3>2, <3>3, ReasonsStay
  <2> QED BY <1>3, <2>1, <2>2 DEF ApplyBatch
<1>4. CASE Finish
  BY <1>4 DEF Finish, ReasonsComeLast, AfterSearch
<1>5. CASE ChooseAutoMode \/ StartRound \/ ParentDone \/ LayerDone \/ EndRound
  <2>1. UNCHANGED <<leaf, expanded>>
    BY <1>5 DEF ChooseAutoMode, StartRound, ParentDone, LayerDone, EndRound
  <2> QED BY <1>1, <2>1
<1> QED BY <1>2, <1>3, <1>4, <1>5 DEF Next

\* Every step of the explorers does.
LEMMA ExplorerStepReasons ==
  ASSUME SearchInvariant, ReasonsComeLast, ExplorerNext
  PROVE  ReasonsComeLast'
<1>1. pc \notin AfterSearch
  BY ExplorerStepKeepsRoot DEF AfterSearch
<1>2. leaf' = leaf /\ expanded \subseteq expanded'
  BY DEF ExplorerNext, ExploreParent, ExploreState, QueueEmpty, WriteExploration, ExploreBatch, ExplorePass,
         Build
<1> QED BY <1>1, <1>2, ReasonsStay DEF HasReason

\* So the report is true.
LEMMA ReportIsTrue ==
  ASSUME SearchInvariant, NothingIsDropped, ReasonsComeLast, Finish
  PROVE  ReportsAreTrue'
<1>1. /\ pc = "finish" /\ pc' = "done" /\ leaf' = leaf \cup LastLeaves /\ (Budgeted \/ Exact)
      /\ selected' \in Rows
      /\ UNCHANGED <<world, mode, rows, lost, expanded, reasons, stop, round, frontier>>
  BY DEF Finish, runVars, searchVars
<1>2. /\ Rows' = Rows /\ Exact' = Exact /\ Budgeted' = Budgeted /\ Compiler' = Compiler
      /\ ~ Searching /\ HasReason \subseteq expanded /\ ~ ByStates
  BY <1>1 DEF Rows, Exact, Budgeted, Compiler, Searching, ReasonsComeLast, AfterSearch, ByStates
<1>3. ASSUME Exact, reasons = {}
      PROVE  /\ ~ stop /\ round = MaxRounds /\ round \in Nat
             /\ \A i \in Rows : /\ rows[i].depth \in Nat /\ rows[i].depth <= round
                                /\ rows[i].depth < round => Handled(i)
                                /\ rows[i].depth = round => i \in Range(frontier)
  <2>1. round \in Nat
    BY LegacyAssumption DEF SearchInvariant, CallIsTyped
  <2>2. \A i \in Rows : rows[i].depth \in Nat /\ rows[i].depth <= round
    BY <1>2, RowsAreSound DEF SearchInvariant, LayersAreOrdered, Deepest
  <2> QED BY <1>1, <1>2, <1>3, <2>1, <2>2 DEF NothingIsDropped
<1>4. ASSUME ExactStatus' = "exact_complete" PROVE Exact /\ reasons = {}
  <2>1. ~ Budgeted' /\ reasons' = {}
    <3>1. CASE Budgeted'
      BY <1>4, <3>1 DEF ExactStatus
    <3>2. CASE ~ Budgeted' /\ reasons' # {}
      BY <1>4, <3>2 DEF ExactStatus
    <3> QED BY <3>1, <3>2
  <2> QED BY <1>1, <1>2, <2>1
<1>5. CompleteMeansExpanded'
  <2> SUFFICES ASSUME ExactStatus' = "exact_complete", NEW i \in Rows', rows'[i].path.length < MaxRounds,
                      NEW b \in Certifiable(rows[i].module)'
               PROVE  (<<i, b>> \in lost \/ Known(Compiler.apply[rows[i].module][b]) # {})'
    BY DEF CompleteMeansExpanded
  <2>1. Exact /\ reasons = {}
    BY <1>4
  <2>2. i \in Rows /\ rows[i].path.length = rows[i].depth
    BY <1>2, RowsAreSound
  <2>3. Handled(i)
    BY <1>1, <1>3, <2>1, <2>2
  <2>4. Executed(i, b)
    BY <1>1, <1>2, <2>3 DEF Handled, Certifiable
  <2> QED BY <1>1, <1>2, <2>4 DEF Executed, Known
<1>6. TruncationIsReported'
  <2> SUFFICES ASSUME ~ Truncated', selected' \notin expanded, Compiler.active[rows[selected'].module] PROVE FALSE
    BY <1>1, <1>2 DEF TruncationIsReported
  <2> DEFINE Said(r) == <<selected', r>> \in leaf'
  <2>1. /\ ~ Said("max_rounds_reached") /\ ~ Said("beam_pruned")
        /\ ExactStatus' \in {"exact_complete", "not_applicable"}
    BY <1>1, <1>2 DEF Truncated
  <2>2. selected' \notin HasReason
    BY <1>2
  <2>3. CASE Budgeted
    <3>1. selected' \in Rows \ (HasReason \cup expanded)
      BY <1>1, <2>2
    <3>2. <<selected', IF rows[selected'].depth >= MaxRounds THEN "max_rounds_reached" ELSE "beam_pruned">> \in LastLeaves
      BY <2>3, <3>1 DEF LastLeaves
    <3> QED BY <1>1, <2>1, <3>2
  <2>4. CASE ~ Budgeted
    <3>1. ExactStatus' = "exact_complete"
      BY <1>2, <2>1, <2>4 DEF ExactStatus
    <3>2. Exact /\ reasons = {}
      BY <1>4, <3>1
    <3>3. ~ Handled(selected')
      BY DEF Handled
    <3>4. ~ stop /\ selected' \in Range(frontier)
      BY <1>1, <1>3, <3>2, <3>3
    <3>5. PICK k \in DOMAIN frontier : frontier[k] = selected'
      BY <3>4 DEF Range
    <3>6. <<frontier[k], "max_rounds_reached">> \in LastLeaves
      BY <2>2, <2>4, <3>4, <3>5 DEF LastLeaves
    <3> QED BY <1>1, <2>1, <3>5, <3>6
  <2> QED BY <2>3, <2>4
<1> QED BY <1>5, <1>6 DEF ReportsAreTrue

\* Nothing is reported before the end.
LEMMA NoReportYet ==
  ASSUME pc' # "done"
  PROVE  ReportsAreTrue'
BY DEF ReportsAreTrue, CompleteMeansExpanded, TruncationIsReported

\* The steps of the exact and budgeted searches,
LEMMA LegacyStepReports ==
  ASSUME SearchInvariant, ReportsInvariant, Next
  PROVE  ReportsInvariant'
<1>1. ReportsAreTrue'
  <2>1. CASE Finish
    BY <2>1, ReportIsTrue DEF ReportsInvariant
  <2>2. CASE ~ Finish
    BY <2>2, LegacyStepKeepsRoot, NoReportYet
  <2> QED BY <2>1, <2>2
<1> QED BY <1>1, LegacyStepDrops, LegacyStepReasons DEF ReportsInvariant

\* of the explorers,
LEMMA ExplorerStepReports ==
  ASSUME SearchInvariant, ReportsInvariant, ExplorerNext
  PROVE  ReportsInvariant'
<1>1. ReportsAreTrue'
  BY ExplorerStepKeepsRoot, NoReportYet
<1> QED BY <1>1, ExplorerStepDrops, ExplorerStepReasons DEF ReportsInvariant

\* of the stages,
LEMMA StageStepReports ==
  ASSUME SearchInvariant, StagesInvariant, ReportsInvariant, StagedNext
  PROVE  ReportsInvariant'
<1> USE DEF runVars, searchVars
<1>1. CASE NextStage
  <2>1. Fresh'
    BY <1>1, NextStageIsFresh
  <2>2. pc' # "done"
    BY <1>1 DEF NextStage
  <2> QED BY <2>1, <2>2, FreshDropsNothingNext, NoReportYet DEF ReportsInvariant
<1>2. CASE VerifyPipeline \/ HandOver \/ ReplayStages
  <2>1. /\ pc \in {"done", "verified", "handed"} /\ pc' \in {"verified", "raised", "handed", "staged"}
        /\ UNCHANGED <<world, mode, rows, lost, expanded, reasons, stop, round, frontier, leaf>>
    BY <1>2 DEF VerifyPipeline, HandOver, ReplayStages
  <2>2. ~ Searching /\ ~ Searching' /\ pc \in AfterSearch /\ pc' \in AfterSearch
    BY <2>1 DEF Searching, AfterSearch
  <2>3. NothingIsDropped' /\ Untried'
    BY <2>1, <2>2, RestDropsNothing DEF ReportsInvariant
  <2>4. ReasonsComeLast'
    BY <2>1, <2>2, ReasonsStay DEF ReportsInvariant, HasReason
  <2> QED BY <2>1, <2>3, <2>4, NoReportYet DEF ReportsInvariant
<1> QED BY <1>1, <1>2 DEF StagedNext

\* of the comparisons,
LEMMA BaselinesStepReports ==
  ASSUME SearchInvariant, ReportsInvariant, BaselinesNext
  PROVE  ReportsInvariant'
<1>1. /\ UNCHANGED <<world, mode, rows, lost, expanded, reasons, stop, round, frontier, leaf>>
      /\ ~ Searching /\ ~ Searching' /\ pc' # "done"
      /\ pc \notin AfterSearch /\ pc' \notin {"finish"} \cup AfterSearch
  BY BaselinesRest DEF Searching, AfterSearch
<1>2. NothingIsDropped' /\ Untried'
  BY <1>1, RestDropsNothing DEF ReportsInvariant
<1>3. ReasonsComeLast'
  BY <1>1, ReasonsStay DEF ReportsInvariant, HasReason
<1> QED BY <1>1, <1>2, <1>3, NoReportYet DEF ReportsInvariant

\* and doing nothing.
LEMMA NothingReports ==
  ASSUME SearchInvariant, ReportsInvariant, UNCHANGED commandVars
  PROVE  ReportsInvariant'
<1>1. UNCHANGED <<world, mode, rows, frontier, children, round, queue, pending, expanded, leaf, pc, selected, lost,
                  reasons, stop>>
  BY DEF commandVars, explorerVars, vars, runVars, searchVars
<1>2. ReasonsComeLast'
  BY <1>1 DEF ReportsInvariant, ReasonsComeLast, HasReason, AfterSearch
<1>3. NothingIsDropped' /\ Untried'
  <2>1. CASE ~ Searching
    <3>1. ~ Searching'
      BY <1>1, <2>1 DEF Searching
    <3> QED BY <1>1, <2>1, <3>1, RestDropsNothing DEF ReportsInvariant
  <2>2. CASE Searching
    <3>1. Searching' /\ Rows' = Rows /\ Exact' = Exact /\ Parent' = Parent /\ mode # "auto" /\ mode' = mode
      BY <1>1, <2>2 DEF Searching, Rows, Exact, Parent, SearchInvariant, CallIsApplied
    <3>2. /\ \A i \in Rows : Handled(i) => Handled(i)'
          /\ \A i \in Rows : \A b : Executed(i, b) => Executed(i, b)'
      BY <1>1, <3>1, ExecutedStays
    <3>3. pc = "apply" => Parent \in Rows
      BY ApplyFacts
    <3>4. Certifiable(rows[Parent].module)' = Certifiable(rows[Parent].module)
      BY <1>1, <3>1 DEF Certifiable, Compiler
    <3> QED BY <1>1, <2>2, <3>1, <3>2, <3>3, <3>4, InRound, RoundDropsNothing DEF ReportsInvariant
  <2> QED BY <2>1, <2>2
<1>4. CompleteMeansExpanded'
  BY <1>1 DEF ReportsInvariant, ReportsAreTrue, CompleteMeansExpanded, ExactStatus, Known, Rows, Compiler, Budgeted,
     Certifiable
<1>5. TruncationIsReported'
  BY <1>1 DEF ReportsInvariant, ReportsAreTrue, TruncationIsReported, Truncated, ExactStatus, Compiler, Budgeted
<1> QED BY <1>2, <1>3, <1>4, <1>5 DEF ReportsInvariant, ReportsAreTrue

\* exact_complete and truncated, as _finish_run writes them, are true.
THEOREM ReportsAlwaysTrue == CommandSpec => []ReportsAreTrue
<1> DEFINE Inv == SearchInvariant /\ StagesInvariant /\ ReportsInvariant
<1>1. CommandInit => Inv
  <2> SUFFICES ASSUME CommandInit PROVE Inv
    OBVIOUS
  <2>1. Fresh /\ pc = "round"
    BY InitIsFresh DEF CommandInit, ExplorerInit, Fresh
  <2> QED BY <2>1, CommandInitIsSound, FreshDropsNothing
          DEF ReportsInvariant, ReportsAreTrue, CompleteMeansExpanded, TruncationIsReported
<1>2. Inv /\ [CommandNext]_commandVars => Inv'
  <2> SUFFICES ASSUME Inv, [CommandNext]_commandVars PROVE Inv'
    OBVIOUS
  <2>1. SearchInvariant' /\ StagesInvariant'
    BY CommandStepKeeps
  <2>2. ReportsInvariant'
    BY LegacyStepReports, ExplorerStepReports, StageStepReports, BaselinesStepReports, NothingReports DEF CommandNext
  <2> QED BY <2>1, <2>2
<1>3. Inv => ReportsAreTrue
  BY DEF ReportsInvariant
<1> QED BY <1>1, <1>2, <1>3, PTL DEF CommandSpec

-----------------------------------------------------------------------------
(* The comparison. Walks by modules, and the best of several.              *)

\* Where a walk ends, of constants alone.
End(apply, m, s) ==
  LET at[k \in 0 .. Len(s)] == IF k = 0 THEN m ELSE apply[at[k - 1]][s[k]]
  IN at[Len(s)]

\* A walk, of the compiler and the root it is about.
LEMMA WalkIsEnd == \A m, s : Walk(m, s) = End(Compiler.apply, m, s)
BY DEF Walk, End

\* A row for every method that is not a walk.
LEMMA FixedRow ==
  ASSUME NEW a, NEW b, NEW c, NEW d, NEW e
  PROVE  LET t == [root |-> a, default_O2 |-> b, batch_optimizer |-> c, optimized_pipeline |-> d, config_order_once |-> e]
         IN /\ DOMAIN t = {"root", "default_O2", "batch_optimizer", "optimized_pipeline", "config_order_once"}
            /\ t["root"] = a /\ t["default_O2"] = b /\ t["batch_optimizer"] = c /\ t["optimized_pipeline"] = d
            /\ t["config_order_once"] = e
OBVIOUS

\* The rows of an earlier comparison.
LEMMA EarlierRow ==
  ASSUME NEW a, NEW b, NEW c, NEW d, NEW e
  PROVE  LET t == [root |-> a, greedy_single_pass |-> b, random_single_pass_best |-> c, optimized_pipeline |-> d,
                   config_order_once |-> e]
         IN /\ DOMAIN t = {"root", "greedy_single_pass", "random_single_pass_best", "optimized_pipeline",
                           "config_order_once"}
            /\ t["root"] = a /\ t["greedy_single_pass"] = b /\ t["random_single_pass_best"] = c
            /\ t["optimized_pipeline"] = d /\ t["config_order_once"] = e
OBVIOUS

\* Something is least by two numbers,
LEMMA LeastPair ==
  ASSUME NEW T, T # {}, NEW f, NEW g, \A x \in T : f[x] \in Nat /\ g[x] \in Nat
  PROVE  \E x \in T : \A y \in T : f[x] < f[y] \/ (f[x] = f[y] /\ g[x] <= g[y])
<1> DEFINE F == {f[x] : x \in T}
<1>1. PICK n \in F : \A k \in F : n <= k
  <2>1. F # {} /\ F \in SUBSET Nat
    OBVIOUS
  <2> HIDE DEF F
  <2> QED BY <2>1, LeastNumber
<1> DEFINE G == {g[x] : x \in {z \in T : f[z] = n}}
<1>2. PICK i \in G : \A k \in G : i <= k
  <2>1. G # {} /\ G \in SUBSET Nat
    BY <1>1
  <2> HIDE DEF G
  <2> QED BY <2>1, LeastNumber
<1>3. PICK x \in T : f[x] = n /\ g[x] = i
  BY <1>2
<1>4. ASSUME NEW y \in T PROVE f[x] < f[y] \/ (f[x] = f[y] /\ g[x] <= g[y])
  <2>1. n <= f[y] /\ n \in Nat /\ f[y] \in Nat
    BY <1>1
  <2>2. CASE f[y] = n
    BY <1>2, <1>3, <2>2
  <2>3. CASE f[y] # n
    BY <1>3, <2>1, <2>3
  <2> QED BY <2>2, <2>3
<1> QED BY <1>4

\* x is before y by three numbers.
TripleBefore(f, g, h, x, y) ==
  f[x] < f[y] \/ (f[x] = f[y] /\ (g[x] < g[y] \/ (g[x] = g[y] /\ h[x] <= h[y])))

\* and by three.
LEMMA LeastTriple ==
  ASSUME NEW T, T # {}, NEW f \in [T -> Nat], NEW g \in [T -> Nat], NEW h \in [T -> Nat]
  PROVE  \E x \in T : \A y \in T : TripleBefore(f, g, h, x, y)
<1> DEFINE F == {f[x] : x \in T}
<1>1. PICK n \in F : \A k \in F : n <= k
  <2>1. F # {} /\ F \in SUBSET Nat
    OBVIOUS
  <2> HIDE DEF F
  <2> QED BY <2>1, LeastNumber
<1> DEFINE R == {z \in T : f[z] = n}
<1>2. R # {} /\ \A x \in R : g[x] \in Nat /\ h[x] \in Nat
  BY <1>1
<1>3. PICK x \in R : \A y \in R : g[x] < g[y] \/ (g[x] = g[y] /\ h[x] <= h[y])
  <2> HIDE DEF R
  <2> QED BY <1>2, LeastPair
<1>4. ASSUME NEW y \in T PROVE f[x] < f[y] \/ y \in R
  <2>1. n <= f[y] /\ n \in Nat /\ f[y] \in Nat
    BY <1>1
  <2> QED BY <1>3, <2>1
<1>5. x \in T /\ \A y \in R : f[x] = f[y]
  BY <1>3
<1> QED BY <1>3, <1>4, <1>5 DEF TripleBefore

-----------------------------------------------------------------------------
(* The inductive invariant of a comparison.                                *)

\* A comparison has begun.
Comparing == pc \in {"fixed", "greedy", "random", "write", "compared", "aborted"}

\* A row that succeeded shows what its passes make.
Good(compiler, root, r) == r.status = "success" => r.out = {End(compiler.apply, root, r.sequence)}
\* Only a row that succeeded shows a count.
Shown(r)     == r.out # {} => r.status = "success"
\* A row that succeeded shows one module.
HasModule(r) == r.status = "success" => \E m \in IR : r.out = {m}

\* The rows of a table.
TableIsSound(compiler, root, t) ==
  /\ \A m \in DOMAIN t \ {"default_O2", "batch_optimizer"} : Good(compiler, root, t[m])
  /\ {"batch_optimizer", "optimized_pipeline"} \subseteq DOMAIN t =>
       (t["optimized_pipeline"].status = "success" /\ t["batch_optimizer"].status = "success" =>
          compiler.hash[Final(t["optimized_pipeline"])] = compiler.hash[Final(t["batch_optimizer"])])

\* The count falls at every step.
Falls(compiler, root, s) ==
  \A k \in DOMAIN s :
    compiler.objective[End(compiler.apply, root, SubSeq(s, 1, k))]
      < compiler.objective[End(compiler.apply, root, SubSeq(s, 1, k - 1))]

\* The methods that are not walks.
FixedMethods == {"root", "default_O2", "batch_optimizer", "optimized_pipeline", "config_order_once"}

\* The rows of this comparison that are there.
Filled ==
  CASE pc \in {"fixed", "aborted"} -> {}
    [] pc = "greedy" -> FixedMethods
    [] pc = "random" -> FixedMethods \cup {"greedy_single_pass"}
    [] pc \in {"write", "compared"} -> FixedMethods \cup {"greedy_single_pass", "random_single_pass_best"}

\* Why a walk ends.
Endings == {"", "failed", "no_active_passes", "no_improving_pass"}
\* A walk in progress.
WalkRecord == [module : IR, sequence : Seq(Batches), stop : Endings]
\* A row of random_trials.csv.
TrialRow ==
  [status : {"success", "failed"}, out : SUBSET IR, sequence : Seq(Batches), stop : Endings \cup {"max_rounds_reached"}]

\* What the search has left, and the passes.
RunDirIsSound ==
  /\ found.sequence \in Seq(Batches) /\ passes \in Seq(Batches)
  /\ found.out = {} \/ \E m \in IR :
       found.out = {m} /\ Compiler.hash[m] = Compiler.hash[End(Compiler.apply, Root, found.sequence)]

\* The walk is where its passes lead.
WalkIsSound ==
  /\ walk \in WalkRecord
  /\ End(Compiler.apply, Root, walk.sequence) = walk.module
  /\ pc = "fixed" => walk.sequence = <<>>
  /\ pc = "greedy" /\ ~ lenient => Falls(Compiler, Root, walk.sequence)

\* The trials.
TrialsAreSound ==
  /\ trials \in Seq(TrialRow)
  /\ \A t \in DOMAIN trials : Good(Compiler, Root, trials[t]) /\ HasModule(trials[t])

\* The rows there are, and what they show.
TableIsFilled ==
  /\ DOMAIN table = Filled
  /\ \A m \in DOMAIN table : HasModule(table[m])
  /\ \A m \in DOMAIN table \cap {"batch_optimizer", "default_O2", "greedy_single_pass"} : Shown(table[m])
  /\ "root" \in DOMAIN table => table["root"].status = "success"

\* No trial is better than the random row.
BestIsBest ==
  "random_single_pass_best" \in DOMAIN table =>
    /\ Trials # 0 => Shown(table["random_single_pass_best"])
    /\ \A t \in DOMAIN trials : trials[t].status = "success" =>
         Compiler.objective[Final(table["random_single_pass_best"])] <= Compiler.objective[Final(trials[t])]

\* The greedy walk went down.
GreedyFell ==
  ~ lenient /\ "greedy_single_pass" \in DOMAIN table => Falls(Compiler, Root, table["greedy_single_pass"].sequence)

\* What holds during a comparison and after it.
ComparisonIsSound ==
  /\ RunDirIsSound
  /\ WalkIsSound
  /\ TrialsAreSound
  /\ TableIsSound(Compiler, Root, table)
  /\ TableIsSound(Compiler, Root, written)
  /\ TableIsFilled
  /\ BestIsBest
  /\ GreedyFell
  /\ pc = "compared" => written = table

\* No comparison has begun.
NotCompared == table = <<>> /\ written = <<>> /\ trials = <<>> /\ walk = NoWalk

\* The inductive invariant of comparisons.
BaselinesInvariant ==
  /\ ~ Comparing /\ plan = <<>> => NotCompared
  /\ Comparing => ComparisonIsSound

\* The rows that are there, at each point,
LEMMA FilledAt ==
  /\ pc \in {"fixed", "aborted"} => Filled = {}
  /\ pc = "greedy" => Filled = FixedMethods
  /\ pc = "random" => Filled = FixedMethods \cup {"greedy_single_pass"}
  /\ pc \in {"write", "compared"} => Filled = FixedMethods \cup {"greedy_single_pass", "random_single_pass_best"}
<1>1. CASE pc \in {"fixed", "aborted"}
  BY <1>1 DEF Filled
<1>2. CASE pc = "greedy"
  BY <1>2 DEF Filled
<1>3. CASE pc = "random"
  BY <1>3 DEF Filled
<1>4. CASE pc \in {"write", "compared"}
  BY <1>4 DEF Filled
<1> QED BY <1>1, <1>2, <1>3, <1>4

\* and in the next state.
LEMMA FilledNext ==
  /\ pc' \in {"fixed", "aborted"} => Filled' = {}
  /\ pc' = "greedy" => Filled' = FixedMethods
  /\ pc' = "random" => Filled' = FixedMethods \cup {"greedy_single_pass"}
  /\ pc' \in {"write", "compared"} => Filled' = FixedMethods \cup {"greedy_single_pass", "random_single_pass_best"}
<1>1. CASE pc' \in {"fixed", "aborted"}
  BY <1>1 DEF Filled
<1>2. CASE pc' = "greedy"
  BY <1>2 DEF Filled
<1>3. CASE pc' = "random"
  BY <1>3 DEF Filled
<1>4. CASE pc' \in {"write", "compared"}
  BY <1>4 DEF Filled
<1> QED BY <1>1, <1>2, <1>3, <1>4

\* The walk's end, in the invariant's terms.
LEMMA EndFacts ==
  ASSUME SearchInvariant
  PROVE  /\ Root \in IR /\ world \in DOMAIN Worlds /\ Compiler \in World
         /\ \A m : End(Compiler.apply, m, <<>>) = m
         /\ \A m \in IR : \A s \in Seq(Batches) : End(Compiler.apply, m, s) \in IR
         /\ \A m : \A s \in Seq(Batches) : \A b \in Batches :
              End(Compiler.apply, m, Append(s, b)) = Compiler.apply[End(Compiler.apply, m, s)][b]
<1>1. Root \in IR /\ world \in DOMAIN Worlds
  BY RowsAreSound DEF Root, SearchInvariant, CallIsTyped
<1>2. Compiler \in World
  BY <1>1, WorldAssumption DEF Compiler
<1> QED BY <1>1, <1>2, WalkIsEnd, WalkNowhere, WalkIsTyped, WalkAppend

\* A comparison starts with no rows.
LEMMA NotComparedIsSound ==
  ASSUME SearchInvariant, NotCompared, pc' = "fixed", RunDirIsSound', UNCHANGED <<table, trials, walk, world, rows>>,
         TableIsSound(Compiler, Root, written)'
  PROVE  ComparisonIsSound'
<1>1. Root' = Root /\ Compiler' = Compiler
  BY DEF Root, Compiler
<1>2. table' = <<>> /\ trials' = <<>> /\ walk' = NoWalk /\ table = <<>> /\ DOMAIN table' = {} /\ DOMAIN trials' = {}
  BY DEF NotCompared
<1>3. WalkIsSound'
  <2>1. NoWalk \in WalkRecord /\ NoWalk.module = Root /\ NoWalk.sequence = <<>>
    BY EndFacts DEF NoWalk, WalkRecord, Endings
  <2>2. End(Compiler.apply, Root, <<>>) = Root
    BY EndFacts
  <2> QED BY <1>1, <1>2, <2>1, <2>2 DEF WalkIsSound
<1>4. TrialsAreSound'
  BY <1>2 DEF TrialsAreSound
<1>5. TableIsSound(Compiler, Root, table)'
  BY <1>2 DEF TableIsSound
<1>6. TableIsFilled'
  BY <1>2, FilledNext DEF TableIsFilled
<1>7. BestIsBest' /\ GreedyFell'
  BY <1>2 DEF BestIsBest, GreedyFell
<1> QED BY <1>3, <1>4, <1>5, <1>6, <1>7 DEF ComparisonIsSound

-----------------------------------------------------------------------------
(* The fixed rows.                                                         *)

\* The module of a row that has one.
LEMMA FinalIs == ASSUME NEW r, NEW m, r.out = {m} PROVE Final(r) = m
BY DEF Final

\* A run directory is compared, perhaps for the second time.
LEMMA StartComparisonIsSound ==
  ASSUME SearchInvariant, BaselinesInvariant, plan = <<>>, StartComparison
  PROVE  BaselinesInvariant'
<1>1. /\ world' = world /\ rows' = rows /\ Root' = Root /\ Compiler' = Compiler
      /\ pc = "round" /\ pc' = "fixed" /\ UNCHANGED <<table, trials, walk>>
  BY BaselinesRest DEF StartComparison, BaselinesNext, Root, Compiler
<1>2. NotCompared
  BY <1>1 DEF BaselinesInvariant, Comparing
<1>3. found' \in RealResults /\ passes' \in PassLists /\ passes' \in Seq(Batches)
  BY BaselineAssumption DEF StartComparison
<1>4. /\ found'.sequence \in Seq(Batches)
      /\ found'.out = {} \/ \E m \in IR : found'.out = {m}
      /\ \A m \in found'.out : Compiler.hash[m] = Compiler.hash[Walk(Root, found'.sequence)]
  <2>0. found' \in Results /\ \A m \in found'.out : Compiler.hash[m] = Compiler.hash[Walk(Root, found'.sequence)]
    BY <1>3 DEF RealResults
  <2>1. CASE found' = [out |-> {}, sequence |-> <<>>]
    <3>1. <<>> \in Seq(Batches)
      OBVIOUS
    <3> QED BY <2>0, <2>1, <3>1
  <2>2. CASE found' # [out |-> {}, sequence |-> <<>>]
    <3>1. PICK s \in FoundPipelines, m \in IR : found' = [out |-> {m}, sequence |-> s]
      BY <2>0, <2>2 DEF Results
    <3> QED BY <2>0, <3>1, BaselineAssumption
  <2> QED BY <2>1, <2>2
<1>5. RunDirIsSound'
  <2>1. \A m \in found'.out : Compiler.hash[m] = Compiler.hash[End(Compiler.apply, Root, found'.sequence)]
    BY <1>4, WalkIsEnd
  <2> QED BY <1>1, <1>3, <1>4, <2>1 DEF RunDirIsSound
<1>6. TableIsSound(Compiler, Root, written)'
  <2>1. CASE written' = written
    <3>1. DOMAIN written' = {}
      BY <1>2, <2>1 DEF NotCompared
    <3> QED BY <3>1 DEF TableIsSound
  <2>2. CASE written' # written
    <3>1. PICK list \in PassLists : written' = Earlier(list, found'.sequence)
      BY <2>2 DEF StartComparison
    <3> DEFINE o == Outcome("success", {Walk(Root, found'.sequence)}, found'.sequence, "")
               c == Outcome("success", {Walk(Root, list)}, list, "")
    <3>2. Good(Compiler, Root, RootOnly) /\ Good(Compiler, Root, o) /\ Good(Compiler, Root, c)
      BY WalkIsEnd, EndFacts DEF Good, RootOnly, Outcome
    <3>3. written' = [root |-> RootOnly, greedy_single_pass |-> RootOnly, random_single_pass_best |-> RootOnly,
                      optimized_pipeline |-> o, config_order_once |-> c]
      BY <3>1 DEF Earlier
    <3> HIDE DEF o, c
    <3>4. /\ DOMAIN written' = {"root", "greedy_single_pass", "random_single_pass_best", "optimized_pipeline",
                                "config_order_once"}
          /\ \A m \in DOMAIN written' : Good(Compiler, Root, written'[m])
      BY <3>2, <3>3, EarlierRow
    <3>5. "batch_optimizer" \notin DOMAIN written'
      BY <3>4
    <3>6. TableIsSound(Compiler, Root, written')
      BY <3>4, <3>5 DEF TableIsSound
    <3> QED BY <1>1, <3>6
  <2> QED BY <2>1, <2>2
<1>7. ComparisonIsSound'
  BY <1>1, <1>2, <1>5, <1>6, NotComparedIsSound
<1> QED BY <1>1, <1>7 DEF BaselinesInvariant, Comparing

\* The rows of the methods that are not walks.
LEMMA FixedRowsAreSound ==
  ASSUME SearchInvariant, ComparisonIsSound, FixedRows
  PROVE  ComparisonIsSound'
<1>1. /\ Root' = Root /\ Compiler' = Compiler
      /\ pc = "fixed" /\ pc' = "greedy" /\ UNCHANGED <<written, walk, trials, found, passes, lenient>>
  BY BaselinesRest DEF FixedRows, BaselinesNext, Root, Compiler, runDirVars
<1>2. Root \in IR /\ Compiler \in World
  BY EndFacts
<1>3. PICK d \in DefaultRows, o \in SequenceRows("optimized_pipeline", found.sequence),
           c \in SequenceRows("config_order_once", passes) :
        table' = [root |-> RootOnly, default_O2 |-> d, batch_optimizer |-> SearchRow,
                  optimized_pipeline |-> o, config_order_once |-> c]
  BY DEF FixedRows
<1>4. /\ DOMAIN table' = FixedMethods
      /\ table'["root"] = RootOnly /\ table'["default_O2"] = d /\ table'["batch_optimizer"] = SearchRow
      /\ table'["optimized_pipeline"] = o /\ table'["config_order_once"] = c
  BY <1>3, FixedRow DEF FixedMethods
<1>5. /\ RootOnly.status = "success" /\ RootOnly.out = {Root} /\ Good(Compiler, Root, RootOnly) /\ HasModule(RootOnly)
  BY <1>2, EndFacts DEF RootOnly, Good, HasModule, Outcome
<1>6. Shown(d) /\ HasModule(d)
  <2>1. CASE d = Outcome("success", {DefaultModule}, <<>>, "")
    BY <2>1, BaselineAssumption DEF Shown, HasModule, Outcome
  <2>2. CASE d = Outcome("unsupported", {}, <<>>, "")
    BY <2>2 DEF Shown, HasModule, Outcome
  <2> QED BY <2>1, <2>2 DEF DefaultRows
<1>7. ASSUME NEW method, NEW s \in Seq(Batches), NEW r \in SequenceRows(method, s)
      PROVE  Good(Compiler, Root, r) /\ HasModule(r) /\ r.sequence = s
  <2>1. CASE r = Outcome("success", {Walk(Root, s)}, s, "")
    BY <1>2, <2>1, EndFacts, WalkIsEnd DEF Good, HasModule, Outcome
  <2>2. CASE r = Outcome("failed", Left(method), s, "")
    BY <2>2 DEF Good, HasModule, Outcome
  <2> QED BY <2>1, <2>2 DEF SequenceRows
<1>8. /\ Good(Compiler, Root, o) /\ HasModule(o) /\ o.sequence = found.sequence
      /\ Good(Compiler, Root, c) /\ HasModule(c)
  BY <1>7 DEF ComparisonIsSound, RunDirIsSound
<1>9. /\ SearchRow.out = found.out /\ HasModule(SearchRow) /\ Shown(SearchRow)
      /\ SearchRow.status = "success" => \E m \in IR :
           SearchRow.out = {m} /\ Compiler.hash[m] = Compiler.hash[End(Compiler.apply, Root, found.sequence)]
  <2>1. SearchRow.out = found.out /\ SearchRow.status = (IF found.out = {} THEN "failed" ELSE "success")
    BY DEF SearchRow, Outcome
  <2> QED BY <2>1 DEF HasModule, Shown, ComparisonIsSound, RunDirIsSound
<1>10. TableIsSound(Compiler, Root, table')
  <2>1. \A m \in DOMAIN table' \ {"default_O2", "batch_optimizer"} : Good(Compiler, Root, table'[m])
    BY <1>4, <1>5, <1>8 DEF FixedMethods
  <2>2. o.status = "success" /\ SearchRow.status = "success" => Compiler.hash[Final(o)] = Compiler.hash[Final(SearchRow)]
    <3> SUFFICES ASSUME o.status = "success", SearchRow.status = "success"
                 PROVE  Compiler.hash[Final(o)] = Compiler.hash[Final(SearchRow)]
      OBVIOUS
    <3>1. Final(o) = End(Compiler.apply, Root, found.sequence)
      BY <1>8, FinalIs DEF Good
    <3>2. PICK m \in IR : SearchRow.out = {m} /\ Compiler.hash[m] = Compiler.hash[End(Compiler.apply, Root, found.sequence)]
      BY <1>9
    <3> QED BY <3>1, <3>2, FinalIs
  <2> QED BY <1>4, <2>1, <2>2 DEF TableIsSound
<1>11. TableIsSound(Compiler, Root, table)' /\ TableIsSound(Compiler, Root, written)'
  BY <1>1, <1>10 DEF ComparisonIsSound
<1>12. TableIsFilled'
  <2>1. \A m \in DOMAIN table' : HasModule(table'[m])
    BY <1>4, <1>5, <1>6, <1>8, <1>9 DEF FixedMethods
  <2>2. \A m \in DOMAIN table' \cap {"batch_optimizer", "default_O2", "greedy_single_pass"} : Shown(table'[m])
    BY <1>4, <1>6, <1>9 DEF FixedMethods
  <2> QED BY <1>1, <1>4, <1>5, <2>1, <2>2, FilledNext DEF TableIsFilled
<1>13. BestIsBest' /\ GreedyFell'
  BY <1>4 DEF BestIsBest, GreedyFell, FixedMethods
<1>14. WalkIsSound'
  <2>1. End(Compiler.apply, Root, walk.sequence) = walk.module /\ walk \in WalkRecord
    BY DEF ComparisonIsSound, WalkIsSound
  <2>2. Falls(Compiler, Root, walk.sequence)
    <3>1. walk.sequence = <<>>
      BY <1>1 DEF ComparisonIsSound, WalkIsSound
    <3>2. DOMAIN walk.sequence = {}
      BY <3>1
    <3> QED BY <3>2 DEF Falls
  <2> QED BY <1>1, <2>1, <2>2 DEF WalkIsSound
<1>15. TrialsAreSound' /\ RunDirIsSound'
  BY <1>1 DEF ComparisonIsSound, TrialsAreSound, RunDirIsSound
<1> QED BY <1>1, <1>11, <1>12, <1>13, <1>14, <1>15 DEF ComparisonIsSound

-----------------------------------------------------------------------------
(* Walks by single passes.                                                 *)

\* The prefixes of a sequence with one entry more.
LEMMA PrefixOfAppend ==
  ASSUME NEW S, NEW s \in Seq(S), NEW b \in S
  PROVE  /\ Append(s, b) \in Seq(S) /\ DOMAIN Append(s, b) = 1 .. Len(s) + 1 /\ Len(s) \in Nat
         /\ SubSeq(Append(s, b), 1, Len(s) + 1) = Append(s, b)
         /\ \A k \in 0 .. Len(s) : SubSeq(Append(s, b), 1, k) = SubSeq(s, 1, k)
         /\ SubSeq(s, 1, Len(s)) = s
<1> DEFINE t == Append(s, b)
<1>1. /\ t \in Seq(S) /\ DOMAIN t = 1 .. Len(s) + 1 /\ Len(t) = Len(s) + 1 /\ Len(s) \in Nat
      /\ \A i \in 1 .. Len(s) : t[i] = s[i]
  OBVIOUS
<1> HIDE DEF t
<1>2. SubSeq(t, 1, Len(s) + 1) = t /\ SubSeq(s, 1, Len(s)) = s
  BY <1>1
<1>3. ASSUME NEW k \in 0 .. Len(s) PROVE SubSeq(t, 1, k) = SubSeq(s, 1, k)
  <2>1. /\ SubSeq(t, 1, k) \in Seq(S) /\ SubSeq(s, 1, k) \in Seq(S)
        /\ Len(SubSeq(t, 1, k)) = k /\ Len(SubSeq(s, 1, k)) = k
        /\ \A i \in 1 .. k : SubSeq(t, 1, k)[i] = t[i] /\ SubSeq(s, 1, k)[i] = s[i] /\ t[i] = s[i]
    BY <1>1
  <2> QED BY <2>1
<1> QED BY <1>1, <1>2, <1>3 DEF t

\* Counts that fall, and fall once more.
LEMMA FallsOn ==
  ASSUME NEW c, NEW root, NEW s \in Seq(Batches), NEW b \in Batches, Falls(c, root, s),
         c.objective[End(c.apply, root, Append(s, b))] < c.objective[End(c.apply, root, s)]
  PROVE  Falls(c, root, Append(s, b))
<1> DEFINE t == Append(s, b)
<1>1. /\ DOMAIN t = 1 .. Len(s) + 1 /\ Len(s) \in Nat /\ SubSeq(t, 1, Len(s) + 1) = t
      /\ \A k \in 0 .. Len(s) : SubSeq(t, 1, k) = SubSeq(s, 1, k)
      /\ SubSeq(s, 1, Len(s)) = s /\ DOMAIN s = 1 .. Len(s)
  BY PrefixOfAppend
<1>2. c.objective[End(c.apply, root, t)] < c.objective[End(c.apply, root, s)]
  OBVIOUS
<1> HIDE DEF t
<1>3. ASSUME NEW k \in 1 .. Len(s) + 1
      PROVE  c.objective[End(c.apply, root, SubSeq(t, 1, k))] < c.objective[End(c.apply, root, SubSeq(t, 1, k - 1))]
  <2>1. CASE k = Len(s) + 1
    <3>1. SubSeq(t, 1, k) = t /\ SubSeq(t, 1, k - 1) = s
      <4>1. k - 1 = Len(s) /\ k - 1 \in 0 .. Len(s)
        BY <1>1, <2>1
      <4> QED BY <1>1, <2>1, <4>1
    <3> QED BY <1>2, <3>1
  <2>2. CASE k # Len(s) + 1
    <3>1. k \in 0 .. Len(s) /\ k - 1 \in 0 .. Len(s) /\ k \in DOMAIN s
      BY <1>1, <2>2
    <3>2. SubSeq(t, 1, k) = SubSeq(s, 1, k) /\ SubSeq(t, 1, k - 1) = SubSeq(s, 1, k - 1)
      BY <1>1, <3>1
    <3>3. c.objective[End(c.apply, root, SubSeq(s, 1, k))] < c.objective[End(c.apply, root, SubSeq(s, 1, k - 1))]
      BY <3>1 DEF Falls
    <3> QED BY <3>2, <3>3
  <2> QED BY <2>1, <2>2
<1>4. Falls(c, root, t)
  BY <1>1, <1>3 DEF Falls
<1> QED BY <1>4 DEF t

\* A pass leads a walk to a module.
LEMMA AfterIsTyped ==
  ASSUME SearchInvariant, ComparisonIsSound, NEW k \in DOMAIN passes
  PROVE  /\ passes[k] \in Batches /\ walk.module \in IR /\ After(k) \in IR
         /\ Count(After(k)) \in Nat /\ Count(walk.module) \in Nat /\ k \in Nat
         /\ walk.sequence \in Seq(Batches)
         /\ Append(walk.sequence, passes[k]) \in Seq(Batches)
         /\ End(Compiler.apply, Root, walk.sequence) = walk.module
         /\ End(Compiler.apply, Root, Append(walk.sequence, passes[k])) = After(k)
<1>1. passes \in Seq(Batches) /\ walk \in WalkRecord /\ End(Compiler.apply, Root, walk.sequence) = walk.module
  BY DEF ComparisonIsSound, RunDirIsSound, WalkIsSound
<1>2. Compiler \in World
  BY EndFacts
<1>3. passes[k] \in Batches /\ k \in Nat
  BY <1>1
<1>4. walk.module \in IR /\ walk.sequence \in Seq(Batches)
  BY <1>1 DEF WalkRecord
<1>5. After(k) \in IR
  BY <1>2, <1>3, <1>4 DEF After, World
<1>6. Count(After(k)) \in Nat /\ Count(walk.module) \in Nat
  BY <1>2, <1>4, <1>5 DEF Count, World
<1>7. Append(walk.sequence, passes[k]) \in Seq(Batches)
  BY <1>3, <1>4
<1>8. End(Compiler.apply, Root, Append(walk.sequence, passes[k])) = Compiler.apply[walk.module][passes[k]]
  BY <1>1, <1>3, <1>4, EndFacts
<1> QED BY <1>1, <1>3, <1>4, <1>5, <1>6, <1>7, <1>8 DEF After

\* The greediest pass is one of the active ones.
LEMMA GreediestIsActive ==
  ASSUME SearchInvariant, ComparisonIsSound, NEW active \in SUBSET DOMAIN passes, active # {}
  PROVE  Greediest(active) \in active
<1> DEFINE f == [k \in active |-> Count(After(k))]
           g == [k \in active |-> k]
<1>1. \A k \in active : f[k] \in Nat /\ g[k] \in Nat
  BY AfterIsTyped
<1>2. PICK x \in active : \A y \in active : f[x] < f[y] \/ (f[x] = f[y] /\ g[x] <= g[y])
  <2> HIDE DEF f, g
  <2> QED BY <1>1, LeastPair
<1>3. \A y \in active : Count(After(x)) < Count(After(y)) \/ (Count(After(x)) = Count(After(y)) /\ x <= y)
  BY <1>2
<1> QED BY <1>3 DEF Greediest

\* Nothing but the walk changes.
LEMMA WalkGoesSoundly ==
  ASSUME SearchInvariant, ComparisonIsSound, pc \in {"greedy", "random"}, WalkIsSound',
         UNCHANGED <<pc, found, passes, lenient, table, written, trials, world, rows>>
  PROVE  ComparisonIsSound'
<1>1. Root' = Root /\ Compiler' = Compiler /\ Filled' = Filled
  BY DEF Root, Compiler, Filled
<1>2. RunDirIsSound' /\ TrialsAreSound' /\ BestIsBest' /\ GreedyFell'
  BY <1>1 DEF ComparisonIsSound, RunDirIsSound, TrialsAreSound, BestIsBest, GreedyFell
<1>3. TableIsSound(Compiler, Root, table)' /\ TableIsSound(Compiler, Root, written)'
  BY <1>1 DEF ComparisonIsSound
<1>4. TableIsFilled'
  BY <1>1 DEF ComparisonIsSound, TableIsFilled
<1> QED BY <1>2, <1>3, <1>4 DEF ComparisonIsSound

\* A walk ends.
LEMMA EndWalkIsSound ==
  ASSUME SearchInvariant, ComparisonIsSound, NEW why \in Endings, EndWalk(why), pc \in {"greedy", "random"},
         UNCHANGED <<pc, lenient, world, rows>>
  PROVE  WalkIsSound'
<1>1. Root' = Root /\ Compiler' = Compiler
  BY DEF Root, Compiler
<1>2. walk \in WalkRecord
  BY DEF ComparisonIsSound, WalkIsSound
<1>3. walk' \in WalkRecord /\ walk'.module = walk.module /\ walk'.sequence = walk.sequence
  BY <1>2 DEF WalkRecord, EndWalk
<1> QED BY <1>1, <1>3 DEF ComparisonIsSound, WalkIsSound

\* A walk takes a step.
LEMMA StepIsSound ==
  ASSUME SearchInvariant, ComparisonIsSound, NEW k \in DOMAIN passes, Step(k), pc \in {"greedy", "random"},
         pc = "greedy" /\ ~ lenient => Count(After(k)) < Count(walk.module),
         UNCHANGED <<pc, lenient, world, rows>>
  PROVE  WalkIsSound'
<1>1. Root' = Root /\ Compiler' = Compiler
  BY DEF Root, Compiler
<1>2. walk \in WalkRecord
  BY DEF ComparisonIsSound, WalkIsSound
<1>3. After(k) \in IR /\ Append(walk.sequence, passes[k]) \in Seq(Batches)
  BY AfterIsTyped
<1>4. walk' \in WalkRecord /\ walk'.module = After(k) /\ walk'.sequence = Append(walk.sequence, passes[k])
  BY <1>2, <1>3 DEF WalkRecord, Step
<1>5. End(Compiler.apply, Root, walk'.sequence) = walk'.module
  BY <1>4, AfterIsTyped
<1>6. ASSUME pc = "greedy", ~ lenient PROVE Falls(Compiler, Root, walk'.sequence)
  <2>1. /\ Falls(Compiler, Root, walk.sequence) /\ walk.sequence \in Seq(Batches) /\ passes[k] \in Batches
        /\ End(Compiler.apply, Root, walk.sequence) = walk.module
    BY <1>6, AfterIsTyped DEF ComparisonIsSound, WalkIsSound
  <2>2. Compiler.objective[End(Compiler.apply, Root, Append(walk.sequence, passes[k]))]
          < Compiler.objective[End(Compiler.apply, Root, walk.sequence)]
    BY <1>4, <1>5, <1>6, <2>1 DEF Count
  <2> QED BY <1>4, <2>1, <2>2, FallsOn
<1> QED BY <1>1, <1>4, <1>5, <1>6 DEF WalkIsSound

\* A round of the greedy walk.
LEMMA GreedyRoundIsSound ==
  ASSUME SearchInvariant, ComparisonIsSound, GreedyRound
  PROVE  ComparisonIsSound'
<1>1. pc = "greedy" /\ UNCHANGED <<pc, found, passes, lenient, table, written, trials, world, rows>>
  BY BaselinesRest DEF GreedyRound, BaselinesNext, runDirVars
<1>2. PICK active \in SUBSET Effective(walk.module) :
        IF active = {} THEN EndWalk("no_active_passes") ELSE
        LET k == Greediest(active)
        IN IF ~ lenient /\ Count(After(k)) >= Count(walk.module)
           THEN EndWalk("no_improving_pass")
           ELSE Step(k)
  BY DEF GreedyRound
<1>3. active \in SUBSET DOMAIN passes
  BY DEF Effective
<1>4. CASE \E why \in Endings : EndWalk(why)
  BY <1>1, <1>4, EndWalkIsSound, WalkGoesSoundly
<1>5. CASE ~ \E why \in Endings : EndWalk(why)
  <2>1. active # {}
    BY <1>2, <1>5 DEF Endings
  <2>2. Greediest(active) \in active
    BY <1>3, <2>1, GreediestIsActive
  <2>3. PICK k \in active : k = Greediest(active)
    BY <2>2
  <2>4. Step(k) /\ ~ (~ lenient /\ Count(After(k)) >= Count(walk.module))
    BY <1>2, <1>5, <2>1, <2>3 DEF Endings
  <2>5. k \in DOMAIN passes
    BY <1>3, <2>3
  <2>6. ~ lenient => Count(After(k)) < Count(walk.module)
    BY <2>4, <2>5, AfterIsTyped
  <2>7. WalkIsSound'
    BY <1>1, <2>4, <2>5, <2>6, StepIsSound
  <2> QED BY <1>1, <2>7, WalkGoesSoundly
<1> QED BY <1>4, <1>5

\* A round of a trial.
LEMMA RandomRoundIsSound ==
  ASSUME SearchInvariant, ComparisonIsSound, RandomRound
  PROVE  ComparisonIsSound'
<1>1. pc = "random" /\ UNCHANGED <<pc, found, passes, lenient, table, written, trials, world, rows>>
  BY BaselinesRest DEF RandomRound, BaselinesNext, runDirVars
<1>2. PICK active \in SUBSET Effective(walk.module) :
        IF active = {} THEN EndWalk("no_active_passes") ELSE \E k \in active : Step(k)
  BY DEF RandomRound
<1>3. active \in SUBSET DOMAIN passes
  BY DEF Effective
<1>4. CASE active = {}
  <2>1. EndWalk("no_active_passes") /\ "no_active_passes" \in Endings
    BY <1>2, <1>4 DEF Endings
  <2> QED BY <1>1, <2>1, EndWalkIsSound, WalkGoesSoundly
<1>5. CASE active # {}
  <2>1. PICK k \in DOMAIN passes : Step(k)
    BY <1>2, <1>3, <1>5
  <2>2. WalkIsSound'
    BY <1>1, <2>1, StepIsSound
  <2> QED BY <1>1, <2>2, WalkGoesSoundly
<1> QED BY <1>4, <1>5

\* A round raises.
LEMMA WalkFailsIsSound ==
  ASSUME SearchInvariant, ComparisonIsSound, WalkFails
  PROVE  ComparisonIsSound'
<1>1. /\ pc \in {"greedy", "random"} /\ EndWalk("failed") /\ "failed" \in Endings
      /\ UNCHANGED <<pc, found, passes, lenient, table, written, trials, world, rows>>
  BY BaselinesRest DEF WalkFails, BaselinesNext, runDirVars, Endings
<1> QED BY <1>1, EndWalkIsSound, WalkGoesSoundly

-----------------------------------------------------------------------------
(* The rows of the walks.                                                  *)

\* The row of a walk.
LEMMA RecordOfWalk ==
  ASSUME SearchInvariant, ComparisonIsSound
  PROVE  /\ WalkRow \in TrialRow /\ Good(Compiler, Root, WalkRow) /\ HasModule(WalkRow) /\ Shown(WalkRow)
         /\ WalkRow.sequence = walk.sequence
<1>1. walk \in WalkRecord /\ End(Compiler.apply, Root, walk.sequence) = walk.module
  BY DEF ComparisonIsSound, WalkIsSound
<1>2. walk.module \in IR /\ walk.sequence \in Seq(Batches) /\ walk.stop \in Endings
  BY <1>1 DEF WalkRecord
<1> DEFINE why == IF walk.stop = "" THEN "max_rounds_reached" ELSE walk.stop
<1>3. why \in Endings \cup {"max_rounds_reached"}
  BY <1>2
<1>4. CASE why = "failed"
  <2>1. WalkRow = Outcome("failed", {}, walk.sequence, why)
    BY <1>4 DEF WalkRow
  <2> HIDE DEF why
  <2>2. WalkRow \in TrialRow
    BY <1>2, <1>3, <2>1 DEF Outcome, TrialRow
  <2> QED BY <2>1, <2>2 DEF Outcome, Good, HasModule, Shown
<1>5. CASE why # "failed"
  <2>1. WalkRow = Outcome("success", {walk.module}, walk.sequence, why)
    BY <1>5 DEF WalkRow
  <2> HIDE DEF why
  <2>2. WalkRow \in TrialRow
    BY <1>2, <1>3, <2>1 DEF Outcome, TrialRow
  <2> QED BY <1>1, <1>2, <2>1, <2>2 DEF Outcome, Good, HasModule, Shown
<1> QED BY <1>4, <1>5

\* The next walk begins at the root.
LEMMA NoWalkIsSound ==
  ASSUME SearchInvariant, walk' = NoWalk, pc' # "greedy", UNCHANGED <<world, rows>>
  PROVE  WalkIsSound'
<1>1. Root' = Root /\ Compiler' = Compiler
  BY DEF Root, Compiler
<1>2. NoWalk \in WalkRecord /\ NoWalk.module = Root /\ NoWalk.sequence = <<>>
  <2>1. Root \in IR /\ <<>> \in Seq(Batches)
    BY EndFacts
  <2> QED BY <2>1 DEF NoWalk, WalkRecord, Endings
<1>3. End(Compiler.apply, Root, <<>>) = Root
  BY EndFacts
<1> QED BY <1>1, <1>2, <1>3 DEF WalkIsSound

\* A row that is put into both tables.
LEMMA UpsertIsSound ==
  ASSUME ComparisonIsSound, NEW method \in {"greedy_single_pass", "random_single_pass_best"}, NEW row,
         Good(Compiler, Root, row), Upsert(method, row), UNCHANGED <<world, rows>>
  PROVE  TableIsSound(Compiler, Root, table)' /\ TableIsSound(Compiler, Root, written)'
<1>1. Root' = Root /\ Compiler' = Compiler
  BY DEF Root, Compiler
<1>2. ASSUME NEW t, NEW n, TableIsSound(Compiler, Root, t), DOMAIN n = DOMAIN t \cup {method}, n[method] = row,
             \A x \in DOMAIN t : x # method => n[x] = t[x]
      PROVE  TableIsSound(Compiler, Root, n)
  <2>1. ASSUME NEW m \in DOMAIN n \ {"default_O2", "batch_optimizer"} PROVE Good(Compiler, Root, n[m])
    BY <1>2 DEF TableIsSound
  <2>2. \A m \in {"batch_optimizer", "optimized_pipeline"} : m \in DOMAIN n => m \in DOMAIN t /\ n[m] = t[m]
    BY <1>2
  <2> QED BY <1>2, <2>1, <2>2 DEF TableIsSound
<1>3. TableIsSound(Compiler, Root, table) /\ TableIsSound(Compiler, Root, written)
  BY DEF ComparisonIsSound
<1>4. /\ DOMAIN table' = DOMAIN table \cup {method} /\ table'[method] = row
      /\ \A x \in DOMAIN table : x # method => table'[x] = table[x]
      /\ DOMAIN written' = DOMAIN written \cup {method} /\ written'[method] = row
      /\ \A x \in DOMAIN written : x # method => written'[x] = written[x]
  BY DEF Upsert
<1>5. TableIsSound(Compiler, Root, table')
  BY <1>2, <1>3, <1>4
<1>6. TableIsSound(Compiler, Root, written')
  BY <1>2, <1>3, <1>4
<1> QED BY <1>1, <1>5, <1>6

\* The greedy walk is done.
LEMMA GreedyDoneIsSound ==
  ASSUME SearchInvariant, ComparisonIsSound, GreedyDone
  PROVE  ComparisonIsSound'
<1>1. /\ pc = "greedy" /\ pc' = "random" /\ walk' = NoWalk /\ Upsert("greedy_single_pass", WalkRow)
      /\ UNCHANGED <<found, passes, lenient, trials, world, rows>>
  BY BaselinesRest DEF GreedyDone, BaselinesNext, runDirVars
<1>2. Root' = Root /\ Compiler' = Compiler
  BY <1>1 DEF Root, Compiler
<1>3. RunDirIsSound' /\ TrialsAreSound'
  BY <1>1, <1>2 DEF ComparisonIsSound, RunDirIsSound, TrialsAreSound
<1>4. WalkIsSound'
  BY <1>1, NoWalkIsSound
<1>5. TableIsSound(Compiler, Root, table)' /\ TableIsSound(Compiler, Root, written)'
  BY <1>1, RecordOfWalk, UpsertIsSound
<1>6. /\ DOMAIN table = FixedMethods /\ DOMAIN table' = FixedMethods \cup {"greedy_single_pass"}
      /\ table'["greedy_single_pass"] = WalkRow /\ \A x \in FixedMethods : table'[x] = table[x]
  <2>1. DOMAIN table = FixedMethods
    BY <1>1, FilledAt DEF ComparisonIsSound, TableIsFilled
  <2>2. /\ DOMAIN table' = DOMAIN table \cup {"greedy_single_pass"} /\ table'["greedy_single_pass"] = WalkRow
        /\ \A x \in DOMAIN table : x # "greedy_single_pass" => table'[x] = table[x]
    BY <1>1 DEF Upsert
  <2> QED BY <2>1, <2>2 DEF FixedMethods
<1>7. TableIsFilled'
  <2>1. \A m \in DOMAIN table' : HasModule(table'[m])
    BY <1>6, RecordOfWalk DEF ComparisonIsSound, TableIsFilled
  <2>2. \A m \in DOMAIN table' \cap {"batch_optimizer", "default_O2", "greedy_single_pass"} : Shown(table'[m])
    BY <1>6, RecordOfWalk DEF ComparisonIsSound, TableIsFilled
  <2>3. table'["root"].status = "success"
    BY <1>6 DEF ComparisonIsSound, TableIsFilled, FixedMethods
  <2> QED BY <1>1, <1>6, <2>1, <2>2, <2>3, FilledNext DEF TableIsFilled
<1>8. BestIsBest'
  BY <1>6 DEF BestIsBest, FixedMethods
<1>9. GreedyFell'
  <2>1. ~ lenient => Falls(Compiler, Root, WalkRow.sequence)
    BY <1>1, RecordOfWalk DEF ComparisonIsSound, WalkIsSound
  <2> QED BY <1>1, <1>2, <1>6, <2>1 DEF GreedyFell
<1> QED BY <1>1, <1>3, <1>4, <1>5, <1>7, <1>8, <1>9 DEF ComparisonIsSound

\* A trial is done.
LEMMA TrialDoneIsSound ==
  ASSUME SearchInvariant, ComparisonIsSound, TrialDone
  PROVE  ComparisonIsSound'
<1>1. /\ pc = "random" /\ pc' = pc /\ walk' = NoWalk /\ trials' = Append(trials, WalkRow)
      /\ UNCHANGED <<found, passes, lenient, table, written, world, rows>>
  BY BaselinesRest DEF TrialDone, BaselinesNext, runDirVars
<1>2. Root' = Root /\ Compiler' = Compiler /\ Filled' = Filled
  BY <1>1 DEF Root, Compiler, Filled
<1>3. WalkIsSound'
  BY <1>1, NoWalkIsSound
<1>4. TrialsAreSound'
  <2>1. trials \in Seq(TrialRow) /\ WalkRow \in TrialRow
    BY RecordOfWalk DEF ComparisonIsSound, TrialsAreSound
  <2>2. /\ trials' \in Seq(TrialRow) /\ Len(trials) \in Nat /\ DOMAIN trials = 1 .. Len(trials)
        /\ DOMAIN trials' = 1 .. Len(trials) + 1
        /\ trials'[Len(trials) + 1] = WalkRow /\ \A t \in 1 .. Len(trials) : trials'[t] = trials[t]
    <3> HIDE DEF TrialRow
    <3> QED BY <1>1, <2>1
  <2>3. ASSUME NEW t \in DOMAIN trials' PROVE Good(Compiler, Root, trials'[t]) /\ HasModule(trials'[t])
    <3>1. CASE t = Len(trials) + 1
      BY <2>2, <3>1, RecordOfWalk
    <3>2. CASE t # Len(trials) + 1
      <4>1. t \in DOMAIN trials /\ trials'[t] = trials[t]
        BY <2>2, <3>2
      <4> QED BY <4>1 DEF ComparisonIsSound, TrialsAreSound
    <3> QED BY <3>1, <3>2
  <2> QED BY <1>2, <2>2, <2>3 DEF TrialsAreSound
<1>5. "random_single_pass_best" \notin DOMAIN table
  BY <1>1, FilledAt DEF ComparisonIsSound, TableIsFilled, FixedMethods
<1>6. BestIsBest' /\ GreedyFell' /\ RunDirIsSound' /\ TableIsFilled'
  BY <1>1, <1>2, <1>5 DEF ComparisonIsSound, BestIsBest, GreedyFell, RunDirIsSound, TableIsFilled
<1>7. TableIsSound(Compiler, Root, table)' /\ TableIsSound(Compiler, Root, written)'
  BY <1>1, <1>2 DEF ComparisonIsSound
<1> QED BY <1>1, <1>3, <1>4, <1>6, <1>7 DEF ComparisonIsSound

\* The trials that succeeded.
Succeeded == {t \in DOMAIN trials : trials[t].status = "success"}

\* A trial that succeeded has a module.
LEMMA SucceededHaveModules ==
  ASSUME SearchInvariant, ComparisonIsSound, NEW t \in Succeeded
  PROVE  /\ Final(trials[t]) \in IR /\ trials[t].out = {Final(trials[t])} /\ Count(Final(trials[t])) \in Nat
         /\ Len(trials[t].sequence) \in Nat /\ t \in Nat /\ t \in DOMAIN trials
<1>1. /\ trials \in Seq(TrialRow) /\ t \in DOMAIN trials /\ trials[t].status = "success" /\ HasModule(trials[t])
  BY DEF ComparisonIsSound, TrialsAreSound, Succeeded
<1>2. PICK m \in IR : trials[t].out = {m}
  BY <1>1 DEF HasModule
<1>3. Final(trials[t]) = m
  BY <1>2, FinalIs
<1>4. Compiler.objective[m] \in Nat
  BY EndFacts DEF World
<1>5. t \in Nat /\ trials[t] \in TrialRow
  <2> HIDE DEF TrialRow
  <2> QED BY <1>1
<1>6. trials[t].sequence \in Seq(Batches)
  BY <1>5 DEF TrialRow
<1> QED BY <1>1, <1>2, <1>3, <1>4, <1>5, <1>6 DEF Count

\* The best trial exists and is best.
LEMMA BestTrialIsBest ==
  ASSUME SearchInvariant, ComparisonIsSound, Succeeded # {}
  PROVE  /\ BestTrial(Succeeded) \in Succeeded
         /\ \A u \in Succeeded : Count(Final(trials[BestTrial(Succeeded)])) <= Count(Final(trials[u]))
<1> DEFINE f == [t \in Succeeded |-> Count(Final(trials[t]))]
           g == [t \in Succeeded |-> Len(trials[t].sequence)]
           h == [t \in Succeeded |-> t]
<1>1. f \in [Succeeded -> Nat] /\ g \in [Succeeded -> Nat] /\ h \in [Succeeded -> Nat]
  BY SucceededHaveModules
<1>2. \E t \in Succeeded : \A u \in Succeeded : TripleBefore(f, g, h, t, u)
  <2> HIDE DEF f, g, h
  <2> QED BY <1>1, LeastTriple
<1>3. BestTrial(Succeeded) = CHOOSE t \in Succeeded : \A u \in Succeeded : TripleBefore(f, g, h, t, u)
  <2>1. \A t, u \in Succeeded : TripleBefore(f, g, h, t, u) <=>
          \/ Count(Final(trials[t])) < Count(Final(trials[u]))
          \/ Count(Final(trials[t])) = Count(Final(trials[u]))
             /\ (Len(trials[t].sequence) < Len(trials[u].sequence)
                 \/ (Len(trials[t].sequence) = Len(trials[u].sequence) /\ t <= u))
    BY DEF TripleBefore
  <2> QED BY <2>1 DEF BestTrial
<1>4. /\ BestTrial(Succeeded) \in Succeeded
      /\ \A u \in Succeeded : TripleBefore(f, g, h, BestTrial(Succeeded), u)
  <2> HIDE DEF f, g, h
  <2> QED BY <1>2, <1>3
<1>5. \A u \in Succeeded : f[BestTrial(Succeeded)] <= f[u]
  <2> HIDE DEF f, g, h
  <2> QED BY <1>1, <1>4 DEF TripleBefore
<1> QED BY <1>4, <1>5

-----------------------------------------------------------------------------
(* The random row, and every step.                                         *)

\* The row of the random trials.
RandomRow ==
  CASE Succeeded # {} -> trials[BestTrial(Succeeded)]
    [] Trials = 0     -> Outcome("failed", {Root}, <<>>, "no_random_trials")
    [] OTHER          -> Outcome("success", {Root}, <<>>, "no_successful_trials")

\* The random row, whether a trial succeeded, none did or none was asked for.
LEMMA RandomRowIsSound ==
  ASSUME SearchInvariant, ComparisonIsSound, Len(trials) = Trials
  PROVE  /\ Good(Compiler, Root, RandomRow) /\ HasModule(RandomRow)
         /\ Trials # 0 => Shown(RandomRow)
         /\ \A t \in Succeeded : Count(Final(RandomRow)) <= Count(Final(trials[t]))
<1>1. Root \in IR /\ End(Compiler.apply, Root, <<>>) = Root
  BY EndFacts
<1>2. CASE Succeeded # {}
  <2>1. Trials # 0
    <3>1. trials \in Seq(TrialRow)
      BY DEF ComparisonIsSound, TrialsAreSound
    <3>2. DOMAIN trials = 1 .. Trials
      BY <3>1
    <3> QED BY <1>2, <3>2, BaselineAssumption DEF Succeeded
  <2>2. RandomRow = trials[BestTrial(Succeeded)]
    BY <1>2, <2>1 DEF RandomRow
  <2>3. /\ BestTrial(Succeeded) \in Succeeded
        /\ \A u \in Succeeded : Count(Final(trials[BestTrial(Succeeded)])) <= Count(Final(trials[u]))
    BY <1>2, BestTrialIsBest
  <2>4. BestTrial(Succeeded) \in DOMAIN trials /\ trials[BestTrial(Succeeded)].status = "success"
    BY <2>3 DEF Succeeded
  <2> QED BY <2>2, <2>3, <2>4 DEF ComparisonIsSound, TrialsAreSound, Shown
<1>3. CASE Succeeded = {} /\ Trials = 0
  <2>1. RandomRow = Outcome("failed", {Root}, <<>>, "no_random_trials")
    BY <1>3 DEF RandomRow
  <2> QED BY <1>3, <2>1 DEF Good, HasModule, Shown, Outcome
<1>4. CASE Succeeded = {} /\ Trials # 0
  <2>1. RandomRow = Outcome("success", {Root}, <<>>, "no_successful_trials")
    BY <1>4 DEF RandomRow
  <2> QED BY <1>1, <1>4, <2>1 DEF Good, HasModule, Shown, Outcome
<1> QED BY <1>2, <1>3, <1>4

\* The random trials are done.
LEMMA RandomDoneIsSound ==
  ASSUME SearchInvariant, ComparisonIsSound, RandomDone
  PROVE  ComparisonIsSound'
<1>1. /\ pc = "random" /\ pc' = "write" /\ Upsert("random_single_pass_best", RandomRow) /\ Len(trials) = Trials
      /\ UNCHANGED <<found, passes, lenient, walk, trials, world, rows>>
  BY BaselinesRest DEF RandomDone, BaselinesNext, runDirVars, RandomRow, Succeeded
<1>2. Root' = Root /\ Compiler' = Compiler
  BY <1>1 DEF Root, Compiler
<1>3. RunDirIsSound' /\ TrialsAreSound' /\ WalkIsSound'
  BY <1>1, <1>2 DEF ComparisonIsSound, RunDirIsSound, TrialsAreSound, WalkIsSound
<1>5. TableIsSound(Compiler, Root, table)' /\ TableIsSound(Compiler, Root, written)'
  BY <1>1, RandomRowIsSound, UpsertIsSound
<1>6. /\ DOMAIN table = FixedMethods \cup {"greedy_single_pass"}
      /\ DOMAIN table' = FixedMethods \cup {"greedy_single_pass", "random_single_pass_best"}
      /\ table'["random_single_pass_best"] = RandomRow
      /\ \A x \in DOMAIN table : table'[x] = table[x]
  <2>1. DOMAIN table = FixedMethods \cup {"greedy_single_pass"}
    BY <1>1, FilledAt DEF ComparisonIsSound, TableIsFilled
  <2>2. /\ DOMAIN table' = DOMAIN table \cup {"random_single_pass_best"}
        /\ table'["random_single_pass_best"] = RandomRow
        /\ \A x \in DOMAIN table : x # "random_single_pass_best" => table'[x] = table[x]
    BY <1>1 DEF Upsert
  <2> QED BY <2>1, <2>2 DEF FixedMethods
<1>7. TableIsFilled'
  <2>1. \A m \in DOMAIN table' : HasModule(table'[m])
    BY <1>1, <1>6, RandomRowIsSound DEF ComparisonIsSound, TableIsFilled
  <2>2. \A m \in DOMAIN table' \cap {"batch_optimizer", "default_O2", "greedy_single_pass"} : Shown(table'[m])
    BY <1>6 DEF ComparisonIsSound, TableIsFilled
  <2>3. table'["root"].status = "success"
    BY <1>6 DEF ComparisonIsSound, TableIsFilled, FixedMethods
  <2> QED BY <1>1, <1>6, <2>1, <2>2, <2>3, FilledNext DEF TableIsFilled
<1>8. BestIsBest'
  <2>1. Trials # 0 => Shown(RandomRow)
    BY <1>1, RandomRowIsSound
  <2>2. \A t \in DOMAIN trials : trials[t].status = "success" => t \in Succeeded
    BY DEF Succeeded
  <2>3. \A t \in Succeeded : Compiler.objective[Final(RandomRow)] <= Compiler.objective[Final(trials[t])]
    BY <1>1, RandomRowIsSound DEF Count
  <2>4. \A t \in DOMAIN trials' : trials'[t].status = "success" =>
          Compiler.objective[Final(table'["random_single_pass_best"])] <= Compiler.objective[Final(trials'[t])]
    BY <1>1, <1>6, <2>2, <2>3
  <2> QED BY <1>1, <1>2, <1>6, <2>1, <2>4 DEF BestIsBest
<1>9. GreedyFell'
  BY <1>1, <1>2, <1>6 DEF ComparisonIsSound, GreedyFell, FixedMethods
<1> QED BY <1>1, <1>3, <1>5, <1>7, <1>8, <1>9 DEF ComparisonIsSound

\* A comparison is cut off.
LEMMA AbortIsSound ==
  ASSUME SearchInvariant, ComparisonIsSound, Abort
  PROVE  ComparisonIsSound'
<1>1. /\ pc' = "aborted" /\ walk' = NoWalk /\ table' = <<>> /\ trials' = <<>>
      /\ UNCHANGED <<found, passes, lenient, written, world, rows>>
  BY BaselinesRest DEF Abort, BaselinesNext, runDirVars
<1>2. Root' = Root /\ Compiler' = Compiler /\ DOMAIN table' = {} /\ DOMAIN trials' = {}
  BY <1>1 DEF Root, Compiler
<1>3. WalkIsSound'
  BY <1>1, NoWalkIsSound
<1>4. RunDirIsSound'
  BY <1>1, <1>2 DEF ComparisonIsSound, RunDirIsSound
<1>5. TrialsAreSound'
  BY <1>1, <1>2 DEF TrialsAreSound
<1>6. TableIsSound(Compiler, Root, table)'
  BY <1>2 DEF TableIsSound
<1>7. TableIsSound(Compiler, Root, written)'
  BY <1>1, <1>2 DEF ComparisonIsSound
<1>8. TableIsFilled' /\ BestIsBest' /\ GreedyFell'
  BY <1>1, <1>2, FilledNext DEF TableIsFilled, BestIsBest, GreedyFell
<1> QED BY <1>1, <1>3, <1>4, <1>5, <1>6, <1>7, <1>8 DEF ComparisonIsSound

\* A comparison is written.
LEMMA WriteComparisonIsSound ==
  ASSUME SearchInvariant, ComparisonIsSound, WriteComparison
  PROVE  ComparisonIsSound'
<1>1. /\ pc = "write" /\ pc' = "compared" /\ written' = table
      /\ UNCHANGED <<found, passes, lenient, table, walk, trials, world, rows>>
  BY BaselinesRest DEF WriteComparison, BaselinesNext, runDirVars
<1>2. Root' = Root /\ Compiler' = Compiler /\ Filled' = Filled
  BY <1>1, FilledAt, FilledNext DEF Root, Compiler
<1>3. RunDirIsSound' /\ TrialsAreSound' /\ WalkIsSound' /\ BestIsBest' /\ GreedyFell'
  BY <1>1, <1>2 DEF ComparisonIsSound, RunDirIsSound, TrialsAreSound, WalkIsSound, BestIsBest, GreedyFell
<1>4. TableIsSound(Compiler, Root, table)' /\ TableIsSound(Compiler, Root, written)'
  BY <1>1, <1>2 DEF ComparisonIsSound
<1>5. TableIsFilled'
  BY <1>1, <1>2 DEF ComparisonIsSound, TableIsFilled
<1> QED BY <1>1, <1>3, <1>4, <1>5 DEF ComparisonIsSound

\* Every step of a comparison keeps the invariant.
LEMMA BaselinesStepCompares ==
  ASSUME SearchInvariant, BaselinesInvariant, plan = <<>>, BaselinesNext
  PROVE  BaselinesInvariant'
<1>1. CASE StartComparison
  BY <1>1, StartComparisonIsSound
<1>2. ASSUME ~ StartComparison PROVE Comparing /\ Comparing'
  BY <1>2 DEF BaselinesNext, FixedRows, GreedyRound, RandomRound, WalkFails, GreedyDone, TrialDone, RandomDone, Abort,
     WriteComparison, Comparing
<1>3. CASE ~ StartComparison
  <2>1. ComparisonIsSound
    BY <1>2, <1>3 DEF BaselinesInvariant
  <2>2. ComparisonIsSound'
    BY <1>3, <2>1, FixedRowsAreSound, GreedyRoundIsSound, RandomRoundIsSound, WalkFailsIsSound, GreedyDoneIsSound,
       TrialDoneIsSound, RandomDoneIsSound, AbortIsSound, WriteComparisonIsSound DEF BaselinesNext
  <2> QED BY <1>2, <1>3, <2>2 DEF BaselinesInvariant
<1> QED BY <1>1, <1>3

\* Steps outside of a comparison do,
LEMMA OtherStepCompares ==
  ASSUME BaselinesInvariant, UNCHANGED baselineVars, ~ Comparing, ~ Comparing',
         plan' = <<>> => plan = <<>> /\ rows'[1].module = rows[1].module
  PROVE  BaselinesInvariant'
<1>1. CASE plan' # <<>>
  BY <1>1 DEF BaselinesInvariant
<1>2. CASE plan' = <<>>
  <2>1. Root' = Root /\ NotCompared
    BY <1>2 DEF Root, BaselinesInvariant
  <2>2. NotCompared'
    BY <2>1 DEF NotCompared, baselineVars, runDirVars, NoWalk
  <2> QED BY <2>2 DEF BaselinesInvariant
<1> QED BY <1>1, <1>2

\* those of the searches,
LEMMA SearchStepCompares ==
  ASSUME SearchInvariant, BaselinesInvariant, Next \/ ExplorerNext, UNCHANGED <<stagedVars, baselineVars>>
  PROVE  BaselinesInvariant'
<1>1. CASE Next
  <2>1. rows'[1].module = rows[1].module /\ ~ Comparing
    BY <1>1, LegacyStepKeepsRoot DEF Comparing
  <2>2. ~ Comparing'
    <3>1. CASE Finish
      BY <3>1 DEF Finish, Comparing
    <3>2. CASE ~ Finish
      <4>1. pc' \in {"round", "parent", "apply", "layer", "finish"}
        BY <1>1, <3>2, LegacyStepKeepsRoot
      <4> QED BY <4>1 DEF Comparing
    <3> QED BY <3>1, <3>2
  <2> QED BY <2>1, <2>2, OtherStepCompares DEF stagedVars
<1>2. CASE ExplorerNext
  <2>1. rows'[1].module = rows[1].module /\ pc' \in {"parent", "apply", "finish", "explored"}
    BY <1>2, ExplorerStepKeepsRoot
  <2>2. pc \in {"parent", "apply", "finish"}
    BY <1>2 DEF ExplorerNext, ExploreParent, Build, ExploreState, QueueEmpty, WriteExploration, ExploreBatch,
       ExplorePass, IsNext
  <2> QED BY <2>1, <2>2, OtherStepCompares DEF stagedVars, Comparing
<1> QED BY <1>1, <1>2

\* those of the stages,
LEMMA StageStepCompares ==
  ASSUME SearchInvariant, StagesInvariant, BaselinesInvariant, StagedNext, UNCHANGED baselineVars
  PROVE  BaselinesInvariant'
<1>1. ~ Comparing /\ ~ Comparing' /\ plan' = plan
  BY DEF StagedNext, VerifyPipeline, HandOver, NextStage, ReplayStages, Comparing
<1>2. CASE NextStage
  <2>1. plan # <<>>
    <3>1. stages \in Seq(StageRow) /\ Len(stages) < Len(plan)
      BY <1>2, StagesSplit DEF NextStage, StagesHold
    <3>2. Len(stages) \in Nat
      BY <3>1
    <3>3. Len(<<>>) = 0
      OBVIOUS
    <3> QED BY <3>1, <3>2, <3>3
  <2> QED BY <1>1, <2>1, OtherStepCompares
<1>3. CASE ~ NextStage
  <2>1. rows' = rows
    BY <1>3 DEF StagedNext, VerifyPipeline, HandOver, ReplayStages, searchVars
  <2> QED BY <1>1, <2>1, OtherStepCompares
<1> QED BY <1>2, <1>3

\* and doing nothing.
LEMMA NothingCompares ==
  ASSUME BaselinesInvariant, UNCHANGED commandVars
  PROVE  BaselinesInvariant'
<1>1. UNCHANGED <<pc, plan, world, rows, found, passes, lenient, files, table, written, walk, trials>>
  BY DEF commandVars, explorerVars, stagedVars, baselineVars, runDirVars, vars, runVars, searchVars
<1>2. Root' = Root /\ Compiler' = Compiler /\ Filled' = Filled /\ Comparing' = Comparing
  BY <1>1 DEF Root, Compiler, Filled, Comparing
<1>3. NotCompared => NotCompared'
  BY <1>1, <1>2 DEF NotCompared, NoWalk
<1>4. ComparisonIsSound => ComparisonIsSound'
  BY <1>1, <1>2 DEF ComparisonIsSound, RunDirIsSound, TrialsAreSound, WalkIsSound, BestIsBest, GreedyFell, TableIsFilled
<1> QED BY <1>1, <1>2, <1>3, <1>4 DEF BaselinesInvariant

-----------------------------------------------------------------------------
(* What a finished comparison says.                                        *)

\* All methods of a table.
AllMethods == FixedMethods \cup {"greedy_single_pass", "random_single_pass_best"}

\* The names of the methods are in a strict order.
LEMMA NamesAreOrdered ==
  \E place \in [AllMethods -> Nat] : \A m, n \in AllMethods :
    (NameBefore(m, n) <=> place[m] <= place[n]) /\ (place[m] = place[n] => m = n)
<1> DEFINE place == [m \in AllMethods |-> CHOOSE i \in 1 .. 7 : Methods[i] = m]
<1>1. /\ DOMAIN Methods = 1 .. 7
      /\ \A i, j \in 1 .. 7 : Methods[i] = Methods[j] => i = j
  BY DEF Methods
<1>2. \A m \in AllMethods : \E i \in 1 .. 7 : Methods[i] = m
  <2>1. /\ Methods[1] = "batch_optimizer" /\ Methods[2] = "config_order_once" /\ Methods[3] = "default_O2"
        /\ Methods[4] = "greedy_single_pass" /\ Methods[5] = "optimized_pipeline"
        /\ Methods[6] = "random_single_pass_best" /\ Methods[7] = "root"
    BY DEF Methods
  <2>2. /\ 1 \in 1 .. 7 /\ 2 \in 1 .. 7 /\ 3 \in 1 .. 7 /\ 4 \in 1 .. 7 /\ 5 \in 1 .. 7 /\ 6 \in 1 .. 7 /\ 7 \in 1 .. 7
    OBVIOUS
  <2> QED BY <2>1, <2>2, Zenon DEF AllMethods, FixedMethods
<1>3. \A m \in AllMethods : place[m] \in 1 .. 7 /\ Methods[place[m]] = m
  BY <1>2
<1>4. place \in [AllMethods -> Nat]
  <2>1. place \in [AllMethods -> 1 .. 7]
    BY <1>3
  <2> HIDE DEF place
  <2> QED BY <2>1
<1> HIDE DEF place
<1>5. ASSUME NEW m \in AllMethods, NEW n \in AllMethods
      PROVE  (NameBefore(m, n) <=> place[m] <= place[n]) /\ (place[m] = place[n] => m = n)
  <2>1. \A i \in 1 .. 7 : (Methods[i] = m <=> i = place[m]) /\ (Methods[i] = n <=> i = place[n])
    BY <1>1, <1>3
  <2> QED BY <1>1, <1>3, <2>1 DEF NameBefore
<1> QED BY <1>4, <1>5

\* The rows are walked.
LEMMA TableIsWalked ==
  ASSUME NEW t, TableIsSound(Compiler, Root, t)
  PROVE  RowsAreWalked(t)
<1>1. \A s : Walk(Root, s) = End(Compiler.apply, Root, s)
  BY WalkIsEnd
<1>2. ASSUME NEW m \in DOMAIN t \ {"default_O2", "batch_optimizer"}, t[m].status = "success"
      PROVE  t[m].out = {Walk(Root, t[m].sequence)}
  BY <1>1, <1>2 DEF TableIsSound, Good
<1> QED BY <1>2 DEF RowsAreWalked, TableIsSound

\* Whoever succeeded shows a count.
LEMMA CandidatesHaveModules ==
  ASSUME SearchInvariant, ComparisonIsSound, NEW m \in DOMAIN table, table[m].status = "success"
  PROVE  table[m].out # {} /\ Count(Final(table[m])) \in Nat
<1>1. PICK n \in IR : table[m].out = {n}
  BY DEF ComparisonIsSound, TableIsFilled, HasModule
<1>2. Final(table[m]) = n
  BY <1>1, FinalIs
<1>3. Compiler.objective[n] \in Nat
  BY EndFacts DEF World
<1> QED BY <1>1, <1>2, <1>3 DEF Count

\* One method is named, and none that ran is better.
LEMMA OneMethodIsBest ==
  ASSUME SearchInvariant, ComparisonIsSound, pc = "compared"
  PROVE  \E m \in DOMAIN table :
           /\ BestMethod = {m} /\ table[m].status = "success"
           /\ \A n \in DOMAIN table :
                table[n].status = "success" => Count(Final(table[m])) <= Count(Final(table[n]))
<1> DEFINE S == {m \in DOMAIN table : table[m].status = "success" /\ table[m].out # {}}
           f == [m \in S |-> Count(Final(table[m]))]
<1>1. DOMAIN table = AllMethods
  BY FilledAt DEF ComparisonIsSound, TableIsFilled, AllMethods
<1>2. S \in SUBSET AllMethods /\ "root" \in S
  <2>1. "root" \in DOMAIN table
    BY <1>1 DEF AllMethods, FixedMethods
  <2>2. table["root"].status = "success"
    BY <2>1 DEF ComparisonIsSound, TableIsFilled
  <2> QED BY <1>1, <2>1, <2>2, CandidatesHaveModules
<1>3. PICK place \in [AllMethods -> Nat] : \A m, n \in AllMethods :
        (NameBefore(m, n) <=> place[m] <= place[n]) /\ (place[m] = place[n] => m = n)
  BY NamesAreOrdered
<1>4. \A m \in S : f[m] \in Nat /\ place[m] \in Nat /\ f[m] = Count(Final(table[m]))
  BY <1>2, CandidatesHaveModules
<1>5. \A n \in DOMAIN table : table[n].status = "success" => n \in S
  BY CandidatesHaveModules
<1>6. BestMethod = {m \in S : \A n \in S :
                      LET p == Count(Final(table[m]))
                          q == Count(Final(table[n]))
                      IN p < q \/ (p = q /\ NameBefore(m, n))}
  BY DEF BestMethod, BestOf
<1>7. \A m \in S : table[m].status = "success" /\ m \in DOMAIN table
  OBVIOUS
<1> HIDE DEF S, f
<1>8. PICK m \in S : \A n \in S : f[m] < f[n] \/ (f[m] = f[n] /\ place[m] <= place[n])
  BY <1>2, <1>4, LeastPair
<1>9. \A n \in S : f[m] <= f[n]
  BY <1>4, <1>8
<1>10. BestMethod = {x \in S : \A n \in S : f[x] < f[n] \/ (f[x] = f[n] /\ place[x] <= place[n])}
  BY <1>2, <1>3, <1>4, <1>6
<1>11. BestMethod = {m}
  <2>1. m \in BestMethod
    BY <1>8, <1>10
  <2>2. ASSUME NEW x \in BestMethod PROVE x = m
    <3>1. x \in S /\ (f[x] < f[m] \/ (f[x] = f[m] /\ place[x] <= place[m]))
      BY <1>10
    <3>2. f[m] < f[x] \/ (f[m] = f[x] /\ place[m] <= place[x])
      BY <1>8, <3>1
    <3>3. place[x] = place[m]
      BY <1>4, <3>1, <3>2
    <3> QED BY <1>2, <1>3, <3>1, <3>3
  <2> QED BY <2>1, <2>2
<1> QED BY <1>4, <1>5, <1>7, <1>9, <1>11

\* So the verdicts are earned,
LEMMA VerdictsFollow ==
  ASSUME SearchInvariant, ComparisonIsSound
  PROVE  VerdictsAreEarned
<1> SUFFICES ASSUME pc = "compared" PROVE VerdictsAreEarned
  BY DEF VerdictsAreEarned
<1>1. written = table
  BY DEF ComparisonIsSound
<1>2. PICK m \in DOMAIN table :
        /\ BestMethod = {m} /\ table[m].status = "success"
        /\ \A n \in DOMAIN table :
             table[n].status = "success" => Count(Final(table[m])) <= Count(Final(table[n]))
  BY OneMethodIsBest
<1>3. Cardinality(BestMethod) = 1
  BY <1>2, FS_Singleton
<1>4. ASSUME NEW x \in {"greedy_single_pass", "random_single_pass_best", "default_O2"}, Compares(x)
      PROVE  /\ table["batch_optimizer"].status = "success"
             /\ table[x].status = "success" \/ (x = "random_single_pass_best" /\ Trials = 0)
  <2>1. /\ "batch_optimizer" \in DOMAIN table /\ x \in DOMAIN table
        /\ table["batch_optimizer"].out # {} /\ table[x].out # {}
    BY <1>4 DEF Compares
  <2>2. table["batch_optimizer"].status = "success"
    BY <2>1 DEF ComparisonIsSound, TableIsFilled, Shown
  <2>3. CASE x = "random_single_pass_best"
    BY <2>1, <2>2, <2>3 DEF ComparisonIsSound, BestIsBest, Shown
  <2>4. CASE x # "random_single_pass_best"
    BY <2>1, <2>2, <2>4 DEF ComparisonIsSound, TableIsFilled, Shown
  <2> QED BY <2>3, <2>4
<1> QED BY <1>1, <1>2, <1>3, <1>4 DEF VerdictsAreEarned

\* and the comparison is fair.
LEMMA ComparisonsAreFair ==
  ASSUME SearchInvariant, BaselinesInvariant
  PROVE  BaselinesAreFair
<1> SUFFICES ASSUME pc \in {"write", "compared", "aborted"} PROVE BaselinesAreFair
  BY DEF BaselinesAreFair
<1>1. ComparisonIsSound
  BY DEF BaselinesInvariant, Comparing
<1>2. RowsAreWalked(table) /\ RowsAreWalked(written)
  BY <1>1, TableIsWalked DEF ComparisonIsSound
<1>3. GreedyGoesDown
  BY <1>1, WalkIsEnd DEF ComparisonIsSound, GreedyFell, GreedyGoesDown, Falls, Count
<1>4. NoTrialIsBetter
  BY <1>1 DEF ComparisonIsSound, BestIsBest, NoTrialIsBetter, Count
<1>5. VerdictsAreEarned
  BY <1>1, VerdictsFollow
<1> QED BY <1>2, <1>3, <1>4, <1>5 DEF BaselinesAreFair

\* compare_baselines is fair: rows are what their passes make, also next to rows of an
\* older comparison and after an interruption, and its verdicts name methods that ran.
THEOREM BaselinesAlwaysFair == CommandSpec => []BaselinesAreFair
<1> DEFINE Inv == SearchInvariant /\ StagesInvariant /\ BaselinesInvariant
<1>1. CommandInit => Inv
  <2> SUFFICES ASSUME CommandInit PROVE Inv
    OBVIOUS
  <2>1. pc = "round"
    BY DEF CommandInit, ExplorerInit, Init
  <2>2. NotCompared
    BY DEF CommandInit, BaselinesInit, NotCompared
  <2> QED BY <2>1, <2>2, CommandInitIsSound DEF BaselinesInvariant, Comparing
<1>2. Inv /\ [CommandNext]_commandVars => Inv'
  <2> SUFFICES ASSUME Inv, [CommandNext]_commandVars PROVE Inv'
    OBVIOUS
  <2>1. SearchInvariant' /\ StagesInvariant'
    BY CommandStepKeeps
  <2>2. BaselinesInvariant'
    BY BaselinesStepCompares, SearchStepCompares, StageStepCompares, NothingCompares DEF CommandNext
  <2> QED BY <2>1, <2>2
<1>3. Inv => BaselinesAreFair
  BY ComparisonsAreFair
<1> QED BY <1>1, <1>2, <1>3, PTL DEF CommandSpec

-----------------------------------------------------------------------------
(* The explorers. The inductive invariant.                                 *)

\* An explorer is running, or has run.
Exploring == ByBatches \/ ByStates
\* The rows of states.csv but the root.
Offspring == Rows \ {1}
\* What is tried from a row: each active pass, or each certifiable batch.
Wanted(i) == IF ByStates THEN Active(rows[i].module) ELSE Certifiable(rows[i].module)
\* This batch is still to be tried from the parent of now.
IsDue(i, b) == pc = "apply" /\ i = Parent /\ b \in pending
\* What led to this row is to be tried again.
IsDueAgain(j) == IsDue(rows[j].parent, rows[j].batch)
\* Two rows of one trial.
AreTwins(j, k) == rows[j].parent = rows[k].parent /\ rows[j].batch = rows[k].batch
\* The row of a trial.
IsChild(j, i, b) == rows[j].parent = i /\ rows[j].batch = b
\* A trial that has its row.
Tried(i, b) == \E j \in Offspring : IsChild(j, i, b)

\* What is wanted of an expanded row is lost, cut off, due or tried, and nothing twice.
TriedOnce ==
  /\ rows[1].parent = 0
  /\ \A i \in expanded : Original(i)
  /\ \A j \in Offspring : rows[j].parent \in expanded /\ ~ IsDueAgain(j)
  /\ \A j, k \in Offspring : AreTwins(j, k) => j = k
  /\ \A i \in expanded : \A b \in Wanted(i) : <<i, b>> \in lost \cup skipped \/ IsDue(i, b) \/ Tried(i, b)

\* Batches that took a place of row i.
Placed(i, b) == <<i, b>> \in skipped \/ IsDue(i, b) \/ Tried(i, b)
\* The batches that took a place are among the chosen ones.
Places(i, chosen) == \A b \in Batches : Placed(i, b) => b \in chosen
\* Within the limit of batches for a row.
Few(chosen) == chosen \in SUBSET Batches /\ Cardinality(chosen) <= limits.batches
\* explore_batches tries no more batches from a row than its limit.
LimitIsKept ==
  ByBatches =>
    /\ limits \in Limits
    /\ skipped \subseteq expanded \X Batches
    /\ \A i \in expanded, b \in Batches : <<i, b>> \in skipped => ~ IsDue(i, b) /\ ~ Tried(i, b)
    /\ \A i \in expanded : \E chosen : Few(chosen) /\ Places(i, chosen)

\* Nothing is in a sequence twice.
Distinct(s) == \A j, k \in DOMAIN s : s[j] = s[k] => j = k

\* Nothing in the queue but its head was expanded.
QueueIsNew ==
  /\ ~ stop
  /\ Searching => /\ Distinct(queue)
                  /\ \A k \in DOMAIN queue : /\ Original(queue[k])
                                             /\ queue[k] \in expanded <=> pc = "apply" /\ k = 1

\* The depth of a row.
DepthOf(i) == rows[i].depth
\* The queue goes by depth, and no row is deeper than its next one.
QueueIsOrdered ==
  /\ \A j, k \in DOMAIN queue : j <= k => DepthOf(queue[j]) <= DepthOf(queue[k])
  /\ queue # <<>> => \A i \in Rows : DepthOf(i) <= DepthOf(Parent) + 1
\* A row that needs nothing more.
IsTaken(i) == i \in expanded \/ DepthOf(i) >= MaxRounds
\* Every state was taken or is waiting.
NoneIsForgotten == \A i \in Rows : Original(i) => IsTaken(i) \/ (Searching /\ i \in Range(queue))

\* explore_states takes the states in the order of their depths.
StatesComeInOrder ==
  ByStates =>
    /\ round = 0
    /\ pc = "round" => frontier = <<1>> /\ expanded = {} /\ Len(rows) = 1
    /\ Searching => QueueIsOrdered
    /\ pc \in {"parent", "apply", "finish", "explored"} => NoneIsForgotten

\* How many of n states of depth d are expanded.
Share(n, d) == IF d = 0 \/ n < limits.frontier THEN n ELSE limits.frontier
\* Of this layer its share is expanded.
LayerIsDone(d) == Cardinality(Layer(d) \cap expanded) = Share(Cardinality(Layer(d)), d)
\* The frontier is a share of its layer.
FrontierIsShare ==
  /\ Distinct(frontier) /\ Range(frontier) \subseteq Layer(round)
  /\ Len(frontier) = Share(Cardinality(Layer(round)), round)

\* The layers before this round are done.
EarlierAreDone == \A d \in Nat : d < round => LayerIsDone(d)

\* Within a round: what the queue and the children are of its layers.
RoundIsOn ==
  /\ \A i \in expanded : rows[i].depth <= round
  /\ Range(frontier) = Range(queue) \cup (Layer(round) \cap expanded)
  /\ Distinct(children) /\ Range(children) = Layer(round + 1)

\* explore_batches goes layer by layer.
LayersAreExpanded ==
  ByBatches =>
    /\ EarlierAreDone
    /\ pc = "round" \/ Searching => FrontierIsShare
    /\ pc = "round" => \A i \in expanded : rows[i].depth < round
    /\ Searching => RoundIsOn
    /\ pc = "layer" => queue = <<>>
    /\ pc \in {"finish", "explored"} => round = MaxRounds

\* What holds throughout an exploration.
ExplorationHolds ==
  /\ StatesAreShallow /\ TriedOnce /\ LimitIsKept /\ QueueIsNew
  /\ StatesComeInOrder /\ LayersAreExpanded
\* The inductive invariant of the explorers.
ExplorationInvariant == Exploring => ExplorationHolds

\* Intervals are counted.
LEMMA IntervalIsCounted ==
  ASSUME NEW n \in Nat
  PROVE  /\ IsFiniteSet(1 .. n) /\ Cardinality(1 .. n) = n
         /\ IsFiniteSet(0 .. n - 1) /\ Cardinality(0 .. n - 1) = n
<1>1. n \in Int /\ n - 1 \in Int /\ 0 \in Int /\ 1 \in Int
  OBVIOUS
<1>2. IsFiniteSet(1 .. n) /\ Cardinality(1 .. n) = IF 1 > n THEN 0 ELSE n - 1 + 1
  BY <1>1, FS_Interval
<1>3. IsFiniteSet(0 .. n - 1) /\ Cardinality(0 .. n - 1) = IF 0 > n - 1 THEN 0 ELSE (n - 1) - 0 + 1
  BY <1>1, FS_Interval
<1> QED BY <1>2, <1>3

\* Distinct entries are as many as the sequence is long.
LEMMA DistinctAreCounted ==
  ASSUME NEW s \in Seq(Nat), Distinct(s)
  PROVE  IsFiniteSet(Range(s)) /\ Cardinality(Range(s)) = Len(s)
<1>1. Len(s) \in Nat /\ DOMAIN s = 1 .. Len(s)
  OBVIOUS
<1>2. IsFiniteSet(1 .. Len(s)) /\ Cardinality(1 .. Len(s)) = Len(s)
  BY <1>1, IntervalIsCounted
<1>3. s \in Bijection(1 .. Len(s), Range(s))
  <2>1. s \in Surjection(1 .. Len(s), Range(s))
    BY <1>1 DEF Surjection, Range
  <2>2. s \in Injection(1 .. Len(s), Range(s))
    BY <1>1 DEF Injection, IsInjective, Distinct, Range
  <2> QED BY <2>1, <2>2 DEF Bijection
<1>4. ExistsBijection(1 .. Len(s), Range(s))
  BY <1>3 DEF ExistsBijection
<1> QED BY <1>2, <1>4, FS_Bijection

\* As many batches are chosen as the limit allows.
LEMMA ChosenAreFew ==
  ASSUME CandidateAssumption, limits \in Limits, NEW candidates \in SUBSET Batches, NEW certified
  PROVE  Few(Chosen(candidates, certified))
<1> DEFINE Ahead(b) == {c \in candidates : Before(c, b, certified)}
           C == Chosen(candidates, certified)
           K == limits.batches
<1>1. K \in Nat
  BY LegacyAssumption
<1>2. IsFiniteSet(candidates)
  BY FS_Subset DEF CandidateAssumption
<1>3. \A b \in candidates : IsFiniteSet(Ahead(b)) /\ Cardinality(Ahead(b)) \in Nat
  BY <1>2, FS_Subset, FS_CardinalityType
<1>4. C \subseteq candidates /\ \A b \in C : Cardinality(Ahead(b)) < K
  BY DEF Chosen
<1>5. ASSUME NEW b \in candidates, NEW c \in candidates, Before(b, c, certified)
      PROVE  Cardinality(Ahead(b)) < Cardinality(Ahead(c))
  <2>1. Ahead(b) \subseteq Ahead(c) \ {b}
    <3> SUFFICES ASSUME NEW d \in candidates, Before(d, b, certified) PROVE Before(d, c, certified) /\ d # b
      OBVIOUS
    <3>1. b \in Nat /\ c \in Nat /\ d \in Nat
      BY DEF CandidateAssumption
    <3> QED BY <1>5, <3>1 DEF Before
  <2>2. b \in Ahead(c)
    BY <1>5
  <2> HIDE DEF Ahead
  <2>3. IsFiniteSet(Ahead(c)) /\ Cardinality(Ahead(c) \ {b}) = Cardinality(Ahead(c)) - 1
    BY <1>3, <2>2, FS_RemoveElement
  <2>4. Cardinality(Ahead(b)) <= Cardinality(Ahead(c) \ {b})
    BY <2>1, <2>3, FS_Subset, FS_RemoveElement
  <2> QED BY <1>3, <2>3, <2>4
<1>6. \A b, c \in candidates : b # c => Before(b, c, certified) \/ Before(c, b, certified)
  BY DEF Before, CandidateAssumption
<1> DEFINE f == [b \in C |-> Cardinality(Ahead(b))]
<1>7. f \in Injection(C, 0 .. K - 1)
  <2>1. f \in [C -> 0 .. K - 1]
    <3> HIDE DEF Ahead, C
    <3> QED BY <1>1, <1>3, <1>4
  <2>2. \A b, c \in C : f[b] = f[c] => b = c
    <3> SUFFICES ASSUME NEW b \in C, NEW c \in C, b # c PROVE Cardinality(Ahead(b)) # Cardinality(Ahead(c))
      OBVIOUS
    <3> HIDE DEF Ahead, C
    <3> QED BY <1>3, <1>4, <1>5, <1>6
  <2> HIDE DEF f, C
  <2> QED BY <2>1, <2>2 DEF Injection, IsInjective
<1>8. IsFiniteSet(0 .. K - 1) /\ Cardinality(0 .. K - 1) = K
  BY <1>1, IntervalIsCounted
<1>9. Cardinality(C) <= K
  <2> HIDE DEF C, f, K
  <2> QED BY <1>7, <1>8, FS_Injection
<1> QED BY <1>4, <1>9 DEF Few

-----------------------------------------------------------------------------
(* What was tried, once each.                                              *)

\* Rows that stay.
LEMMA RowsStand ==
  ASSUME UNCHANGED <<world, mode, rows>>
  PROVE  /\ Rows' = Rows /\ Offspring' = Offspring /\ ByStates' = ByStates /\ ByBatches' = ByBatches
         /\ Compiler' = Compiler
         /\ \A i : Original(i)' = Original(i) /\ Wanted(i)' = Wanted(i)
         /\ \A i, b : Tried(i, b)' = Tried(i, b)
         /\ \A j, i, b : IsChild(j, i, b)' = IsChild(j, i, b)
<1>1. /\ Rows' = Rows /\ ByStates' = ByStates /\ ByBatches' = ByBatches /\ Compiler' = Compiler
  BY DEF Rows, ByStates, ByBatches, Compiler
<1>2. Offspring' = Offspring
  BY <1>1 DEF Offspring
<1>3. \A j, i, b : IsChild(j, i, b)' = IsChild(j, i, b)
  BY DEF IsChild
<1>4. \A i, b : Tried(i, b)' = Tried(i, b)
  BY <1>2, <1>3 DEF Tried
<1>5. \A i : Original(i)' = Original(i) /\ Wanted(i)' = Wanted(i)
  BY <1>1 DEF Original, Wanted, Active, Certifiable
<1> QED BY <1>1, <1>2, <1>3, <1>4, <1>5

\* What was due and is not has been lost.
LEMMA DueIsSettled ==
  ASSUME TriedOnce, LimitIsKept,
         UNCHANGED <<world, mode, limits, rows, skipped, expanded>>, lost \subseteq lost',
         \A i, b : IsDue(i, b)' => IsDue(i, b),
         \A i, b : IsDue(i, b) => IsDue(i, b)' \/ <<i, b>> \in lost'
  PROVE  TriedOnce' /\ LimitIsKept'
<1>1. TriedOnce'
  <2> USE RowsStand
  <2>1. \A i \in expanded : \A b \in Wanted(i) :
          <<i, b>> \in lost' \cup skipped \/ IsDue(i, b)' \/ Tried(i, b)
    BY DEF TriedOnce
  <2>2. \A j \in Offspring : rows[j].parent \in expanded /\ ~ IsDueAgain(j)'
    BY DEF TriedOnce, IsDueAgain
  <2>3. \A j, k \in Offspring : AreTwins(j, k) => j = k
    BY DEF TriedOnce
  <2>4. rows[1].parent = 0 /\ \A i \in expanded : Original(i)
    BY DEF TriedOnce
  <2>5. \A j, k \in Offspring' : AreTwins(j, k)' => j = k
    BY <2>3 DEF AreTwins
  <2> QED BY <2>1, <2>2, <2>4, <2>5 DEF TriedOnce
<1>2. LimitIsKept'
  <2> SUFFICES ASSUME ByBatches PROVE LimitIsKept'
    BY RowsStand DEF LimitIsKept
  <2>1. limits' \in Limits /\ skipped' \subseteq expanded' \X Batches
    BY DEF LimitIsKept
  <2>2. \A i \in expanded, b \in Batches : <<i, b>> \in skipped => ~ IsDue(i, b)' /\ ~ Tried(i, b)
    BY DEF LimitIsKept
  <2>3. ASSUME NEW i \in expanded PROVE \E chosen : (Few(chosen) /\ Places(i, chosen))'
    <3>1. PICK chosen : Few(chosen) /\ Places(i, chosen)
      BY DEF LimitIsKept
    <3>2. Few(chosen)'
      BY <3>1 DEF Few
    <3>3. Places(i, chosen)'
      BY <3>1, RowsStand DEF Places, Placed
    <3> QED BY <3>2, <3>3
  <2> QED BY <2>1, <2>2, <2>3, RowsStand DEF LimitIsKept
<1> QED BY <1>1, <1>2

\* A parent is next: what it is expanded by is due, was skipped or is lost.
LEMMA ParentTries ==
  ASSUME TriedOnce, LimitIsKept, pc = "parent", pc' = "apply", Parent' = Parent,
         Parent \notin expanded, Original(Parent), expanded' = expanded \cup {Parent},
         UNCHANGED <<world, mode, limits, rows>>,
         lost \subseteq lost',
         NEW S \in SUBSET Batches, skipped' = skipped \cup {<<Parent, b>> : b \in S},
         S \cap pending' = {},
         \A b \in Wanted(Parent) : <<Parent, b>> \in lost' \cup skipped' \/ b \in pending',
         ByBatches => \E chosen : Few(chosen) /\ S \cup pending' \subseteq chosen
  PROVE  TriedOnce' /\ LimitIsKept'
<1>1. \A i, b : ~ IsDue(i, b) /\ (IsDue(i, b)' <=> i = Parent /\ b \in pending')
  BY DEF IsDue
<1>2. \A j \in Offspring : rows[j].parent \in expanded /\ rows[j].parent # Parent
  BY DEF TriedOnce
<1>3. \A b : ~ Tried(Parent, b)
  BY <1>2 DEF Tried, IsChild
<1>4. \A i, b : i \in expanded => (<<i, b>> \in skipped' <=> <<i, b>> \in skipped)
  OBVIOUS
<1>5. TriedOnce'
  <2> USE RowsStand
  <2>1. \A i \in expanded' : \A b \in Wanted(i) :
          <<i, b>> \in lost' \cup skipped' \/ IsDue(i, b)' \/ Tried(i, b)
    <3>1. ASSUME NEW i \in expanded, NEW b \in Wanted(i)
          PROVE  <<i, b>> \in lost' \cup skipped' \/ Tried(i, b)
      BY <1>1 DEF TriedOnce
    <3> QED BY <1>1, <3>1
  <2>2. \A j \in Offspring : rows[j].parent \in expanded' /\ ~ IsDueAgain(j)'
    BY <1>1, <1>2 DEF IsDueAgain
  <2>3. \A j, k \in Offspring' : AreTwins(j, k)' => j = k
    BY DEF TriedOnce, AreTwins
  <2>4. rows[1].parent = 0 /\ \A i \in expanded' : Original(i)
    BY DEF TriedOnce
  <2> QED BY <2>1, <2>2, <2>3, <2>4 DEF TriedOnce
<1>6. LimitIsKept'
  <2> SUFFICES ASSUME ByBatches PROVE LimitIsKept'
    BY RowsStand DEF LimitIsKept
  <2>1. limits' \in Limits /\ skipped \subseteq expanded \X Batches
    BY DEF LimitIsKept
  <2>2. skipped' \subseteq expanded' \X Batches
    BY <2>1
  <2>3. ASSUME NEW i \in expanded', NEW b \in Batches, <<i, b>> \in skipped'
        PROVE  ~ IsDue(i, b)' /\ ~ Tried(i, b)
    <3>1. CASE i \in expanded
      BY <1>1, <1>4, <2>3, <3>1 DEF LimitIsKept
    <3>2. CASE i = Parent
      <4>1. <<i, b>> \notin skipped
        BY <2>1, <3>2
      <4>2. b \in S
        BY <2>3, <3>2, <4>1
      <4> QED BY <1>1, <1>3, <3>2, <4>2
    <3> QED BY <3>1, <3>2
  <2>4. ASSUME NEW i \in expanded' PROVE \E chosen : (Few(chosen) /\ Places(i, chosen))'
    <3>1. CASE i \in expanded
      <4>1. PICK chosen : Few(chosen) /\ Places(i, chosen)
        BY <3>1 DEF LimitIsKept
      <4>2. Few(chosen)'
        BY <4>1 DEF Few
      <4>3. Places(i, chosen)'
        BY <1>1, <1>4, <3>1, <4>1, RowsStand DEF Places, Placed
      <4> QED BY <4>2, <4>3
    <3>2. CASE i = Parent
      <4>1. PICK chosen : Few(chosen) /\ S \cup pending' \subseteq chosen
        OBVIOUS
      <4>2. Few(chosen)'
        BY <4>1 DEF Few
      <4>3. \A b \in Batches : <<Parent, b>> \in skipped' => b \in S
        BY <2>1
      <4>4. Places(i, chosen)'
        BY <1>1, <1>3, <3>2, <4>1, <4>3, RowsStand DEF Places, Placed
      <4> QED BY <4>2, <4>4
    <3> QED BY <3>1, <3>2
  <2> QED BY <2>1, <2>2, <2>3, <2>4, RowsStand DEF LimitIsKept
<1> QED BY <1>5, <1>6

\* A child is recorded.
LEMMA ChildTries ==
  ASSUME TriedOnce, LimitIsKept, RowsAreRecorded, expanded \subseteq Rows, Parent \in expanded,
         pc = "apply", pc' = "apply", Parent' = Parent,
         NEW b \in pending, pending' = pending \ {b}, pending \subseteq Batches,
         UNCHANGED <<world, mode, limits, lost, skipped, expanded>>,
         NEW r \in StateRow, rows' = Append(rows, r), r.parent = Parent, r.batch = b
  PROVE  TriedOnce' /\ LimitIsKept'
<1>1. PICK n :
           /\ 1 \in Rows /\ n # 1 /\ n \in Rows' /\ rows'[n] = r
           /\ \A i \in Rows : i \in Rows' /\ i # n /\ rows'[i] = rows[i]
           /\ \A i \in Rows' : i \in Rows \/ i = n
  <2>1. Len(rows) + 1 # 1
    BY RowIsAppended
  <2> QED BY <2>1, RowIsAppended
<1>2. /\ Offspring' = Offspring \cup {n} /\ n \notin Offspring /\ Offspring \subseteq Rows
      /\ \A j \in Offspring : rows'[j] = rows[j]
  BY <1>1 DEF Offspring
<1>3. /\ \A j \in Offspring : \A i, c : IsChild(j, i, c)' <=> IsChild(j, i, c)
      /\ \A i, c : IsChild(n, i, c)' <=> (i = Parent /\ c = b)
  <2>1. ASSUME NEW j \in Offspring, NEW i, NEW c PROVE IsChild(j, i, c)' <=> IsChild(j, i, c)
    BY <1>2 DEF IsChild
  <2>2. rows'[n].parent = Parent /\ rows'[n].batch = b
    BY <1>1
  <2>3. ASSUME NEW i, NEW c PROVE IsChild(n, i, c)' <=> (i = Parent /\ c = b)
    <3>1. IsChild(n, i, c)' <=> rows'[n].parent = i /\ rows'[n].batch = c
      BY DEF IsChild
    <3> QED BY <2>2, <3>1
  <2> QED BY <2>1, <2>3
<1>4. \A i, c : Tried(i, c)' <=> Tried(i, c) \/ (i = Parent /\ c = b)
  <2> SUFFICES ASSUME NEW i, NEW c PROVE Tried(i, c)' <=> Tried(i, c) \/ (i = Parent /\ c = b)
    OBVIOUS
  <2>1. Tried(i, c)' <=> \E j \in Offspring' : IsChild(j, i, c)'
    BY DEF Tried
  <2>2. (\E j \in Offspring' : IsChild(j, i, c)') <=> (\E j \in Offspring : IsChild(j, i, c)') \/ IsChild(n, i, c)'
    BY <1>2
  <2>3. (\E j \in Offspring : IsChild(j, i, c)') <=> Tried(i, c)
    BY <1>3 DEF Tried
  <2> QED BY <1>3, <2>1, <2>2, <2>3
<1>5. \A i, c : /\ IsDue(i, c) <=> i = Parent /\ c \in pending
                /\ IsDue(i, c)' <=> i = Parent /\ c \in pending /\ c # b
  BY DEF IsDue
<1>6. /\ ByStates' = ByStates /\ ByBatches' = ByBatches /\ Compiler' = Compiler
      /\ \A i \in expanded : Original(i)' = Original(i) /\ Wanted(i)' = Wanted(i)
  <2>1. ByStates' = ByStates /\ ByBatches' = ByBatches /\ Compiler' = Compiler
    BY DEF ByStates, ByBatches, Compiler
  <2> QED BY <1>1, <2>1 DEF Original, Wanted, Active, Certifiable
<1>7. \A j \in Offspring : rows[j].parent \in expanded /\ ~ IsDue(rows[j].parent, rows[j].batch)
  BY DEF TriedOnce, IsDueAgain
<1>8. \A j \in Offspring : ~ IsChild(j, Parent, b)
  BY <1>5, <1>7 DEF IsChild
<1>9. TriedOnce'
  <2>1. \A i \in expanded : \A c \in Wanted(i) :
          <<i, c>> \in lost \cup skipped \/ IsDue(i, c)' \/ Tried(i, c)'
    BY <1>4, <1>5 DEF TriedOnce
  <2>2. ASSUME NEW j \in Offspring' PROVE rows'[j].parent \in expanded /\ ~ IsDueAgain(j)'
    <3>1. CASE j \in Offspring
      BY <1>2, <1>5, <1>7, <3>1 DEF IsDueAgain, IsDue
    <3>2. CASE j = n
      BY <1>1, <3>2 DEF IsDueAgain, IsDue
    <3> QED BY <1>2, <3>1, <3>2
  <2>3. ASSUME NEW j \in Offspring', NEW k \in Offspring', AreTwins(j, k)'
        PROVE  j = k
    <3>1. CASE j \in Offspring /\ k \in Offspring
      BY <1>2, <2>3, <3>1 DEF TriedOnce, AreTwins
    <3>2. CASE j \in Offspring /\ k = n
      BY <1>1, <1>2, <1>8, <2>3, <3>2 DEF AreTwins, IsChild
    <3>3. CASE j = n /\ k \in Offspring
      BY <1>1, <1>2, <1>8, <2>3, <3>3 DEF AreTwins, IsChild
    <3> QED BY <1>2, <3>1, <3>2, <3>3
  <2>4. rows'[1].parent = 0 /\ \A i \in expanded : Original(i)'
    BY <1>1, <1>6 DEF TriedOnce
  <2> QED BY <1>6, <2>1, <2>2, <2>3, <2>4 DEF TriedOnce
<1>10. LimitIsKept'
  <2> SUFFICES ASSUME ByBatches PROVE LimitIsKept'
    BY <1>6 DEF LimitIsKept
  <2>1. limits' \in Limits /\ skipped' \subseteq expanded' \X Batches
    BY DEF LimitIsKept
  <2>2. \A i \in expanded, c \in Batches : <<i, c>> \in skipped => ~ IsDue(i, c)' /\ ~ Tried(i, c)'
    BY <1>4, <1>5 DEF LimitIsKept
  <2>3. ASSUME NEW i \in expanded PROVE \E chosen : (Few(chosen) /\ Places(i, chosen))'
    <3>1. PICK chosen : Few(chosen) /\ Places(i, chosen)
      BY DEF LimitIsKept
    <3>2. Few(chosen)'
      BY <3>1 DEF Few
    <3>3. Places(i, chosen)'
      BY <1>4, <1>5, <3>1 DEF Places, Placed
    <3> QED BY <3>2, <3>3
  <2> QED BY <1>6, <2>1, <2>2, <2>3 DEF LimitIsKept
<1> QED BY <1>9, <1>10

-----------------------------------------------------------------------------
(* What an explorer records.                                               *)

\* A row is recorded for batch b of the parent: only a new state can be expanded.
Records(b, r) ==
  /\ rows' = Append(rows, r)
  /\ r.parent = Parent /\ r.batch = b /\ r.depth = rows[Parent].depth + 1
  /\ r.copyOf \in {0} \cup Known(Child(b))
  /\ children' = IF ByBatches /\ r.copyOf = 0 THEN Append(children, Len(rows) + 1) ELSE children
  /\ queue' = IF ByStates /\ r.copyOf = 0 THEN Append(queue, Len(rows) + 1) ELSE queue

\* What the explorers do with a batch of the parent.
LEMMA ChildIsRecorded ==
  ASSUME SearchInvariant, NEW b \in pending, ExploreBatch(b) \/ ExplorePass(b)
  PROVE  /\ Exploring /\ pc = "apply" /\ pc' = "apply" /\ pending' = pending \ {b}
         /\ UNCHANGED <<world, mode, limits, lost, skipped, expanded, round, frontier, stop>>
         /\ \E r \in StateRow : Records(b, r)
<1>1. /\ Exploring /\ pc = "apply" /\ pc' = "apply" /\ pending' = pending \ {b}
      /\ UNCHANGED <<world, mode, limits, lost, skipped, expanded, round, frontier, stop>>
  BY DEF ExploreBatch, ExplorePass, IsNext, runVars, Exploring
<1> DEFINE d == rows[Parent].depth + 1
<1>2. ASSUME NEW copy \in 0 .. Len(rows)
      PROVE  /\ Row(b, copy, d) \in StateRow
             /\ Row(b, copy, d).parent = Parent /\ Row(b, copy, d).batch = b
             /\ Row(b, copy, d).depth = d /\ Row(b, copy, d).copyOf = copy
  BY <1>1, RowFits DEF Fits
<1>3. /\ Len(rows) \in Nat /\ 0 \in 0 .. Len(rows) /\ 0 \notin Known(Child(b))
      /\ \A i \in Known(Child(b)) : i \in 0 .. Len(rows) /\ i # 0
  <2>1. Len(rows) \in Nat /\ 0 \notin Rows
    BY DEF SearchInvariant, RowsInvariant, RowsAreRecorded, Rows
  <2>2. \A i \in Known(Child(b)) : i \in Rows /\ i \in 1 .. Len(rows)
    BY KnownRow
  <2> QED BY <2>1, <2>2
<1> HIDE DEF d
<1>4. ASSUME Known(Child(b)) = {}, rows' = Append(rows, Row(b, 0, d))
      PROVE  Len(rows') = Len(rows) + 1
  <2>1. RowsAreRecorded
    BY DEF SearchInvariant, RowsInvariant
  <2> QED BY <1>2, <1>3, <1>4, <2>1, RowIsAppended
<1>5. CASE ExploreBatch(b)
  <2>1. ByBatches /\ ~ ByStates /\ queue' = queue
    BY <1>5 DEF ExploreBatch, ByBatches, ByStates
  <2>2. d = round + 1
    BY <1>1, <2>1, ChildIsTyped DEF d
  <2>3. CASE Known(Child(b)) = {}
    <3>1. rows' = Append(rows, Row(b, 0, d)) /\ children' = Append(children, Len(rows'))
      BY <1>5, <2>2, <2>3 DEF ExploreBatch
    <3>2. Records(b, Row(b, 0, d))
      BY <1>2, <1>3, <1>4, <2>1, <2>3, <3>1 DEF Records, d
    <3> QED BY <1>1, <1>2, <1>3, <3>2
  <2>4. CASE Known(Child(b)) # {}
    <3>1. PICK i \in Known(Child(b)) : rows' = Append(rows, Row(b, i, d)) /\ children' = children
      BY <1>5, <2>2, <2>4 DEF ExploreBatch
    <3>2. Records(b, Row(b, i, d))
      BY <1>2, <1>3, <2>1, <3>1 DEF Records, d
    <3> QED BY <1>1, <1>2, <1>3, <3>2
  <2> QED BY <2>3, <2>4
<1>6. CASE ExplorePass(b)
  <2>1. ByStates /\ ~ ByBatches /\ children' = children
    BY <1>6 DEF ExplorePass, ByBatches, ByStates
  <2>3. CASE Known(Child(b)) = {}
    <3>1. rows' = Append(rows, Row(b, 0, d)) /\ queue' = Append(queue, Len(rows'))
      BY <1>6, <2>3 DEF ExplorePass, d
    <3>2. Records(b, Row(b, 0, d))
      BY <1>2, <1>3, <1>4, <2>1, <2>3, <3>1 DEF Records, d
    <3> QED BY <1>1, <1>2, <1>3, <3>2
  <2>4. CASE Known(Child(b)) # {}
    <3>1. PICK i \in Known(Child(b)) : rows' = Append(rows, Row(b, i, d)) /\ queue' = queue
      BY <1>6, <2>4 DEF ExplorePass, d
    <3>2. Records(b, Row(b, i, d))
      BY <1>2, <1>3, <2>1, <3>1 DEF Records, d
    <3> QED BY <1>1, <1>2, <1>3, <3>2
  <2> QED BY <2>3, <2>4
<1> QED BY <1>5, <1>6

\* The parent stays while its batches are applied.
LEMMA ParentStays ==
  ASSUME SearchInvariant, pc = "apply", NEW b, NEW r, Records(b, r)
  PROVE  Parent' = Parent
<1>1. queue \in Seq(Nat) /\ queue # <<>> /\ Len(rows) + 1 \in Nat
  BY ApplyFacts DEF SearchInvariant, CallIsTyped, RowsInvariant, RowsAreRecorded
<1>2. Head(Append(queue, Len(rows) + 1)) = Head(queue)
  BY <1>1, AppendKeepsHead
<1> QED BY <1>2 DEF Records, Parent

\* The first in the queue is new.
LEMMA ParentIsNew ==
  ASSUME SearchInvariant, QueueIsNew, pc = "parent", queue # <<>>
  PROVE  Parent \notin expanded /\ Original(Parent)
<1>1. queue \in Seq(Nat)
  BY DEF SearchInvariant, CallIsTyped
<1>2. 1 \in DOMAIN queue /\ Parent = queue[1]
  BY <1>1 DEF Parent
<1> QED BY <1>2 DEF QueueIsNew, Searching

\* The explorers' steps, and what the other searches' steps are for them.
ExplorerStep ==
  \/ StartRound \/ ExploreParent \/ ExploreState
  \/ \E b \in pending : ApplyFails(b) \/ ExploreBatch(b) \/ ExplorePass(b)
  \/ ParentDone \/ LayerDone \/ EndRound \/ QueueEmpty \/ WriteExploration

\* A step of an explorer records a child, or adds no row.
LEMMA ExplorersStep ==
  ASSUME Exploring, (Next /\ UNCHANGED skipped) \/ ExplorerNext
  PROVE  /\ ExplorerStep /\ UNCHANGED <<world, mode, limits>>
         /\ ~ ExplorerNext => UNCHANGED skipped
<1>1. ~ Exact /\ ~ Budgeted /\ mode # "auto"
  BY DEF Exploring, ByBatches, ByStates, Exact, Budgeted
<1>2. CASE ExplorerNext
  <2>1. UNCHANGED <<world, mode, limits>>
    BY <1>2 DEF ExplorerNext, ExploreParent, ExploreState, QueueEmpty, WriteExploration, ExploreBatch, ExplorePass, runVars
  <2> QED BY <1>2, <2>1 DEF ExplorerNext, ExplorerStep
<1>3. CASE Next /\ UNCHANGED skipped
  <2>1. ASSUME NEW b \in pending, ApplyBatch(b) PROVE ApplyFails(b)
    BY <1>1, <2>1 DEF ApplyBatch, NewState, ExactCap, ExactDuplicate, BudgetedCap, BudgetedDuplicate
  <2>2. \/ StartRound \/ ParentDone \/ LayerDone \/ EndRound
        \/ \E b \in pending : ApplyFails(b)
    BY <1>1, <1>3, <2>1 DEF Next, ChooseAutoMode, ExactParent, BudgetedParent, Finish
  <2>3. UNCHANGED <<world, mode, limits>>
    BY <2>2 DEF StartRound, ParentDone, LayerDone, EndRound, ApplyFails, runVars
  <2> QED BY <1>3, <2>2, <2>3 DEF ExplorerStep
<1> QED BY <1>2, <1>3

\* Steps that leave the rows and the expanded states to themselves.
Passing ==
  \/ StartRound \/ ParentDone \/ LayerDone \/ EndRound \/ QueueEmpty \/ WriteExploration
  \/ \E b \in pending : ApplyFails(b)
  \/ ExploreState /\ rows[Parent].depth >= MaxRounds

\* What every step that adds no row leaves alone.
LEMMA PassingSteps ==
  ASSUME Passing, UNCHANGED skipped \/ ExplorerNext
  PROVE  /\ UNCHANGED <<world, mode, limits, rows, skipped, expanded>>
         /\ lost \subseteq lost'
         /\ \A i, b : IsDue(i, b)' => IsDue(i, b)
         /\ \A i, b : IsDue(i, b) => IsDue(i, b)' \/ <<i, b>> \in lost'
<1> USE DEF runVars, searchVars
<1>1. CASE \/ StartRound \/ ParentDone \/ LayerDone \/ EndRound \/ QueueEmpty \/ WriteExploration
  <2>1. UNCHANGED <<world, mode, limits, rows, lost, expanded>>
    BY <1>1 DEF StartRound, ParentDone, LayerDone, EndRound, QueueEmpty, WriteExploration
  <2>2. UNCHANGED skipped
    BY <1>1 DEF StartRound, ParentDone, LayerDone, EndRound, QueueEmpty, WriteExploration,
                ExplorerNext, ExploreParent, ExploreState, ExploreBatch, ExplorePass, Build, IsNext
  <2>3. pc' # "apply" /\ (pc = "apply" => pending = {})
    BY <1>1 DEF StartRound, ParentDone, LayerDone, EndRound, QueueEmpty, WriteExploration
  <2> QED BY <2>1, <2>2, <2>3 DEF IsDue
<1>2. ASSUME NEW c \in pending, ApplyFails(c)
      PROVE  /\ UNCHANGED <<world, mode, limits, rows, skipped, expanded>>
             /\ lost \subseteq lost'
             /\ \A i, b : IsDue(i, b)' => IsDue(i, b)
             /\ \A i, b : IsDue(i, b) => IsDue(i, b)' \/ <<i, b>> \in lost'
  <2>1. /\ UNCHANGED <<world, mode, limits, rows, expanded, queue, pc>> /\ pc = "apply"
        /\ lost' = lost \cup {<<Parent, c>>} /\ pending' = pending \ {c}
    BY <1>2 DEF ApplyFails, IsNext
  <2>2. UNCHANGED skipped
    <3>1. CASE ExplorerNext
      <4>1. \E b \in pending : ExploreBatch(b) \/ ExplorePass(b)
        BY <2>1, <3>1 DEF ExplorerNext, ExploreParent, ExploreState, QueueEmpty, WriteExploration, Build
      <4> QED BY <4>1 DEF ExploreBatch, ExplorePass
    <3> QED BY <3>1
  <2>3. Parent' = Parent
    BY <2>1 DEF Parent
  <2> QED BY <2>1, <2>2, <2>3 DEF IsDue
<1>3. CASE ExploreState /\ rows[Parent].depth >= MaxRounds
  <2>1. /\ UNCHANGED <<world, mode, limits, rows, skipped, expanded, lost>>
        /\ pc = "parent" /\ pc' = pc
    BY <1>3 DEF ExploreState
  <2> QED BY <2>1 DEF IsDue
<1> QED BY <1>1, <1>2, <1>3 DEF Passing

\* What is tried is tried once, and within the limit.
LEMMA TriesAreKept ==
  ASSUME CandidateAssumption, SearchInvariant, Exploring, TriedOnce, LimitIsKept, QueueIsNew,
         (Next /\ UNCHANGED skipped) \/ ExplorerNext
  PROVE  TriedOnce' /\ LimitIsKept'
<1>1. ExplorerStep /\ UNCHANGED <<world, mode, limits>> /\ (~ ExplorerNext => UNCHANGED skipped)
  BY ExplorersStep
<1>2. CASE Passing
  BY <1>1, <1>2, PassingSteps, DueIsSettled
<1>3. ASSUME NEW b \in pending, ExploreBatch(b) \/ ExplorePass(b)
      PROVE  TriedOnce' /\ LimitIsKept'
  <2>1. /\ pc = "apply" /\ pc' = "apply" /\ pending' = pending \ {b}
        /\ UNCHANGED <<world, mode, limits, lost, skipped, expanded>>
    BY <1>3, ChildIsRecorded
  <2>2. PICK r \in StateRow : Records(b, r)
    BY <1>3, ChildIsRecorded
  <2>3. Parent' = Parent
    BY <2>1, <2>2, ParentStays
  <2>4. RowsAreRecorded /\ expanded \subseteq Rows /\ Parent \in expanded /\ pending \subseteq Batches
    BY <2>1, ApplyFacts DEF SearchInvariant, RowsInvariant
  <2>5. rows' = Append(rows, r) /\ r.parent = Parent /\ r.batch = b
    BY <2>2 DEF Records
  <2> QED BY <2>1, <2>3, <2>4, <2>5, ChildTries
<1>4. CASE ExploreParent
  <2>1. /\ pc = "parent" /\ pc' = "apply" /\ queue # <<>> /\ queue' = queue /\ ByBatches
        /\ expanded' = expanded \cup {Parent}
        /\ UNCHANGED <<world, mode, limits, rows>>
    BY <1>4 DEF ExploreParent, Build, runVars
  <2>2. Parent' = Parent /\ Parent \notin expanded /\ Original(Parent) /\ ~ ByStates
    BY <2>1, ParentIsNew DEF Parent, ByBatches, ByStates
  <2> DEFINE m == rows[Parent].module
  <2>3. PICK f \in Families(m) :
          LET chosen == Chosen(f.candidates, f.certified)
          IN /\ skipped' = skipped \cup {<<Parent, b>> : b \in chosen \ f.certified}
             /\ pending' = chosen \cap f.certified
             /\ lost' = lost \cup {<<Parent, b>> : b \in Certifiable(m) \ chosen}
    BY <1>4 DEF ExploreParent
  <2> DEFINE chosen == Chosen(f.candidates, f.certified)
             S == chosen \ f.certified
  <2>4. Few(chosen)
    <3>1. f.candidates \in SUBSET Batches
      BY DEF Families
    <3>2. limits \in Limits
      BY <2>1 DEF LimitIsKept
    <3> QED BY <3>1, <3>2, ChosenAreFew
  <2> HIDE DEF chosen
  <2>5. /\ skipped' = skipped \cup {<<Parent, b>> : b \in S}
        /\ pending' = chosen \cap f.certified
        /\ lost' = lost \cup {<<Parent, b>> : b \in Certifiable(m) \ chosen}
    BY <2>3 DEF chosen
  <2>6. S \in SUBSET Batches /\ S \cap pending' = {} /\ S \cup pending' \subseteq chosen
    BY <2>4, <2>5 DEF Few
  <2>7. ASSUME NEW b \in Wanted(Parent) PROVE <<Parent, b>> \in lost' \cup skipped' \/ b \in pending'
    BY <2>2, <2>5 DEF Wanted
  <2>8. lost \subseteq lost'
    BY <2>5
  <2> HIDE DEF S
  <2> QED BY <2>1, <2>2, <2>4, <2>5, <2>6, <2>7, <2>8, ParentTries
<1>5. CASE ExploreState /\ rows[Parent].depth < MaxRounds
  <2> DEFINE m == rows[Parent].module
  <2>1. /\ pc = "parent" /\ queue # <<>> /\ ByStates
        /\ UNCHANGED <<world, mode, limits, rows, skipped>>
    BY <1>5 DEF ExploreState, runVars
  <2>2. ~ (rows[Parent].depth >= MaxRounds) /\ ~ ByBatches
    <3>1. rows[Parent].depth \in Nat /\ MaxRounds \in Nat
      BY <2>1, ParentFacts, RowsAreSound, LegacyAssumption
    <3> QED BY <1>5, <2>1, <3>1 DEF ByBatches, ByStates
  <2>3. /\ pc' = "apply" /\ queue' = queue /\ expanded' = expanded \cup {Parent}
        /\ pending' \in PassFrontiers(m)
        /\ lost' = lost \cup {<<Parent, b>> : b \in Active(m) \ pending'}
    BY <1>5, <2>2 DEF ExploreState
  <2>4. Parent' = Parent /\ Parent \notin expanded /\ Original(Parent)
    BY <2>1, <2>3, ParentIsNew DEF Parent
  <2>5. ASSUME NEW b \in Wanted(Parent) PROVE <<Parent, b>> \in lost' \cup skipped' \/ b \in pending'
    BY <2>1, <2>3 DEF Wanted
  <2>6. lost \subseteq lost'
    BY <2>3
  <2> DEFINE S == {}
  <2>7. S \in SUBSET Batches /\ S \cap pending' = {} /\ skipped' = skipped \cup {<<Parent, b>> : b \in S}
    BY <2>1
  <2> HIDE DEF S
  <2> QED BY <2>1, <2>2, <2>3, <2>4, <2>5, <2>6, <2>7, ParentTries
<1>6. ExploreState => rows[Parent].depth < MaxRounds \/ rows[Parent].depth >= MaxRounds
  <2> SUFFICES ASSUME ExploreState PROVE rows[Parent].depth \in Nat /\ MaxRounds \in Nat
    OBVIOUS
  <2>1. pc = "parent" /\ queue # <<>>
    BY DEF ExploreState
  <2> QED BY <2>1, ParentFacts, RowsAreSound, LegacyAssumption
<1> QED BY <1>1, <1>2, <1>3, <1>4, <1>5, <1>6 DEF ExplorerStep, Passing

-----------------------------------------------------------------------------
(* The queue.                                                              *)

\* The entries of a tail.
LEMMA TailIsListed ==
  ASSUME NEW q \in Seq(Nat), q # <<>>
  PROVE  /\ DOMAIN Tail(q) = 1 .. Len(q) - 1 /\ Len(q) \in Nat \ {0} /\ DOMAIN q = 1 .. Len(q)
         /\ \A k \in DOMAIN Tail(q) : /\ k + 1 \in DOMAIN q /\ Tail(q)[k] = q[k + 1] /\ k + 1 # 1
                                      /\ k \in Nat
         /\ 1 \in DOMAIN q /\ Head(q) = q[1]
OBVIOUS

\* A sequence with another entry has none twice.
LEMMA AppendIsDistinct ==
  ASSUME NEW q \in Seq(Nat), Distinct(q), NEW n \in Nat, n \notin Range(q)
  PROVE  Distinct(Append(q, n))
<1>1. /\ Len(q) \in Nat /\ DOMAIN q = 1 .. Len(q) /\ DOMAIN Append(q, n) = 1 .. Len(q) + 1
      /\ \A k \in 1 .. Len(q) : Append(q, n)[k] = q[k] /\ q[k] # n
      /\ Append(q, n)[Len(q) + 1] = n
  BY DEF Range
<1>2. \A k \in 1 .. Len(q) + 1 : k \in 1 .. Len(q) \/ k = Len(q) + 1
  BY <1>1
<1> QED BY <1>1, <1>2 DEF Distinct

\* The queue of the next parent.
LEMMA TailIsNew ==
  ASSUME SearchInvariant, QueueIsNew, queue # <<>>, Searching,
         UNCHANGED <<rows, expanded, stop>>, queue' = Tail(queue), pc' = "parent"
  PROVE  QueueIsNew'
<1>1. queue \in Seq(Nat)
  BY DEF SearchInvariant, CallIsTyped
<1> DEFINE q == Tail(queue)
<1>2. /\ \A k \in DOMAIN q : /\ k + 1 \in DOMAIN queue /\ q[k] = queue[k + 1] /\ k + 1 # 1 /\ k \in Nat
  BY <1>1, TailIsListed
<1>3. \A k \in DOMAIN queue : Original(queue[k]) /\ (k # 1 => queue[k] \notin expanded)
  BY DEF QueueIsNew
<1>4. Distinct(queue) /\ ~ stop
  BY DEF QueueIsNew
<1> HIDE DEF q
<1>5. Distinct(q)
  BY <1>2, <1>4 DEF Distinct
<1>6. \A k \in DOMAIN q : Original(q[k]) /\ q[k] \notin expanded
  BY <1>2, <1>3
<1>7. queue' = q
  BY DEF q
<1>9. Distinct(queue')
  BY <1>5, <1>7
<1>10. \A k \in DOMAIN queue' : rows'[queue'[k]].copyOf = 0 /\ queue'[k] \notin expanded'
  BY <1>6, <1>7 DEF Original
<1> QED BY <1>4, <1>9, <1>10 DEF QueueIsNew, Original

\* The queue whose first is expanded.
LEMMA HeadIsExpanded ==
  ASSUME SearchInvariant, QueueIsNew, pc = "parent", queue # <<>>,
         UNCHANGED <<rows, stop, queue>>, expanded' = expanded \cup {Parent}, pc' = "apply"
  PROVE  QueueIsNew'
<1>1. queue \in Seq(Nat)
  BY DEF SearchInvariant, CallIsTyped
<1>2. 1 \in DOMAIN queue /\ Parent = queue[1]
  BY <1>1 DEF Parent
<1>3. /\ Distinct(queue) /\ ~ stop
      /\ \A k \in DOMAIN queue : Original(queue[k]) /\ queue[k] \notin expanded
  BY DEF QueueIsNew, Searching
<1>4. \A k \in DOMAIN queue : queue[k] \in expanded' <=> k = 1
  BY <1>2, <1>3 DEF Distinct
<1> QED BY <1>3, <1>4 DEF QueueIsNew, Original, Searching, Distinct

\* Nothing is new about a queue and rows that stay.
LEMMA QueueStays ==
  ASSUME QueueIsNew, UNCHANGED <<rows, expanded, stop, queue>>,
         Searching' => (Searching /\ pc' = pc) \/ queue = <<>>
  PROVE  QueueIsNew'
<1>1. <<>> # queue \/ DOMAIN queue = {}
  <2>1. DOMAIN <<>> = {}
    OBVIOUS
  <2> QED BY <2>1
<1>2. CASE ~ Searching'
  BY <1>2 DEF QueueIsNew
<1>3. CASE Searching' /\ Searching /\ pc' = pc
  BY <1>3 DEF QueueIsNew, Original, Distinct
<1>4. CASE queue = <<>>
  BY <1>1, <1>4 DEF QueueIsNew, Original, Distinct
<1> QED BY <1>2, <1>3, <1>4

\* The frontier of a round is new.
LEMMA FrontierIsNew ==
  ASSUME SearchInvariant, Exploring, ExplorationHolds, pc = "round"
  PROVE  Distinct(frontier) /\ \A i \in Range(frontier) : Original(i) /\ i \notin expanded
<1>1. CASE ByBatches
  <2>1. FrontierIsShare /\ \A i \in expanded : rows[i].depth < round
    BY <1>1 DEF ExplorationHolds, LayersAreExpanded
  <2>2. \A i \in Layer(round) : Original(i) /\ rows[i].depth = round /\ round \in Nat
    BY LegacyAssumption DEF Layer, Original, SearchInvariant, CallIsTyped
  <2>3. \A i \in Layer(round) : i \notin expanded
    BY <2>1, <2>2
  <2> QED BY <2>1, <2>2, <2>3 DEF FrontierIsShare
<1>2. CASE ByStates
  <2>1. frontier = <<1>> /\ expanded = {}
    BY <1>2 DEF ExplorationHolds, StatesComeInOrder
  <2>2. DOMAIN <<1>> = {1} /\ <<1>>[1] = 1
    OBVIOUS
  <2>3. Original(1)
    <3>1. 1 \in Rows /\ rows[1].copyOf \in Nat /\ rows[1].copyOf < 1
      BY RowsAreSound
    <3> QED BY <3>1 DEF Original
  <2>4. Distinct(frontier) /\ Range(frontier) = {1}
    BY <2>1, <2>2 DEF Distinct, Range
  <2> QED BY <2>1, <2>3, <2>4
<1> QED BY <1>1, <1>2 DEF Exploring

\* A queue whose entries are new: the first is not expanded before its batches are applied.
LEMMA NewQueueIsNew ==
  ASSUME ~ stop, Distinct(queue), pc = "parent",
         \A i \in Range(queue) : Original(i) /\ i \notin expanded
  PROVE  QueueIsNew
<1>1. \A k \in DOMAIN queue : queue[k] \in Range(queue)
  BY DEF Range
<1> QED BY <1>1 DEF QueueIsNew

\* The same, of the next state.
LEMMA NewQueueIsNewNext ==
  ASSUME ~ stop', Distinct(queue)', pc' = "parent",
         (\A i \in Range(queue) : Original(i) /\ i \notin expanded)'
  PROVE  QueueIsNew'
<1>1. \A k \in DOMAIN queue' : queue'[k] \in Range(queue')
  BY DEF Range
<1> QED BY <1>1 DEF QueueIsNew, Original, Distinct

\* A child of the parent is new in the queue.
LEMMA ChildIsQueued ==
  ASSUME SearchInvariant, QueueIsNew, pc = "apply", pc' = "apply",
         NEW b, NEW r \in StateRow, Records(b, r), UNCHANGED <<expanded, stop>>
  PROVE  QueueIsNew'
<1>1. PICK n :
           /\ n \in Nat /\ n = Len(rows) + 1 /\ n \notin Rows /\ rows'[n] = r
           /\ \A i \in Rows : rows'[i] = rows[i]
  <2>1. rows' = Append(rows, r) /\ RowsAreRecorded
    BY DEF Records, SearchInvariant, RowsInvariant
  <2> QED BY <2>1, RowIsAppended
<1>2. /\ queue \in Seq(Nat) /\ queue # <<>> /\ expanded \subseteq Rows /\ Searching
      /\ Len(queue) \in Nat \ {0} /\ DOMAIN queue = 1 .. Len(queue)
  BY ApplyFacts DEF SearchInvariant, CallIsTyped
<1>3. \A k \in DOMAIN queue : queue[k] \in Rows
  BY <1>2 DEF SearchInvariant, LayersAreOrdered, Range, At
<1>4. /\ ~ stop /\ Distinct(queue)
      /\ \A k \in DOMAIN queue : rows[queue[k]].copyOf = 0 /\ (queue[k] \in expanded <=> k = 1)
  BY <1>2 DEF QueueIsNew, Original
<1>5. \A k \in DOMAIN queue : rows'[queue[k]].copyOf = 0
  BY <1>1, <1>3, <1>4
<1>6. CASE queue' = queue
  <2>1. Distinct(queue)'
    BY <1>4, <1>6 DEF Distinct
  <2> QED BY <1>4, <1>5, <1>6, <2>1 DEF QueueIsNew, Original
<1>7. CASE queue' = Append(queue, n) /\ r.copyOf = 0
  <2> DEFINE q == Append(queue, n)
  <2>1. /\ DOMAIN q = 1 .. Len(queue) + 1
        /\ \A k \in 1 .. Len(queue) : q[k] = queue[k]
        /\ q[Len(queue) + 1] = n
    BY <1>1, <1>2
  <2>2. Distinct(q)
    <3>1. n \notin Range(queue)
      BY <1>1, <1>3 DEF Range
    <3> QED BY <1>1, <1>2, <1>4, <3>1, AppendIsDistinct
  <2> HIDE DEF q
  <2>3. ASSUME NEW k \in DOMAIN q PROVE rows'[q[k]].copyOf = 0 /\ (q[k] \in expanded <=> k = 1)
    <3>1. CASE k \in 1 .. Len(queue)
      BY <1>2, <1>4, <1>5, <2>1, <3>1
    <3>2. CASE k = Len(queue) + 1
      <4>1. k # 1 /\ q[k] = n
        BY <1>2, <2>1, <3>2
      <4> QED BY <1>1, <1>2, <1>7, <4>1
    <3> QED BY <1>2, <2>1, <3>1, <3>2
  <2>4. queue' = q
    BY <1>7 DEF q
  <2>5. Distinct(queue)'
    BY <2>2, <2>4 DEF Distinct
  <2> QED BY <1>4, <2>3, <2>4, <2>5 DEF QueueIsNew, Original
<1> QED BY <1>1, <1>6, <1>7 DEF Records

\* The queue stays new.
LEMMA QueueIsKept ==
  ASSUME SearchInvariant, Exploring, ExplorationHolds, (Next /\ UNCHANGED skipped) \/ ExplorerNext
  PROVE  QueueIsNew'
<1> USE DEF runVars, searchVars
<1>1. ExplorerStep /\ QueueIsNew
  BY ExplorersStep DEF ExplorationHolds
<1>2. ASSUME NEW b \in pending, ExploreBatch(b) \/ ExplorePass(b) PROVE QueueIsNew'
  <2>1. PICK r \in StateRow : Records(b, r)
    BY <1>2, ChildIsRecorded
  <2>2. pc = "apply" /\ pc' = "apply" /\ UNCHANGED <<expanded, stop>>
    BY <1>2, ChildIsRecorded
  <2> QED BY <1>1, <2>1, <2>2, ChildIsQueued
<1>3. ASSUME NEW b \in pending, ApplyFails(b) PROVE QueueIsNew'
  <2>1. UNCHANGED <<rows, expanded, stop, queue, pc>> /\ pc = "apply"
    BY <1>3 DEF ApplyFails, IsNext
  <2> QED BY <1>1, <2>1, QueueStays DEF Searching
<1>4. CASE StartRound
  <2>1. UNCHANGED <<rows, expanded, stop>> /\ pc = "round"
    BY <1>4 DEF StartRound
  <2>2. CASE pc' = "finish"
    BY <1>1, <2>1, <2>2 DEF QueueIsNew, Searching
  <2>3. CASE pc' = "parent" /\ queue' = frontier
    <3>1. Distinct(frontier) /\ \A i \in Range(frontier) : Original(i) /\ i \notin expanded
      BY <2>1, FrontierIsNew
    <3>2. Distinct(queue)'
      BY <2>3, <3>1 DEF Distinct
    <3>3. (\A i \in Range(queue) : Original(i) /\ i \notin expanded)'
      BY <2>1, <2>3, <3>1 DEF Original, Range
    <3>4. ~ stop'
      BY <1>1, <2>1 DEF QueueIsNew
    <3> QED BY <2>3, <3>2, <3>3, <3>4, NewQueueIsNewNext
  <2> QED BY <1>4, <2>2, <2>3 DEF StartRound
<1>5. CASE ExploreParent
  <2>1. /\ pc = "parent" /\ pc' = "apply" /\ queue # <<>> /\ UNCHANGED <<rows, stop, queue>>
        /\ expanded' = expanded \cup {Parent}
    BY <1>5 DEF ExploreParent, Build
  <2> QED BY <1>1, <2>1, HeadIsExpanded
<1>6. CASE ExploreState
  <2>1. pc = "parent" /\ queue # <<>> /\ UNCHANGED <<rows, stop>>
    BY <1>6 DEF ExploreState
  <2>2. CASE rows[Parent].depth >= MaxRounds
    <3>1. queue' = Tail(queue) /\ expanded' = expanded /\ pc' = "parent"
      BY <1>6, <2>1, <2>2 DEF ExploreState
    <3> QED BY <1>1, <2>1, <3>1, TailIsNew DEF Searching
  <2>3. CASE ~ (rows[Parent].depth >= MaxRounds)
    <3>1. queue' = queue /\ expanded' = expanded \cup {Parent} /\ pc' = "apply"
      BY <1>6, <2>1, <2>3 DEF ExploreState
    <3> QED BY <1>1, <2>1, <3>1, HeadIsExpanded
  <2> QED BY <2>2, <2>3
<1>7. CASE ParentDone
  <2>1. pc = "apply" /\ queue' = Tail(queue) /\ pc' = "parent" /\ UNCHANGED <<rows, expanded, stop>>
    BY <1>7 DEF ParentDone
  <2>2. queue # <<>> /\ Searching
    BY <2>1, ApplyFacts
  <2> QED BY <1>1, <2>1, <2>2, TailIsNew
<1>8. CASE LayerDone
  <2>1. UNCHANGED <<rows, expanded, stop, queue>> /\ queue = <<>>
    BY <1>8 DEF LayerDone
  <2>2. Searching
    BY <1>8 DEF LayerDone, Searching
  <2> QED BY <1>1, <2>1, <2>2, QueueStays
<1>9. CASE EndRound \/ QueueEmpty \/ WriteExploration
  <2>1. stop' = stop /\ ~ Searching'
    BY <1>9 DEF EndRound, QueueEmpty, WriteExploration, Searching
  <2> QED BY <1>1, <2>1 DEF QueueIsNew
<1> QED BY <1>1, <1>2, <1>3, <1>4, <1>5, <1>6, <1>7, <1>8, <1>9 DEF ExplorerStep

-----------------------------------------------------------------------------
(* The depths, and the order of explore_states.                            *)

\* No row is deeper than the children of the parent.
LEMMA ChildrenAreDeepest ==
  ASSUME SearchInvariant, Exploring, ExplorationHolds, Searching, queue # <<>>
  PROVE  \A i \in Rows : DepthOf(i) <= DepthOf(Parent) + 1
<1>1. CASE ByStates
  BY <1>1 DEF ExplorationHolds, StatesComeInOrder, QueueIsOrdered
<1>2. CASE ~ ByStates
  <2>1. rows[Parent].depth = round
    BY <1>2, ParentIsRow DEF SearchInvariant
  <2>2. \A i \in Rows : rows[i].depth <= round + 1
    BY <1>2 DEF SearchInvariant, LayersAreOrdered, Deepest
  <2> QED BY <2>1, <2>2 DEF DepthOf
<1> QED BY <1>1, <1>2

\* A child is not less deep than what it is a copy of.
LEMMA ShallowIsKept ==
  ASSUME SearchInvariant, Exploring, ExplorationHolds, (Next /\ UNCHANGED skipped) \/ ExplorerNext
  PROVE  StatesAreShallow'
<1> USE DEF runVars, searchVars
<1>1. ExplorerStep /\ StatesAreShallow
  BY ExplorersStep DEF ExplorationHolds
<1>2. ASSUME NEW b \in pending, ExploreBatch(b) \/ ExplorePass(b) PROVE StatesAreShallow'
  <2>1. PICK r \in StateRow : Records(b, r)
    BY <1>2, ChildIsRecorded
  <2>2. PICK n :
           /\ n \in Nat /\ n \notin Rows /\ rows'[n] = r
           /\ \A i \in Rows : i \in Rows' /\ rows'[i] = rows[i]
           /\ \A i \in Rows' : i \in Rows \/ i = n
    <3>1. rows' = Append(rows, r) /\ RowsAreRecorded
      BY <2>1 DEF Records, SearchInvariant, RowsInvariant
    <3> QED BY <3>1, RowIsAppended
  <2>3. \A i \in Rows : rows[i].copyOf # 0 => rows[i].copyOf \in Rows
    BY RowsAreSound
  <2>4. pc = "apply"
    BY <1>2, ChildIsRecorded
  <2>5. \A i \in Rows : DepthOf(i) <= DepthOf(Parent) + 1
    BY <2>4, ApplyFacts, ChildrenAreDeepest
  <2>6. r.copyOf # 0 => r.copyOf \in Rows /\ rows[r.copyOf].depth <= r.depth
    <3>1. r.copyOf # 0 => r.copyOf \in Known(Child(b))
      BY <2>1 DEF Records
    <3> QED BY <2>1, <2>5, <3>1, KnownRow DEF Records, DepthOf
  <2>7. \A i \in Rows : rows'[i].copyOf # 0 => rows'[rows'[i].copyOf].depth <= rows'[i].depth
    BY <1>1, <2>2, <2>3 DEF StatesAreShallow
  <2>8. rows'[n].copyOf # 0 => rows'[rows'[n].copyOf].depth <= rows'[n].depth
    BY <2>2, <2>6
  <2> QED BY <2>2, <2>7, <2>8 DEF StatesAreShallow
<1>3. CASE \/ StartRound \/ ParentDone \/ LayerDone \/ EndRound \/ QueueEmpty \/ WriteExploration
           \/ ExploreParent \/ ExploreState \/ \E b \in pending : ApplyFails(b)
  <2>1. UNCHANGED rows
    BY <1>3 DEF StartRound, ParentDone, LayerDone, EndRound, QueueEmpty, WriteExploration,
                ExploreParent, ExploreState, ApplyFails
  <2> QED BY <1>1, <2>1 DEF StatesAreShallow, Rows
<1> QED BY <1>1, <1>2, <1>3 DEF ExplorerStep

-----------------------------------------------------------------------------

\* A queue without its first entry.
LEMMA TailIsOrdered ==
  ASSUME SearchInvariant, QueueIsOrdered, Searching, queue # <<>>, UNCHANGED rows, queue' = Tail(queue)
  PROVE  QueueIsOrdered'
<1>1. queue \in Seq(Nat)
  BY DEF SearchInvariant, CallIsTyped
<1> DEFINE q == Tail(queue)
<1>2. /\ \A k \in DOMAIN q : k + 1 \in DOMAIN queue /\ q[k] = queue[k + 1] /\ k + 1 # 1 /\ k \in Nat
      /\ 1 \in DOMAIN queue /\ Parent = queue[1]
  BY <1>1, TailIsListed DEF Parent
<1>3. q # <<>> => 1 \in DOMAIN q /\ Head(q) = q[1]
  BY <1>1
<1> HIDE DEF q
<1>4. \A j, k \in DOMAIN q : j <= k => DepthOf(q[j]) <= DepthOf(q[k])
  <2> SUFFICES ASSUME NEW j \in DOMAIN q, NEW k \in DOMAIN q, j <= k
               PROVE  DepthOf(queue[j + 1]) <= DepthOf(queue[k + 1])
    BY <1>2
  <2>1. j + 1 <= k + 1
    BY <1>2
  <2> QED BY <1>2, <2>1 DEF QueueIsOrdered
<1>5. q # <<>> => \A i \in Rows : DepthOf(i) <= DepthOf(Head(q)) + 1
  <2> SUFFICES ASSUME q # <<>>, NEW i \in Rows PROVE DepthOf(i) <= DepthOf(Head(q)) + 1
    OBVIOUS
  <2>1. /\ Head(q) = queue[2] /\ 2 \in DOMAIN queue /\ 1 <= 2
    <3>1. 1 + 1 = 2
      OBVIOUS
    <3> QED BY <1>2, <1>3, <3>1
  <2>2. DepthOf(Parent) <= DepthOf(Head(q))
    BY <1>2, <2>1 DEF QueueIsOrdered
  <2>3. DepthOf(i) <= DepthOf(Parent) + 1
    BY DEF QueueIsOrdered
  <2>4. Parent \in Rows /\ Head(q) \in Rows
    <3>1. \A k \in DOMAIN queue : queue[k] \in Rows
      BY DEF SearchInvariant, LayersAreOrdered, Range, At
    <3> QED BY <1>2, <2>1, <3>1
  <2>5. DepthOf(i) \in Nat /\ DepthOf(Parent) \in Nat /\ DepthOf(Head(q)) \in Nat
    BY <2>4, RowsAreSound DEF DepthOf
  <2> QED BY <2>2, <2>3, <2>5
<1>6. queue' = q /\ Rows' = Rows
  BY DEF q, Rows
<1> QED BY <1>4, <1>5, <1>6 DEF QueueIsOrdered, DepthOf, Parent

\* A queue with a child of its first entry.
LEMMA AppendIsOrdered ==
  ASSUME SearchInvariant, QueueIsOrdered, ByStates, pc = "apply",
         NEW b, NEW r \in StateRow, Records(b, r)
  PROVE  QueueIsOrdered'
<1>1. PICK n :
           /\ n \in Nat /\ n = Len(rows) + 1 /\ n \notin Rows /\ rows'[n] = r
           /\ \A i \in Rows : i \in Rows' /\ rows'[i] = rows[i]
           /\ \A i \in Rows' : i \in Rows \/ i = n
  <2>1. rows' = Append(rows, r) /\ RowsAreRecorded
    BY DEF Records, SearchInvariant, RowsInvariant
  <2> QED BY <2>1, RowIsAppended
<1>2. /\ queue \in Seq(Nat) /\ queue # <<>> /\ Searching /\ Parent \in Rows
      /\ Len(queue) \in Nat \ {0} /\ DOMAIN queue = 1 .. Len(queue)
  BY ApplyFacts DEF SearchInvariant, CallIsTyped
<1>3. \A k \in DOMAIN queue : queue[k] \in Rows
  BY <1>2 DEF SearchInvariant, LayersAreOrdered, Range, At
<1>4. /\ \A i \in Rows : rows'[i].depth = rows[i].depth /\ rows[i].depth \in Nat
      /\ rows'[n].depth = rows[Parent].depth + 1
  BY <1>1, RowsAreSound DEF Records
<1>5. Parent' = Parent
  BY ParentStays
<1>6. \A i \in Rows' : rows'[i].depth <= rows'[Parent].depth + 1
  <2>1. \A i \in Rows : rows[i].depth <= rows[Parent].depth + 1
    BY <1>2 DEF QueueIsOrdered, DepthOf
  <2> QED BY <1>1, <1>2, <1>4, <2>1
<1>7. \A j, k \in DOMAIN queue : j <= k => rows[queue[j]].depth <= rows[queue[k]].depth
  BY DEF QueueIsOrdered, DepthOf
<1>8. \A j, k \in DOMAIN queue' : j <= k => rows'[queue'[j]].depth <= rows'[queue'[k]].depth
  <2>1. CASE queue' = queue
    BY <1>3, <1>4, <1>7, <2>1
  <2>2. CASE queue' = Append(queue, n)
    <3> DEFINE q == Append(queue, n)
    <3>1. /\ DOMAIN q = 1 .. Len(queue) + 1
          /\ \A k \in 1 .. Len(queue) : q[k] = queue[k]
          /\ q[Len(queue) + 1] = n
      BY <1>1, <1>2
    <3> HIDE DEF q
    <3> SUFFICES ASSUME NEW j \in DOMAIN q, NEW k \in DOMAIN q, j <= k
                 PROVE  rows'[q[j]].depth <= rows'[q[k]].depth
      BY <2>2 DEF q
    <3>2. CASE k \in 1 .. Len(queue)
      <4>1. j \in 1 .. Len(queue)
        BY <1>2, <3>1, <3>2
      <4> QED BY <1>2, <1>3, <1>4, <1>7, <3>1, <3>2, <4>1
    <3>3. CASE k = Len(queue) + 1 /\ j \in 1 .. Len(queue)
      <4>1. q[k] = n /\ q[j] = queue[j] /\ queue[j] \in Rows
        BY <1>2, <1>3, <3>1, <3>3
      <4>2. rows'[q[j]].depth <= rows[Parent].depth + 1
        BY <1>4, <1>2, <4>1 DEF QueueIsOrdered, DepthOf
      <4> QED BY <1>4, <4>1, <4>2
    <3>4. CASE k = Len(queue) + 1 /\ j = Len(queue) + 1
      BY <1>2, <1>4, <3>1, <3>4
    <3> QED BY <1>2, <3>1, <3>2, <3>3, <3>4
  <2> QED BY <1>1, <2>1, <2>2 DEF Records
<1>9. \A i \in Rows' : rows'[i].depth <= rows'[Parent'].depth + 1
  BY <1>5, <1>6
<1> QED BY <1>8, <1>9 DEF QueueIsOrdered, DepthOf

\* The order in which explore_states takes the states.
LEMMA OrderIsKept ==
  ASSUME SearchInvariant, ExplorationHolds, ByStates, (Next /\ UNCHANGED skipped) \/ ExplorerNext
  PROVE  StatesComeInOrder'
<1> USE DEF runVars, searchVars
<1>1. /\ ExplorerStep /\ UNCHANGED mode /\ ByStates' /\ ~ ByBatches /\ Exploring
      /\ round = 0 /\ pc # "layer"
      /\ pc = "round" => frontier = <<1>> /\ expanded = {} /\ Len(rows) = 1
      /\ Searching => QueueIsOrdered
      /\ pc \in {"parent", "apply", "finish", "explored"} => NoneIsForgotten
  <2>1. Exploring
    BY DEF Exploring
  <2> QED BY <2>1, ExplorersStep
          DEF ByStates, ByBatches, ExplorationHolds, StatesComeInOrder, SearchInvariant, CallIsApplied
<1>2. ASSUME round' = 0, pc' # "round", Searching' => QueueIsOrdered', NoneIsForgotten'
      PROVE  StatesComeInOrder'
  BY <1>2 DEF StatesComeInOrder
<1>3. ASSUME NEW b \in pending, ExplorePass(b) PROVE StatesComeInOrder'
  <2>1. PICK r \in StateRow : Records(b, r)
    BY <1>3, ChildIsRecorded
  <2>2. pc = "apply" /\ pc' = "apply" /\ UNCHANGED <<expanded, round>>
    BY <1>3, ChildIsRecorded
  <2>3. QueueIsOrdered'
    BY <1>1, <2>1, <2>2, AppendIsOrdered DEF Searching
  <2>4. NoneIsForgotten'
    <3>1. PICK n :
             /\ n \in Nat /\ n = Len(rows) + 1 /\ rows'[n] = r
             /\ \A i \in Rows : rows'[i] = rows[i]
             /\ \A i \in Rows' : i \in Rows \/ i = n
      <4>1. rows' = Append(rows, r) /\ RowsAreRecorded
        BY <2>1 DEF Records, SearchInvariant, RowsInvariant
      <4> QED BY <4>1, RowIsAppended
    <3>2. Range(queue) \subseteq Range(queue') /\ (r.copyOf = 0 => n \in Range(queue'))
      <4>1. queue \in Seq(Nat)
        BY DEF SearchInvariant, CallIsTyped
      <4>2. Range(Append(queue, n)) = Range(queue) \cup {n}
        BY <3>1, <4>1, AppendIsListed
      <4> QED BY <1>1, <2>1, <3>1, <4>2 DEF Records
    <3>3. Searching /\ Searching'
      BY <2>2 DEF Searching
    <3>4. \A i \in Rows : Original(i) => IsTaken(i) \/ i \in Range(queue)
      BY <1>1, <2>2 DEF NoneIsForgotten
    <3>5. \A i \in Rows : rows'[i].copyOf = 0 => i \in expanded' \/ rows'[i].depth >= MaxRounds \/ i \in Range(queue')
      BY <2>2, <3>1, <3>2, <3>4 DEF Original, IsTaken, DepthOf
    <3>6. rows'[n].copyOf = 0 => n \in Range(queue')
      BY <3>1, <3>2
    <3> QED BY <3>1, <3>3, <3>5, <3>6 DEF NoneIsForgotten, Original, IsTaken, DepthOf
  <2> QED BY <1>1, <1>2, <2>2, <2>3, <2>4
<1>4. CASE StartRound
  <2>1. UNCHANGED <<rows, expanded, stop, round>> /\ pc = "round"
    BY <1>4 DEF StartRound
  <2>2. 0 # MaxRounds /\ ~ stop /\ ~ Budgeted
    BY <1>1, LegacyAssumption DEF ExplorationHolds, QueueIsNew, Budgeted, ByStates
  <2>3. pc' = "parent" /\ queue' = <<1>>
    BY <1>1, <1>4, <2>1, <2>2 DEF StartRound
  <2>4. /\ Rows = {1} /\ Rows' = Rows /\ rows[1].depth \in Nat
    BY <1>1, <2>1, RowsAreSound DEF Rows
  <2>5. DOMAIN <<1>> = {1} /\ <<1>>[1] = 1 /\ Head(<<1>>) = 1
    OBVIOUS
  <2>6. QueueIsOrdered'
    <3>1. Parent' = 1
      BY <2>3, <2>5 DEF Parent
    <3>2. \A i \in Rows' : rows'[i].depth <= rows'[1].depth + 1
      BY <2>1, <2>4
    <3>3. \A j, k \in DOMAIN queue' : rows'[queue'[j]].depth <= rows'[queue'[k]].depth
      BY <2>1, <2>3, <2>4, <2>5
    <3> QED BY <3>1, <3>2, <3>3 DEF QueueIsOrdered, DepthOf
  <2>7. NoneIsForgotten'
    <3>1. 1 \in Range(queue') /\ Searching'
      BY <2>3, <2>5 DEF Range, Searching
    <3> QED BY <2>4, <3>1 DEF NoneIsForgotten
  <2> QED BY <1>1, <1>2, <2>1, <2>3, <2>6, <2>7
<1>5. CASE ExploreState
  <2>1. pc = "parent" /\ queue # <<>> /\ UNCHANGED <<rows, round>> /\ Searching
    BY <1>5 DEF ExploreState, Searching
  <2>2. CASE rows[Parent].depth >= MaxRounds
    <3>1. queue' = Tail(queue) /\ expanded' = expanded /\ pc' = "parent"
      BY <1>5, <2>1, <2>2 DEF ExploreState
    <3>2. QueueIsOrdered'
      BY <1>1, <2>1, <3>1, TailIsOrdered
    <3>3. NoneIsForgotten'
      <4>1. Range(queue) = {Parent} \cup Range(queue')
        BY <2>1, <3>1, HeadIsListed DEF SearchInvariant, CallIsTyped, Parent
      <4>2. IsTaken(Parent)
        BY <2>2 DEF IsTaken, DepthOf
      <4>3. \A i : (IsTaken(i)' <=> IsTaken(i)) /\ (Original(i)' <=> Original(i))
        BY <2>1, <3>1 DEF IsTaken, DepthOf, Original
      <4>4. \A i \in Rows : Original(i) => IsTaken(i) \/ i \in Range(queue')
        BY <1>1, <2>1, <4>1, <4>2 DEF NoneIsForgotten
      <4> QED BY <2>1, <3>1, <4>3, <4>4 DEF NoneIsForgotten, Rows, Searching
    <3> QED BY <1>1, <1>2, <2>1, <3>1, <3>2, <3>3
  <2>3. CASE ~ (rows[Parent].depth >= MaxRounds)
    <3>1. queue' = queue /\ expanded' = expanded \cup {Parent} /\ pc' = "apply"
      BY <1>5, <2>1, <2>3 DEF ExploreState
    <3>2. QueueIsOrdered'
      BY <1>1, <2>1, <3>1 DEF QueueIsOrdered, DepthOf, Parent, Rows
    <3>3. NoneIsForgotten'
      BY <1>1, <2>1, <3>1 DEF NoneIsForgotten, IsTaken, DepthOf, Original, Rows, Searching
    <3> QED BY <1>1, <1>2, <2>1, <3>1, <3>2, <3>3
  <2> QED BY <2>2, <2>3
<1>6. CASE ParentDone
  <2>1. pc = "apply" /\ queue' = Tail(queue) /\ pc' = "parent" /\ UNCHANGED <<rows, expanded, round>>
    BY <1>6 DEF ParentDone
  <2>2. queue # <<>> /\ Searching /\ Parent \in expanded
    BY <2>1, ApplyFacts
  <2>3. QueueIsOrdered'
    BY <1>1, <2>1, <2>2, TailIsOrdered
  <2>4. NoneIsForgotten'
    <3>1. Range(queue) = {Parent} \cup Range(queue')
      BY <2>1, <2>2, HeadIsListed DEF SearchInvariant, CallIsTyped, Parent
    <3>2. IsTaken(Parent)
      BY <2>2 DEF IsTaken
    <3>3. \A i : (IsTaken(i)' <=> IsTaken(i)) /\ (Original(i)' <=> Original(i))
      BY <2>1 DEF IsTaken, DepthOf, Original
    <3>4. \A i \in Rows : Original(i) => IsTaken(i) \/ i \in Range(queue')
      BY <1>1, <2>1, <3>1, <3>2 DEF NoneIsForgotten
    <3> QED BY <2>1, <3>3, <3>4 DEF NoneIsForgotten, Rows, Searching
  <2> QED BY <1>1, <1>2, <2>1, <2>3, <2>4
<1>7. CASE QueueEmpty \/ WriteExploration
  <2>1. /\ UNCHANGED <<rows, expanded, round, queue>> /\ pc' \in {"finish", "explored"}
        /\ pc \in {"parent", "finish"} /\ (pc = "parent" => queue = <<>>)
    BY <1>7 DEF QueueEmpty, WriteExploration
  <2>2. Range(<<>>) = {}
    <3>1. DOMAIN <<>> = {}
      OBVIOUS
    <3> QED BY <3>1 DEF Range
  <2>3. \A i \in Rows : Original(i) => IsTaken(i)
    BY <1>1, <2>1, <2>2 DEF NoneIsForgotten, Searching
  <2>4. NoneIsForgotten'
    BY <2>1, <2>3 DEF NoneIsForgotten, IsTaken, DepthOf, Original, Rows
  <2>5. ~ Searching'
    BY <2>1 DEF Searching
  <2> QED BY <1>1, <1>2, <2>1, <2>4, <2>5
<1>8. ~ ExploreParent /\ ~ LayerDone /\ ~ EndRound
  BY <1>1 DEF ExploreParent, LayerDone, EndRound, ByStates
<1>9. \A b \in pending : ~ ApplyFails(b) /\ ~ ExploreBatch(b)
  BY <1>1 DEF ApplyFails, ExploreBatch, ByStates
<1> QED BY <1>1, <1>3, <1>4, <1>5, <1>6, <1>7, <1>8, <1>9 DEF ExplorerStep

-----------------------------------------------------------------------------
(* The layers of explore_batches.                                          *)

\* The layers depend on the rows alone.
LEMMA LayersStay ==
  ASSUME UNCHANGED rows
  PROVE  \A d : Layer(d)' = Layer(d)
BY DEF Layer, Rows

\* The layers when a child is recorded.
LEMMA LayersGrow ==
  ASSUME RowsAreRecorded, NEW r \in StateRow, rows' = Append(rows, r)
  PROVE  \A d : Layer(d)' = IF r.copyOf = 0 /\ r.depth = d THEN Layer(d) \cup {Len(rows) + 1} ELSE Layer(d)
<1>1. PICK n :
         /\ n = Len(rows) + 1 /\ rows'[n] = r /\ n \in Rows'
         /\ \A i \in Rows : i \in Rows' /\ rows'[i] = rows[i]
         /\ \A i \in Rows' : i \in Rows \/ i = n
  BY RowIsAppended
<1> SUFFICES ASSUME NEW d
             PROVE  Layer(d)' = IF r.copyOf = 0 /\ r.depth = d THEN Layer(d) \cup {n} ELSE Layer(d)
  BY <1>1
<1>2. Layer(d)' = {i \in Rows' : rows'[i].copyOf = 0 /\ rows'[i].depth = d}
  BY DEF Layer
<1>3. Layer(d) = {i \in Rows : rows'[i].copyOf = 0 /\ rows'[i].depth = d}
  BY <1>1 DEF Layer
<1> QED BY <1>1, <1>2, <1>3

\* What was done of earlier layers stays done.
LEMMA EarlierStay ==
  ASSUME EarlierAreDone, UNCHANGED <<round, limits>>,
         \A d \in Nat : d < round => Layer(d)' = Layer(d) /\ (Layer(d) \cap expanded') = (Layer(d) \cap expanded)
  PROVE  EarlierAreDone'
<1> SUFFICES ASSUME NEW d \in Nat, d < round PROVE LayerIsDone(d)'
  BY DEF EarlierAreDone
<1>1. LayerIsDone(d)
  BY DEF EarlierAreDone
<1> QED BY <1>1 DEF LayerIsDone, Share

\* So does the share that the frontier has of its layer.
LEMMA FrontierStays ==
  ASSUME FrontierIsShare, UNCHANGED <<round, limits, frontier>>, Layer(round)' = Layer(round)
  PROVE  FrontierIsShare'
BY DEF FrontierIsShare, Share, Distinct, Range

\* A child is recorded in the next layer.
LEMMA ChildrenAreListed ==
  ASSUME SearchInvariant, ExplorationHolds, ByBatches, NEW b \in pending,
         ExploreBatch(b) \/ ExplorePass(b)
  PROVE  LayersAreExpanded'
<1>1. /\ pc = "apply" /\ pc' = "apply" /\ UNCHANGED <<mode, limits, expanded, round, frontier>>
  BY ChildIsRecorded
<1>2. PICK r \in StateRow : Records(b, r)
  BY ChildIsRecorded
<1>3. RowsAreRecorded /\ rows' = Append(rows, r) /\ ByBatches' /\ ~ ByStates /\ queue' = queue
  BY <1>1, <1>2 DEF SearchInvariant, RowsInvariant, Records, ByBatches, ByStates
<1>4. PICK n :
         /\ n \in Nat /\ n = Len(rows) + 1 /\ n \notin Rows
         /\ \A i \in Rows : i \in Rows' /\ rows'[i] = rows[i]
  BY <1>3, RowIsAppended
<1>5. r.depth = round + 1 /\ round \in Nat
  BY <1>1, <1>2, <1>3, ChildIsTyped, LegacyAssumption DEF Records, SearchInvariant, CallIsTyped
<1>6. /\ Searching /\ Searching' /\ expanded \subseteq Rows
      /\ children \in Seq(Nat) /\ RoundIsOn /\ FrontierIsShare /\ EarlierAreDone
  BY <1>1, ApplyFacts
     DEF Searching, SearchInvariant, CallIsTyped, ExplorationHolds, LayersAreExpanded
<1>7. /\ \A d \in Nat : d < round => Layer(d)' = Layer(d)
      /\ Layer(round)' = Layer(round)
      /\ Layer(round + 1)' = IF r.copyOf = 0 THEN Layer(round + 1) \cup {n} ELSE Layer(round + 1)
  <2>1. \A d : Layer(d)' = IF r.copyOf = 0 /\ r.depth = d THEN Layer(d) \cup {n} ELSE Layer(d)
    BY <1>3, <1>4, LayersGrow
  <2>2. /\ \A d \in Nat : d < round => d # r.depth
        /\ round # r.depth /\ round + 1 = r.depth
    BY <1>5
  <2>3. (Layer(round))' = Layer(round) /\ (Layer(round + 1))' = IF r.copyOf = 0 THEN Layer(round + 1) \cup {n} ELSE Layer(round + 1)
    BY <1>1, <2>1, <2>2 DEF Layer
  <2> QED BY <2>1, <2>2, <2>3
<1>8. EarlierAreDone'
  BY <1>1, <1>6, <1>7, EarlierStay
<1>9. FrontierIsShare'
  BY <1>1, <1>6, <1>7, FrontierStays
<1>10. RoundIsOn'
  <2>1. \A i \in expanded : rows'[i].depth <= round
    BY <1>4, <1>6 DEF RoundIsOn
  <2>2. Range(frontier') = Range(queue') \cup (Layer(round)' \cap expanded')
    BY <1>1, <1>3, <1>6, <1>7 DEF RoundIsOn
  <2>3. Distinct(children)' /\ Range(children') = Layer(round + 1)'
    <3>1. CASE r.copyOf # 0
      <4>1. children' = children
        BY <1>2, <3>1 DEF Records
      <4> QED BY <1>6, <1>7, <3>1, <4>1 DEF RoundIsOn, Distinct
    <3>2. CASE r.copyOf = 0
      <4>1. children' = Append(children, n)
        BY <1>2, <1>4, <3>2 DEF Records
      <4>2. n \notin Range(children)
        BY <1>4, <1>6 DEF RoundIsOn, Layer
      <4>3. Distinct(Append(children, n)) /\ Range(Append(children, n)) = Range(children) \cup {n}
        BY <1>4, <1>6, <4>2, AppendIsDistinct, AppendIsListed DEF RoundIsOn
      <4>4. Distinct(children)'
        BY <4>1, <4>3 DEF Distinct
      <4> QED BY <1>6, <1>7, <3>2, <4>1, <4>3, <4>4 DEF RoundIsOn
    <3> QED BY <3>1, <3>2
  <2> QED BY <1>1, <2>1, <2>2, <2>3 DEF RoundIsOn
<1> QED BY <1>1, <1>3, <1>8, <1>9, <1>10 DEF LayersAreExpanded

\* The batches of the parent, or the parent itself, have been taken.
LEMMA RoundGoesOn ==
  ASSUME SearchInvariant, ExplorationHolds, ByBatches, Searching,
         UNCHANGED <<mode, limits, rows, round, frontier, children>>,
         pc' \in {"parent", "apply"} \/ (pc' = "layer" /\ queue' = <<>>),
         \/ UNCHANGED <<expanded, queue>>
         \/ queue # <<>> /\ expanded' = expanded \cup {Parent} /\ UNCHANGED queue
         \/ queue # <<>> /\ Parent \in expanded /\ UNCHANGED expanded /\ queue' = Tail(queue)
  PROVE  LayersAreExpanded'
<1>1. /\ queue \in Seq(Nat) /\ RoundIsOn /\ FrontierIsShare /\ EarlierAreDone /\ QueueIsNew
      /\ ~ ByStates /\ Searching' /\ ByBatches' /\ round \in Nat
  BY LegacyAssumption
     DEF ExplorationHolds, LayersAreExpanded, ByBatches, ByStates, Searching, SearchInvariant, CallIsTyped
<1>2. \A d : Layer(d)' = Layer(d)
  BY LayersStay
<1>3. queue # <<>> => Parent \in Layer(round) /\ rows[Parent].depth = round
  <2> SUFFICES ASSUME queue # <<>> PROVE Parent \in Layer(round) /\ rows[Parent].depth = round
    OBVIOUS
  <2>1. 1 \in DOMAIN queue /\ Parent = queue[1]
    BY <1>1 DEF Parent
  <2>2. Original(Parent)
    BY <1>1, <2>1 DEF QueueIsNew
  <2>3. Parent \in Rows /\ rows[Parent].depth = round
    BY <1>1, ParentIsRow DEF SearchInvariant
  <2> QED BY <2>2, <2>3 DEF Layer, Original
<1>4. /\ expanded \subseteq expanded' /\ expanded' \subseteq expanded \cup {Parent}
      /\ expanded' # expanded => queue # <<>>
  OBVIOUS
<1>5. EarlierAreDone'
  <2>1. ASSUME NEW d \in Nat, d < round
        PROVE  Layer(d)' = Layer(d) /\ (Layer(d) \cap expanded') = (Layer(d) \cap expanded)
    <3>1. queue # <<>> => Parent \notin Layer(d)
      BY <1>1, <1>3, <2>1 DEF Layer
    <3> QED BY <1>2, <1>4, <3>1
  <2> QED BY <1>1, <2>1, EarlierStay
<1>6. Layer(round)' = Layer(round) /\ Layer(round + 1)' = Layer(round + 1)
  BY DEF Layer, Rows
<1>7. FrontierIsShare'
  BY <1>1, <1>6, FrontierStays
<1>8. RoundIsOn'
  <2>1. \A i \in expanded' : rows'[i].depth <= round'
    BY <1>1, <1>3, <1>4 DEF RoundIsOn
  <2>2. Distinct(children)' /\ Range(children') = Layer(round + 1)'
    BY <1>1, <1>6 DEF RoundIsOn, Distinct
  <2>3. Range(frontier) = Range(queue') \cup (Layer(round) \cap expanded')
    <3>1. Range(frontier) = Range(queue) \cup (Layer(round) \cap expanded)
      BY <1>1 DEF RoundIsOn
    <3>2. queue # <<>> => Range(queue) = {Parent} \cup Range(Tail(queue))
      BY <1>1, HeadIsListed DEF Parent
    <3>3. queue # <<>> => Parent \in Range(queue)
      BY <3>2
    <3> QED BY <1>3, <3>1, <3>2, <3>3
  <2> QED BY <1>6, <2>1, <2>2, <2>3 DEF RoundIsOn
<1> QED BY <1>1, <1>5, <1>7, <1>8 DEF LayersAreExpanded, Searching

\* A round begins with the whole frontier, before any state of its layer is expanded.
LEMMA RoundBegins ==
  ASSUME SearchInvariant, ExplorationHolds, ByBatches, StartRound
  PROVE  LayersAreExpanded'
<1>1. /\ pc = "round" /\ UNCHANGED <<mode, limits, rows, expanded, round, frontier>>
      /\ ~ Budgeted /\ ~ stop /\ ByBatches' /\ ~ ByStates
      /\ IF round = MaxRounds THEN pc' = "finish"
         ELSE pc' = "parent" /\ queue' = frontier /\ children' = <<>>
  BY DEF StartRound, runVars, ExplorationHolds, QueueIsNew, ByBatches, ByStates, Budgeted
<1>2. /\ EarlierAreDone /\ FrontierIsShare /\ \A i \in expanded : rows[i].depth < round
      /\ round \in Nat /\ expanded \subseteq Rows
  BY <1>1, LegacyAssumption DEF ExplorationHolds, LayersAreExpanded, SearchInvariant, CallIsTyped
<1>3. \A d : Layer(d)' = Layer(d)
  BY <1>1, LayersStay
<1>4. EarlierAreDone'
  BY <1>1, <1>2, <1>3, EarlierStay
<1>5. Layer(round)' = Layer(round) /\ Layer(round + 1)' = Layer(round + 1)
  BY <1>1 DEF Layer, Rows
<1>6. FrontierIsShare'
  BY <1>1, <1>2, <1>5, FrontierStays
<1>7. CASE pc' = "finish"
  BY <1>1, <1>4, <1>7 DEF LayersAreExpanded, Searching
<1>8. CASE pc' = "parent"
  <2>1. queue' = frontier /\ children' = <<>>
    BY <1>1, <1>8
  <2>2. \A i \in expanded : rows[i].depth <= round
    BY <1>2, RowsAreSound
  <2>3. Layer(round) \cap expanded = {}
    BY <1>2 DEF Layer
  <2>4. Layer(round + 1) = {}
    <3>1. \A i \in Rows : rows[i].depth <= round /\ rows[i].depth \in Nat
      BY <1>1, RowsAreSound DEF SearchInvariant, LayersAreOrdered, Deepest, Searching
    <3> QED BY <1>2, <3>1 DEF Layer
  <2>5. DOMAIN <<>> = {}
    OBVIOUS
  <2>6. Distinct(children)' /\ Range(children') = {}
    BY <2>1, <2>5 DEF Distinct, Range
  <2>7. RoundIsOn'
    <3>1. Range(frontier') = Range(queue') \cup (Layer(round)' \cap expanded')
      BY <1>1, <1>5, <2>1, <2>3
    <3>2. \A i \in expanded' : rows'[i].depth <= round'
      BY <1>1, <2>2
    <3> QED BY <1>5, <2>4, <2>6, <3>1, <3>2 DEF RoundIsOn
  <2> QED BY <1>4, <1>6, <1>8, <2>7 DEF LayersAreExpanded, Searching
<1> QED BY <1>1, <1>7, <1>8

\* And ends when its queue is empty: the next frontier is the first children.
LEMMA RoundEnds ==
  ASSUME SearchInvariant, ExplorationHolds, ByBatches, LimitIsKept, EndRound
  PROVE  LayersAreExpanded'
<1>1. /\ pc = "layer" /\ pc' = "round" /\ frontier' \in Beam /\ round' = round + 1
      /\ UNCHANGED <<mode, limits, rows, expanded, children>>
      /\ Searching /\ ~ Exact /\ ~ Budgeted /\ ~ ByStates /\ limits \in Limits
  BY DEF EndRound, runVars, searchVars, Searching, Exact, Budgeted, ByBatches, ByStates, LimitIsKept
<1>2. /\ EarlierAreDone /\ FrontierIsShare /\ RoundIsOn /\ queue = <<>>
      /\ round \in Nat /\ frontier \in Seq(Nat) /\ children \in Seq(Nat) /\ limits.frontier \in Nat \ {0}
  BY <1>1, LegacyAssumption DEF ExplorationHolds, LayersAreExpanded, SearchInvariant, CallIsTyped
<1>3. \A d : Layer(d)' = Layer(d)
  BY <1>1, LayersStay
<1>4. LayerIsDone(round)
  <2>1. Range(<<>>) = {}
    <3>1. DOMAIN <<>> = {}
      OBVIOUS
    <3> QED BY <3>1 DEF Range
  <2>2. Range(frontier) = Layer(round) \cap expanded
    BY <1>2, <2>1 DEF RoundIsOn
  <2>3. Distinct(frontier) /\ Len(frontier) = Share(Cardinality(Layer(round)), round)
    BY <1>2 DEF FrontierIsShare
  <2>4. Cardinality(Range(frontier)) = Len(frontier)
    BY <1>2, <2>3, DistinctAreCounted
  <2> QED BY <2>2, <2>3, <2>4 DEF LayerIsDone
<1>5. EarlierAreDone'
  <2> SUFFICES ASSUME NEW d \in Nat, d < round + 1 PROVE LayerIsDone(d)'
    BY <1>1 DEF EarlierAreDone
  <2>1. d < round \/ d = round
    BY <1>2
  <2>2. LayerIsDone(d)
    BY <1>2, <1>4, <2>1 DEF EarlierAreDone
  <2> QED BY <1>1, <1>3, <2>2 DEF LayerIsDone, Share
<1>6. frontier' = FirstChildren
  BY <1>1 DEF Beam
<1> DEFINE n == IF Len(children) < limits.frontier THEN Len(children) ELSE limits.frontier
<1>7. /\ n \in 0 .. Len(children) /\ FirstChildren = SubSeq(children, 1, n)
      /\ Len(children) \in Nat /\ DOMAIN children = 1 .. Len(children)
  BY <1>2 DEF FirstChildren
<1>8. n = Share(Len(children), round + 1)
  BY <1>2, <1>7 DEF Share
<1> HIDE DEF n
<1>9. /\ Len(FirstChildren) = n /\ DOMAIN FirstChildren = 1 .. n
      /\ \A k \in 1 .. n : FirstChildren[k] = children[k] /\ k \in DOMAIN children
  BY <1>2, <1>7
<1>10. Distinct(children) /\ Range(children) = Layer(round + 1)
  BY <1>2 DEF RoundIsOn
<1>11. Cardinality(Layer(round + 1)) = Len(children)
  BY <1>2, <1>10, DistinctAreCounted
<1>12. Layer(round)' = Layer(round + 1)
  BY <1>1 DEF Layer, Rows
<1>13. FrontierIsShare'
  <2>1. Distinct(FirstChildren) /\ Range(FirstChildren) \subseteq Layer(round + 1)
    BY <1>9, <1>10 DEF Distinct, Range
  <2>2. Distinct(frontier)'
    BY <1>6, <2>1 DEF Distinct
  <2>3. Len(frontier') = Share(Cardinality(Layer(round)), round)'
    BY <1>1, <1>6, <1>8, <1>9, <1>11, <1>12 DEF Share
  <2> QED BY <1>6, <1>12, <2>1, <2>2, <2>3 DEF FrontierIsShare
<1>14. \A i \in expanded' : rows'[i].depth < round'
  <2>1. \A i \in expanded : rows[i].depth <= round /\ rows[i].depth \in Nat
    BY <1>2, RowsAreSound DEF RoundIsOn, SearchInvariant, CallIsTyped
  <2> QED BY <1>1, <1>2, <2>1
<1> QED BY <1>1, <1>5, <1>13, <1>14 DEF LayersAreExpanded, Searching

-----------------------------------------------------------------------------
(* Every step of an explorer, and the others.                              *)

\* The layers that explore_batches expands.
LEMMA LayersAreKept ==
  ASSUME SearchInvariant, ExplorationHolds, ByBatches, (Next /\ UNCHANGED skipped) \/ ExplorerNext
  PROVE  LayersAreExpanded'
<1> USE DEF runVars, searchVars
<1>1. /\ ExplorerStep /\ UNCHANGED <<mode, limits>> /\ ByBatches' /\ ~ ByStates
      /\ LayersAreExpanded /\ LimitIsKept
  <2>1. Exploring
    BY DEF Exploring
  <2> QED BY <2>1, ExplorersStep DEF ByStates, ByBatches, ExplorationHolds
<1>2. ASSUME NEW b \in pending, ExploreBatch(b) PROVE LayersAreExpanded'
  BY <1>2, ChildrenAreListed
<1>3. ASSUME NEW b \in pending, ApplyFails(b) PROVE LayersAreExpanded'
  <2>1. /\ pc' = "apply" /\ UNCHANGED <<mode, limits, rows, round, frontier, children, expanded, queue>>
        /\ Searching
    BY <1>3 DEF ApplyFails, IsNext, Searching
  <2> QED BY <2>1, RoundGoesOn
<1>4. CASE StartRound
  BY <1>4, RoundBegins
<1>5. CASE ExploreParent
  <2>1. /\ pc' = "apply" /\ UNCHANGED <<mode, limits, rows, round, frontier, children, queue>>
        /\ expanded' = expanded \cup {Parent} /\ queue # <<>> /\ Searching
    BY <1>5 DEF ExploreParent, Build, Searching
  <2> QED BY <2>1, RoundGoesOn
<1>6. CASE ParentDone
  <2>1. /\ pc = "apply" /\ pc' = "parent" /\ UNCHANGED <<mode, limits, rows, round, frontier, children, expanded>>
        /\ queue' = Tail(queue)
    BY <1>6 DEF ParentDone
  <2>2. queue # <<>> /\ Searching /\ Parent \in expanded
    BY <2>1, ApplyFacts
  <2> QED BY <2>1, <2>2, RoundGoesOn
<1>7. CASE LayerDone
  <2>1. /\ pc' = "layer" /\ UNCHANGED <<mode, limits, rows, round, frontier, children, expanded, queue>>
        /\ queue = <<>> /\ Searching
    BY <1>7 DEF LayerDone, Searching
  <2> QED BY <2>1, RoundGoesOn
<1>8. CASE EndRound
  BY <1>1, <1>8, RoundEnds
<1>9. CASE WriteExploration
  <2>1. /\ pc = "finish" /\ pc' = "explored"
        /\ UNCHANGED <<limits, rows, round, expanded>>
    BY <1>9 DEF WriteExploration
  <2>2. EarlierAreDone'
    <3>1. EarlierAreDone
      BY <1>1 DEF LayersAreExpanded
    <3> QED BY <2>1, <3>1, LayersStay, EarlierStay
  <2> QED BY <1>1, <2>1, <2>2 DEF LayersAreExpanded, Searching
<1>10. ~ ExploreState /\ ~ QueueEmpty /\ \A b \in pending : ~ ExplorePass(b)
  BY <1>1 DEF ExploreState, QueueEmpty, ExplorePass
<1> QED BY <1>1, <1>2, <1>3, <1>4, <1>5, <1>6, <1>7, <1>8, <1>9, <1>10 DEF ExplorerStep

\* Every step of a search keeps what an explorer has done.
LEMMA SearchStepExplores ==
  ASSUME CandidateAssumption, SearchInvariant, ExplorationInvariant,
         (Next /\ UNCHANGED skipped) \/ ExplorerNext
  PROVE  ExplorationInvariant'
<1>1. CASE ~ Exploring
  <2>1. ~ Exploring'
    <3>1. ~ ExplorerNext
      BY <1>1 DEF Exploring, ExplorerNext, ExploreParent, ExploreState, QueueEmpty, WriteExploration, ExploreBatch,
                  ExplorePass
    <3>2. mode' \in {mode, "budgeted", "exact"}
      BY <3>1 DEF Next, ChooseAutoMode, StartRound, ExactParent, BudgetedParent, ApplyBatch, ApplyFails, NewState,
                  ExactCap, ExactDuplicate, BudgetedCap, BudgetedDuplicate, ParentDone, LayerDone, EndRound, Finish,
                  runVars
    <3> QED BY <1>1, <3>2 DEF Exploring, ByBatches, ByStates
  <2> QED BY <2>1 DEF ExplorationInvariant, ExplorationHolds
<1>2. CASE Exploring
  <2>1. ExplorationHolds
    BY <1>2 DEF ExplorationInvariant, ExplorationHolds
  <2>2. TriedOnce' /\ LimitIsKept'
    BY <1>2, <2>1, TriesAreKept DEF ExplorationHolds
  <2>3. QueueIsNew' /\ StatesAreShallow'
    BY <1>2, <2>1, QueueIsKept, ShallowIsKept
  <2>4. UNCHANGED mode
    BY <1>2, ExplorersStep
  <2>5. StatesComeInOrder'
    <3>1. CASE ByStates
      BY <2>1, <3>1, OrderIsKept
    <3>2. CASE ~ ByStates
      BY <2>4, <3>2 DEF StatesComeInOrder, ByStates
    <3> QED BY <3>1, <3>2
  <2>6. LayersAreExpanded'
    <3>1. CASE ByBatches
      BY <2>1, <3>1, LayersAreKept
    <3>2. CASE ~ ByBatches
      BY <2>4, <3>2 DEF LayersAreExpanded, ByBatches
    <3> QED BY <3>1, <3>2
  <2> QED BY <2>2, <2>3, <2>5, <2>6 DEF ExplorationInvariant, ExplorationHolds
<1> QED BY <1>1, <1>2

\* Between searches nothing explored changes.
LEMMA RestExplores ==
  ASSUME ExplorationInvariant,
         UNCHANGED <<world, mode, limits, rows, lost, skipped, expanded, stop, round>>,
         pc # "apply", pc' \notin {"round", "parent", "apply", "layer", "finish", "explored"}
  PROVE  ExplorationInvariant'
<1> SUFFICES ASSUME Exploring' PROVE ExplorationInvariant'
  BY DEF ExplorationInvariant, ExplorationHolds
<1>1. /\ Exploring /\ ~ Searching'
      /\ StatesAreShallow /\ TriedOnce /\ LimitIsKept /\ QueueIsNew /\ StatesComeInOrder /\ LayersAreExpanded
  BY DEF Exploring, ByBatches, ByStates, Searching, ExplorationInvariant, ExplorationHolds
<1>2. StatesAreShallow'
  BY <1>1 DEF StatesAreShallow, Rows
<1>3. TriedOnce' /\ LimitIsKept'
  <2>1. \A i, b : ~ IsDue(i, b) /\ ~ IsDue(i, b)'
    BY DEF IsDue
  <2> QED BY <1>1, <2>1, DueIsSettled
<1>4. QueueIsNew'
  BY <1>1 DEF QueueIsNew
<1>5. StatesComeInOrder'
  BY <1>1 DEF StatesComeInOrder, ByStates
<1>6. LayersAreExpanded'
  <2> SUFFICES ASSUME ByBatches PROVE LayersAreExpanded'
    BY DEF LayersAreExpanded, ByBatches
  <2>1. EarlierAreDone'
    <3>1. EarlierAreDone
      BY <1>1 DEF LayersAreExpanded
    <3> QED BY <3>1, LayersStay, EarlierStay
  <2> QED BY <1>1, <2>1 DEF LayersAreExpanded
<1> QED BY <1>2, <1>3, <1>4, <1>5, <1>6 DEF ExplorationInvariant, ExplorationHolds

\* No manifest names an explorer.
LEMMA StageStepExplores ==
  ASSUME SearchInvariant, StagesInvariant, ExplorationInvariant, StagedNext, UNCHANGED skipped
  PROVE  ExplorationInvariant'
<1>1. CASE NextStage
  <2>1. mode' = ThisStage.mode /\ Len(stages) < Len(plan) /\ stages \in Seq(StageRow) /\ plan \in Plans
    BY <1>1, StagesSplit DEF NextStage, StagesHold
  <2>2. ThisStage \in Stage
    <3>1. plan \in Seq(Stage)
      BY <2>1, StagedAssumption DEF Manifest
    <3> QED BY <2>1, <3>1 DEF ThisStage
  <2>3. ~ Exploring'
    BY <2>1, <2>2 DEF Stage, Exploring, ByBatches, ByStates
  <2> QED BY <2>3 DEF ExplorationInvariant, ExplorationHolds
<1>2. CASE VerifyPipeline \/ HandOver \/ ReplayStages
  <2>1. /\ UNCHANGED <<world, mode, limits, rows, lost, skipped, expanded, stop, round>>
        /\ pc \in {"done", "verified", "handed"} /\ pc' \in {"verified", "raised", "handed", "staged"}
    BY <1>2 DEF VerifyPipeline, HandOver, ReplayStages, runVars, searchVars
  <2> QED BY <2>1, RestExplores
<1> QED BY <1>1, <1>2 DEF StagedNext

\* Nor does a comparison.
LEMMA BaselinesStepExplores ==
  ASSUME ExplorationInvariant, BaselinesNext, UNCHANGED skipped
  PROVE  ExplorationInvariant'
BY BaselinesRest, RestExplores

\* and doing nothing.
LEMMA NothingExplores ==
  ASSUME ExplorationInvariant, UNCHANGED commandVars
  PROVE  ExplorationInvariant'
<1> SUFFICES ASSUME Exploring' PROVE ExplorationInvariant'
  BY DEF ExplorationInvariant, ExplorationHolds
<1>1. UNCHANGED <<world, mode, limits, rows, lost, skipped, expanded, stop, round, pc, queue, pending, frontier, children>>
  BY DEF commandVars, explorerVars, vars, runVars, searchVars
<1>2. /\ Exploring
      /\ StatesAreShallow /\ TriedOnce /\ LimitIsKept /\ QueueIsNew /\ StatesComeInOrder /\ LayersAreExpanded
      /\ Searching' = Searching /\ Rows' = Rows /\ Parent' = Parent /\ ByBatches' = ByBatches /\ ByStates' = ByStates
  BY <1>1 DEF Exploring, ByBatches, ByStates, Searching, ExplorationInvariant, ExplorationHolds, Rows, Parent
<1>3. StatesAreShallow'
  BY <1>1, <1>2 DEF StatesAreShallow
<1>4. TriedOnce' /\ LimitIsKept'
  <2>1. \A i, b : IsDue(i, b)' <=> IsDue(i, b)
    BY <1>1, <1>2 DEF IsDue
  <2> QED BY <1>1, <1>2, <2>1, DueIsSettled
<1>5. QueueIsNew'
  BY <1>1, <1>2 DEF QueueIsNew, Original, Distinct
<1>6. StatesComeInOrder'
  BY <1>1, <1>2 DEF StatesComeInOrder, QueueIsOrdered, NoneIsForgotten, IsTaken, DepthOf, Original
<1>7. LayersAreExpanded'
  <2> SUFFICES ASSUME ByBatches PROVE LayersAreExpanded'
    BY <1>2 DEF LayersAreExpanded
  <2>1. EarlierAreDone => EarlierAreDone'
    BY <1>1, LayersStay, EarlierStay
  <2>2. Layer(round)' = Layer(round) /\ Layer(round + 1)' = Layer(round + 1)
    BY <1>1 DEF Layer, Rows
  <2>3. FrontierIsShare => FrontierIsShare'
    BY <1>1, <2>2, FrontierStays
  <2>4. RoundIsOn => RoundIsOn'
    BY <1>1, <2>2 DEF RoundIsOn, Distinct
  <2> QED BY <1>1, <1>2, <2>1, <2>3, <2>4 DEF LayersAreExpanded
<1> QED BY <1>3, <1>4, <1>5, <1>6, <1>7 DEF ExplorationInvariant, ExplorationHolds

\* An explorer that has not begun has explored nothing.
LEMMA InitExplores ==
  ASSUME Init, skipped = {}
  PROVE  ExplorationInvariant
<1> SUFFICES ASSUME Exploring PROVE ExplorationInvariant
  BY DEF ExplorationInvariant, ExplorationHolds
<1>1. /\ expanded = {} /\ lost = {} /\ ~ stop /\ round = 0 /\ frontier = <<1>> /\ pc = "round"
      /\ rows = RootRow(Compiler.root) /\ (ByBatches => limits \in Limits) /\ ~ Searching
  BY DEF Init, ByBatches, Unlimited, Searching
<1>2. /\ Rows = {1} /\ Len(rows) = 1
      /\ rows[1].copyOf = 0 /\ rows[1].depth = 0 /\ rows[1].parent = 0
  BY <1>1 DEF Rows, RootRow
<1>3. StatesAreShallow
  BY <1>2 DEF StatesAreShallow
<1>4. Offspring = {}
  BY <1>2 DEF Offspring
<1>5. TriedOnce
  BY <1>1, <1>2, <1>4 DEF TriedOnce
<1>6. LimitIsKept
  BY <1>1 DEF LimitIsKept
<1>7. QueueIsNew
  BY <1>1 DEF QueueIsNew
<1>8. StatesComeInOrder
  BY <1>1, <1>2 DEF StatesComeInOrder
<1>9. LayersAreExpanded
  <2>1. Layer(0) = {1}
    BY <1>2 DEF Layer
  <2>2. DOMAIN <<1>> = {1} /\ <<1>>[1] = 1 /\ Len(<<1>>) = 1
    OBVIOUS
  <2>3. Cardinality({1}) = 1
    BY FS_Singleton
  <2>4. FrontierIsShare
    BY <1>1, <2>1, <2>2, <2>3 DEF FrontierIsShare, Share, Distinct, Range
  <2>5. EarlierAreDone
    BY <1>1 DEF EarlierAreDone
  <2> QED BY <1>1, <2>4, <2>5 DEF LayersAreExpanded
<1> QED BY <1>3, <1>5, <1>6, <1>7, <1>8, <1>9 DEF ExplorationInvariant, ExplorationHolds

-----------------------------------------------------------------------------
(* What the tables of an explorer say.                                     *)

\* A few batches are numbered by the limit.
Numbers(h, S) == \A b \in S : \E k \in 1 .. limits.batches : h[k] = b

\* Batches that are within the limit can be numbered up to it.
LEMMA FewAreNumbered ==
  ASSUME CandidateAssumption, limits \in Limits, NEW chosen, Few(chosen)
  PROVE  \E h : Numbers(h, chosen)
<1>1. limits.batches \in Nat
  BY LegacyAssumption
<1>2. IsFiniteSet(chosen)
  BY FS_Subset DEF CandidateAssumption, Few
<1>3. Cardinality(chosen) \in Nat /\ ExistsBijection(1 .. Cardinality(chosen), chosen)
  BY <1>2, FS_CardinalityType
<1>4. PICK h : h \in Bijection(1 .. Cardinality(chosen), chosen)
  BY <1>3 DEF ExistsBijection
<1>5. \A b \in chosen : \E k \in 1 .. Cardinality(chosen) : h[k] = b
  BY <1>4 DEF Bijection, Surjection
<1>6. 1 .. Cardinality(chosen) \subseteq 1 .. limits.batches
  BY <1>1, <1>3 DEF Few
<1> QED BY <1>5, <1>6 DEF Numbers

\* Pairs of a row of X and one of its few batches.
LEMMA PairsAreFew ==
  ASSUME CandidateAssumption, limits \in Limits, NEW X \in SUBSET expanded, IsFiniteSet(X),
         NEW Q \in SUBSET (X \X Batches),
         \A i \in X : \E chosen : Few(chosen) /\ \A b \in Batches : <<i, b>> \in Q => b \in chosen
  PROVE  IsFiniteSet(Q) /\ Cardinality(Q) <= limits.batches * Cardinality(X)
<1> DEFINE L == limits.batches
           Of(i) == {b \in Batches : <<i, b>> \in Q}
           H == [i \in X |-> CHOOSE h : Numbers(h, Of(i))]
           Place(q) == CHOOSE k \in 1 .. L : H[q[1]][k] = q[2]
           g == [q \in Q |-> <<Place(q), q[1]>>]
<1>1. L \in Nat
  BY LegacyAssumption
<1>2. \A i \in X : Numbers(H[i], Of(i))
  <2> SUFFICES ASSUME NEW i \in X PROVE \E h : Numbers(h, Of(i))
    OBVIOUS
  <2>1. PICK chosen : Few(chosen) /\ Of(i) \subseteq chosen
    OBVIOUS
  <2>2. PICK h : Numbers(h, chosen)
    BY <2>1, FewAreNumbered
  <2> QED BY <2>1, <2>2 DEF Numbers
<1> HIDE DEF H
<1>3. ASSUME NEW q \in Q
      PROVE  /\ q[1] \in X /\ q[2] \in Batches /\ q = <<q[1], q[2]>>
             /\ Place(q) \in 1 .. L /\ H[q[1]][Place(q)] = q[2]
  <2>1. q[1] \in X /\ q[2] \in Batches /\ q = <<q[1], q[2]>>
    OBVIOUS
  <2>2. q[2] \in Of(q[1])
    BY <2>1
  <2>3. \E k \in 1 .. L : H[q[1]][k] = q[2]
    BY <1>2, <2>1, <2>2 DEF Numbers
  <2> QED BY <2>1, <2>3
<1> HIDE DEF Place
<1>4. g \in Injection(Q, (1 .. L) \X X)
  <2>1. g \in [Q -> (1 .. L) \X X]
    BY <1>3
  <2>2. ASSUME NEW p \in Q, NEW q \in Q, g[p] = g[q] PROVE p = q
    <3>1. Place(p) = Place(q) /\ p[1] = q[1]
      BY <2>2
    <3>2. p[2] = q[2]
      BY <1>3, <3>1
    <3> QED BY <1>3, <3>1, <3>2
  <2> HIDE DEF g
  <2> QED BY <2>1, <2>2 DEF Injection, IsInjective
<1>5. IsFiniteSet(1 .. L) /\ Cardinality(1 .. L) = L
  BY <1>1, IntervalIsCounted
<1> HIDE DEF L, g
<1>6. /\ IsFiniteSet((1 .. L) \X X)
      /\ Cardinality((1 .. L) \X X) = L * Cardinality(X)
  BY <1>5, FS_Product
<1>7. IsFiniteSet(Q) /\ Cardinality(Q) <= Cardinality((1 .. L) \X X)
  BY <1>4, <1>6, FS_Injection
<1> QED BY <1>6, <1>7 DEF L

\* What happens below depth d.
Executions(d) == {j \in Offspring : DepthOf(rows[j].parent) = d}
Skips(d)      == {s \in skipped : DepthOf(s[1]) = d}

\* The batches that took a place are within the limit.
LEMMA SummaryIsBounded ==
  ASSUME CandidateAssumption, SearchInvariant, TriedOnce, LimitIsKept, ByBatches, NEW d
  PROVE  Cardinality(Executions(d)) + Cardinality(Skips(d))
           <= limits.batches * Cardinality(Layer(d) \cap expanded)
<1> DEFINE X == Layer(d) \cap expanded
           E == Executions(d)
           K == Skips(d)
           pair == [j \in E |-> <<rows[j].parent, rows[j].batch>>]
           P == {<<rows[j].parent, rows[j].batch>> : j \in E}
           Q == P \cup K
<1>1. /\ limits \in Limits /\ skipped \subseteq expanded \X Batches
      /\ \A i \in expanded, b \in Batches : <<i, b>> \in skipped => ~ Tried(i, b)
      /\ \A i \in expanded : \E chosen : Few(chosen) /\ Places(i, chosen)
  BY DEF LimitIsKept
<1>2. IsFiniteSet(Rows) /\ Offspring \subseteq Rows /\ expanded \subseteq Rows
  BY RowsAreSound, IntervalIsCounted DEF Offspring, SearchInvariant, CallIsTyped
<1>3. \A i \in expanded : DepthOf(i) = d => i \in X
  BY <1>2 DEF TriedOnce, Layer, Original, DepthOf
<1>4. ASSUME NEW j \in E
      PROVE  /\ j \in Offspring /\ rows[j].parent \in X /\ rows[j].batch \in Batches
             /\ Tried(rows[j].parent, rows[j].batch)
  <2>1. j \in Offspring /\ rows[j].parent \in expanded /\ DepthOf(rows[j].parent) = d
    BY DEF Executions, TriedOnce
  <2>2. rows[j].batch \in Batches
    BY <2>1 DEF Offspring, SearchInvariant, RowsInvariant, RowsFollow, Follows, Leads
  <2>3. Tried(rows[j].parent, rows[j].batch)
    BY <2>1 DEF Tried, IsChild
  <2> QED BY <1>3, <2>1, <2>2, <2>3
<1>5. K \subseteq X \X Batches
  BY <1>1, <1>3 DEF Skips
<1> HIDE DEF E, K, X
<1>6. P \subseteq X \X Batches
  BY <1>4
<1>7. P \cap K = {}
  <2>1. ASSUME NEW j \in E PROVE <<rows[j].parent, rows[j].batch>> \notin skipped
    BY <1>1, <1>4 DEF X
  <2> QED BY <2>1 DEF K, Skips
<1>8. IsFiniteSet(E) /\ IsFiniteSet(X)
  BY <1>2, FS_Subset DEF E, X, Executions
<1>9. IsFiniteSet(P) /\ Cardinality(P) = Cardinality(E)
  <2>1. pair \in Surjection(E, P)
    BY DEF Surjection
  <2>2. \A j, k \in E : pair[j] = pair[k] => j = k
    BY <1>4 DEF TriedOnce, AreTwins
  <2>3. pair \in Injection(E, P)
    <3>1. pair \in [E -> P]
      OBVIOUS
    <3> HIDE DEF pair, P
    <3> QED BY <2>2, <3>1 DEF Injection, IsInjective
  <2> HIDE DEF pair, P
  <2>4. ExistsBijection(E, P)
    BY <2>1, <2>3 DEF Bijection, ExistsBijection
  <2> QED BY <1>8, <2>4, FS_Bijection
<1>10. \A i \in X : \E chosen : Few(chosen) /\ \A b \in Batches : <<i, b>> \in Q => b \in chosen
  <2> SUFFICES ASSUME NEW i \in X
               PROVE  \E chosen : Few(chosen) /\ \A b \in Batches : <<i, b>> \in Q => b \in chosen
    OBVIOUS
  <2>1. PICK chosen : Few(chosen) /\ Places(i, chosen)
    BY <1>1 DEF X
  <2>2. ASSUME NEW b \in Batches, <<i, b>> \in Q PROVE b \in chosen
    <3>1. Placed(i, b)
      BY <1>4, <2>2 DEF Placed, K, Skips
    <3> QED BY <2>1, <3>1 DEF Places
  <2> QED BY <2>1, <2>2
<1>11. Q \subseteq X \X Batches /\ X \subseteq expanded
  BY <1>5, <1>6 DEF X
<1>12. IsFiniteSet(Q) /\ Cardinality(Q) <= limits.batches * Cardinality(X)
  <2> HIDE DEF Q
  <2> QED BY <1>1, <1>8, <1>10, <1>11, PairsAreFew
<1>13. IsFiniteSet(K) /\ Cardinality(Q) = Cardinality(P) + Cardinality(K)
  <2>1. IsFiniteSet(K)
    <3>1. K \subseteq Q
      OBVIOUS
    <3> HIDE DEF Q
    <3> QED BY <1>12, <3>1, FS_Subset
  <2> HIDE DEF P
  <2>2. Cardinality(Q) = Cardinality(P) + Cardinality(K) - Cardinality(P \cap K)
    BY <1>9, <2>1, FS_Union
  <2>3. Cardinality(P \cap K) = 0 /\ Cardinality(P) \in Nat /\ Cardinality(K) \in Nat
    BY <1>7, <1>9, <2>1, FS_EmptySet, FS_CardinalityType
  <2> QED BY <2>1, <2>2, <2>3
<1> QED BY <1>9, <1>12, <1>13 DEF E, K, X

\* A batch that was tried has one row.
LEMMA TriedIsOneRow ==
  ASSUME SearchInvariant, TriedOnce, NEW i \in expanded, NEW b, Tried(i, b)
  PROVE  Cardinality({j \in Rows : rows[j].parent = i /\ rows[j].batch = b}) = 1
<1>1. PICK k \in Offspring : IsChild(k, i, b)
  BY DEF Tried
<1>2. i # 0
  BY RowsAreSound DEF SearchInvariant, CallIsTyped
<1>3. rows[1].parent # i
  BY <1>2 DEF TriedOnce
<1>4. {j \in Rows : rows[j].parent = i /\ rows[j].batch = b} = {k}
  BY <1>1, <1>3 DEF TriedOnce, AreTwins, IsChild, Offspring
<1> QED BY <1>4, FS_Singleton

\* A state of the next depth was executed.
LEMMA StatesAreExecuted ==
  ASSUME SearchInvariant, NEW d \in Nat
  PROVE  Cardinality(Layer(d + 1)) <= Cardinality(Executions(d))
<1>1. IsFiniteSet(Rows)
  BY RowsAreSound, IntervalIsCounted
<1>2. IsFiniteSet(Executions(d))
  BY <1>1, FS_Subset DEF Executions, Offspring
<1>3. ASSUME NEW i \in Layer(d + 1) PROVE i \in Executions(d)
  <2>1. i \in Rows /\ rows[i].depth = d + 1 /\ rows[1].depth = 0
    BY DEF Layer, SearchInvariant, RowsInvariant, RowsAreRecorded
  <2>2. i # 1
    BY <2>1
  <2>3. rows[i].parent \in Rows /\ rows[i].depth = rows[rows[i].parent].depth + 1
    BY <2>1, <2>2 DEF SearchInvariant, RowsInvariant, RowsFollow, Follows
  <2>4. rows[rows[i].parent].depth \in Nat
    BY <2>3, RowsAreSound
  <2> QED BY <2>1, <2>2, <2>3, <2>4 DEF Executions, Offspring, DepthOf
<1> QED BY <1>2, <1>3, FS_Subset

\* When the tables are written nothing is missing.
LEMMA NothingMissing ==
  ASSUME CandidateAssumption, SearchInvariant, ExplorationInvariant, Exploring
  PROVE  NothingIsMissed
<1> SUFFICES ASSUME pc = "explored" PROVE NothingIsMissed
  BY DEF NothingIsMissed
<1>1. /\ TriedOnce /\ LimitIsKept /\ StatesComeInOrder /\ LayersAreExpanded /\ ~ Searching
      /\ \A i, b : ~ IsDue(i, b)
  BY DEF ExplorationInvariant, ExplorationHolds, Searching, IsDue
<1>2. ASSUME NEW i \in expanded,
             NEW b \in IF ByStates THEN Active(rows[i].module) ELSE Certifiable(rows[i].module)
      PROVE  \/ <<i, b>> \in lost \cup skipped
             \/ Cardinality({j \in Rows : rows[j].parent = i /\ rows[j].batch = b}) = 1
  <2>1. b \in Wanted(i)
    BY DEF Wanted
  <2>2. <<i, b>> \in lost \cup skipped \/ Tried(i, b)
    BY <1>1, <2>1 DEF TriedOnce
  <2> QED BY <1>1, <2>2, TriedIsOneRow
<1>3. ASSUME NEW d \in 0 .. MaxRounds - 1
      PROVE  LET open == Cardinality(Layer(d))
                 done == Cardinality(Layer(d) \cap expanded)
             IN done = IF d = 0 \/ ByStates \/ open < limits.frontier THEN open ELSE limits.frontier
  <2>1. d \in Nat /\ d < MaxRounds /\ MaxRounds \in Nat
    BY LegacyAssumption
  <2>2. CASE ByBatches
    <3>1. LayerIsDone(d)
      BY <1>1, <2>1, <2>2 DEF LayersAreExpanded, EarlierAreDone
    <3>2. ~ ByStates
      BY <2>2 DEF ByBatches, ByStates
    <3> QED BY <3>1, <3>2 DEF LayerIsDone, Share
  <2>3. CASE ByStates
    <3>1. \A i \in Layer(d) : i \in expanded
      BY <1>1, <2>1, <2>3 DEF StatesComeInOrder, NoneIsForgotten, IsTaken, DepthOf, Layer, Original
    <3>2. (Layer(d) \cap expanded) = Layer(d)
      BY <3>1
    <3> QED BY <2>3, <3>2
  <2> QED BY <2>2, <2>3 DEF Exploring
<1>4. ASSUME ByBatches, NEW d \in 0 .. MaxRounds - 1
      PROVE  LET s == BatchSummary(d)
             IN /\ s.executed + s.skipped <= limits.batches * Cardinality(Layer(d) \cap expanded)
                /\ BatchSummary(d + 1).states <= s.executed
  <2>1. d \in Nat
    BY LegacyAssumption
  <2>2. BatchSummary(d).executed = Cardinality(Executions(d))
    BY DEF BatchSummary, Executions, Offspring, DepthOf
  <2>3. BatchSummary(d).skipped = Cardinality(Skips(d))
    BY DEF BatchSummary, Skips, DepthOf
  <2>4. BatchSummary(d + 1).states = Cardinality(Layer(d + 1))
    BY DEF BatchSummary, Layer
  <2>5. Cardinality(Executions(d)) + Cardinality(Skips(d)) <= limits.batches * Cardinality(Layer(d) \cap expanded)
    BY <1>1, <1>4, SummaryIsBounded
  <2> QED BY <2>1, <2>2, <2>3, <2>4, <2>5, StatesAreExecuted
<1> QED BY <1>2, <1>3, <1>4 DEF NothingIsMissed

\* The tables of explore_batches and explore_states lack nothing but what limits cut
\* off or opt lost: no state that was due is left, none is a state twice, and the summary
\* of every round counts what the round did, within its limits.
THEOREM ExplorationAlwaysFaithful == CommandSpec => []ExplorationIsFaithful
<1> DEFINE Inv == SearchInvariant /\ StagesInvariant /\ ExplorationInvariant
<1>1. CommandInit => Inv
  BY CommandInitIsSound, InitExplores DEF CommandInit, ExplorerInit
<1>2. Inv /\ [CommandNext]_commandVars => Inv'
  <2> SUFFICES ASSUME Inv, [CommandNext]_commandVars PROVE Inv'
    OBVIOUS
  <2>1. SearchInvariant' /\ StagesInvariant'
    BY CommandStepKeeps
  <2>2. ExplorationInvariant'
    BY CandidateAssumption, SearchStepExplores, StageStepExplores, BaselinesStepExplores, NothingExplores
       DEF CommandNext
  <2> QED BY <2>1, <2>2
<1>3. Inv => ExplorationIsFaithful
  BY CandidateAssumption, NothingMissing DEF ExplorationIsFaithful, ExplorationInvariant, ExplorationHolds, Exploring
<1> QED BY <1>1, <1>2, <1>3, PTL DEF CommandSpec

=============================================================================
