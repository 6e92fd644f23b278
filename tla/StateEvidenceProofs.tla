------------------------ MODULE StateEvidenceProofs ------------------------
(***************************************************************************)
(* For any passes, world, options and number of failures: the batches of a *)
(* state hold only passes that commute, a state reported complete has all  *)
(* the largest of them, and evidence is never replaced.                    *)
(***************************************************************************)
EXTENDS StateEvidence, FiniteSetTheorems, TLAPS

(***************************************************************************)
(* Batches are built one component at a time.  That loses and adds         *)
(* nothing: the choices of largest conflict-free sets in every component   *)
(* are exactly the largest conflict-free sets of all active passes.        *)
(***************************************************************************)

\* A component is part of A, has the pass it was searched from, and is closed.
LEMMA ComponentIsClosed ==
  ASSUME NEW A, NEW E, NEW p \in A
  PROVE  /\ Component(A, E, p) \subseteq A
         /\ p \in Component(A, E, p)
         /\ Closed(A, E, Component(A, E, p))
<1> DEFINE C == Component(A, E, p)
<1>1. C \subseteq A /\ p \in C
  BY DEF Component
<1>2. ASSUME NEW a \in C, NEW b \in A, a # b, {a, b} \in E
      PROVE  b \in C
  <2>1. ASSUME NEW S \in SUBSET A, p \in S, Closed(A, E, S)
        PROVE  b \in S
    <3>1. a \in S
      BY <2>1 DEF Component
    <3> QED BY <1>2, <2>1, <3>1 DEF Closed
  <2> QED BY <2>1 DEF Component
<1>3. Closed(A, E, C)
  BY <1>2 DEF Closed
<1> QED BY <1>1, <1>3

\* Conflicts inside a component only ever meet batches inside it.
LEMMA IndependentByComponent ==
  ASSUME NEW A, NEW E, NEW B \in SUBSET A,
         \A C \in Components(A, E) : Independent(E, B \cap C)
  PROVE  Independent(E, B)
<1> SUFFICES ASSUME NEW a \in B, NEW b \in B, a # b, {a, b} \in E
             PROVE  FALSE
  BY DEF Independent
<1> DEFINE C == Component(A, E, a)
<1>1. C \in Components(A, E)
  BY DEF Components
<1>2. a \in C /\ Closed(A, E, C)
  BY ComponentIsClosed
<1>3. b \in C
  BY <1>2 DEF Closed
<1> HIDE DEF C
<1> QED BY <1>1, <1>2, <1>3 DEF Independent

\* What a closed set holds of a largest batch can be exchanged on its own.
LEMMA Exchange ==
  ASSUME NEW A, NEW E, NEW C \in SUBSET A, Closed(A, E, C),
         NEW B \in SUBSET A, Independent(E, B),
         NEW T \in SUBSET C, Independent(E, T), B \cap C \subseteq T
  PROVE  Independent(E, B \cup T)
<1> SUFFICES ASSUME NEW a \in B \cup T, NEW b \in B \cup T, a # b, {a, b} \in E
             PROVE  FALSE
  BY DEF Independent
<1>1. CASE a \in C
  <2>1. b \in C
    BY <1>1 DEF Closed
  <2> QED BY <1>1, <2>1 DEF Independent
<1>2. CASE b \in C
  <2>1. {b, a} = {a, b}
    OBVIOUS
  <2>2. a \in C
    BY <1>2, <2>1 DEF Closed
  <2> QED BY <1>2, <2>2 DEF Independent
<1>3. CASE a \notin C /\ b \notin C
  <2>1. a \in B /\ b \in B
    BY <1>3
  <2> QED BY <2>1 DEF Independent
<1> QED BY <1>1, <1>2, <1>3

\* One largest set of each component makes a largest set of all: build_batch_family
\* may look at the components one by one.
LEMMA ComponentsSuffice ==
  ASSUME NEW A, NEW E, NEW B \in SUBSET A, A # {},
         \A C \in Components(A, E) : B \cap C \in MaximalIndependentSets(E, C)
  PROVE  B \in MaximalIndependentSets(E, A)
<1>1. \A C \in Components(A, E) :
        /\ B \cap C # {} /\ Independent(E, B \cap C)
        /\ \A T \in SUBSET C : B \cap C \subseteq T /\ Independent(E, T) => B \cap C = T
  BY DEF MaximalIndependentSets
<1>2. Independent(E, B)
  BY <1>1, IndependentByComponent
<1>3. B # {}
  <2>1. PICK p \in A : TRUE
    OBVIOUS
  <2>2. Component(A, E, p) \in Components(A, E)
    BY DEF Components
  <2>3. B \cap Component(A, E, p) # {}
    BY <1>1, <2>2
  <2> QED BY <2>3
<1>4. ASSUME NEW T \in SUBSET A, B \subseteq T, Independent(E, T)
      PROVE  B = T
  <2> SUFFICES ASSUME NEW x \in T PROVE x \in B
    BY <1>4
  <2> DEFINE C == Component(A, E, x)
  <2>1. C \in Components(A, E) /\ x \in C
    BY ComponentIsClosed DEF Components
  <2> HIDE DEF C
  <2>2. Independent(E, T \cap C)
    BY <1>4 DEF Independent
  <2>3. B \cap C = T \cap C
    BY <1>1, <1>4, <2>1, <2>2
  <2> QED BY <2>1, <2>3
<1> QED BY <1>2, <1>3, <1>4 DEF MaximalIndependentSets

\* A largest set of all has a largest set of every component.
LEMMA ComponentsAreNecessary ==
  ASSUME NEW A, NEW E, NEW B \in MaximalIndependentSets(E, A),
         NEW C \in Components(A, E)
  PROVE  B \cap C \in MaximalIndependentSets(E, C)
<1>1. /\ B \in SUBSET A /\ Independent(E, B)
      /\ \A T \in SUBSET A : B \subseteq T /\ Independent(E, T) => B = T
  BY DEF MaximalIndependentSets
<1>2. PICK p \in A : C = Component(A, E, p)
  BY DEF Components
<1>3. C \subseteq A /\ p \in C /\ Closed(A, E, C)
  BY <1>2, ComponentIsClosed
<1>4. Independent(E, B \cap C)
  BY <1>1 DEF Independent
<1>5. ASSUME NEW T \in SUBSET C, B \cap C \subseteq T, Independent(E, T)
      PROVE  B \cap C = T
  <2>1. Independent(E, B \cup T)
    BY <1>1, <1>3, <1>5, Exchange
  <2>2. B = B \cup T
    BY <1>1, <1>3, <2>1
  <2> QED BY <1>5, <2>2
<1>6. B \cap C # {}
  <2> SUFFICES ASSUME B \cap C = {} PROVE FALSE
    OBVIOUS
  <2>1. Independent(E, {p})
    BY DEF Independent
  <2>2. B \cap C = {p}
    BY <1>3, <1>5, <2>1
  <2> QED BY <2>2
<1> QED BY <1>4, <1>5, <1>6 DEF MaximalIndependentSets

\* With every component resolved, the batches that are built of their
\* alternatives are the largest sets of active passes without a conflict.
THEOREM FamilyIsMaximal ==
  ASSUME NEW A, NEW E, NEW maxSize,
         \A C \in Components(A, E) : Resolved(C, maxSize)
  PROVE  BatchFamily(A, E, maxSize) = MaximalIndependentSets(E, A)
<1>1. \A C \in Components(A, E) :
        Alternatives(E, C, maxSize) = MaximalIndependentSets(E, C)
  BY DEF Alternatives
<1>2. BatchFamily(A, E, maxSize) =
        {B \in SUBSET A :
           A # {} /\ \A C \in Components(A, E) : B \cap C \in MaximalIndependentSets(E, C)}
  BY <1>1 DEF BatchFamily
<1>3. ASSUME NEW B \in BatchFamily(A, E, maxSize)
      PROVE  B \in MaximalIndependentSets(E, A)
  BY <1>2, <1>3, ComponentsSuffice
<1>4. ASSUME NEW B \in MaximalIndependentSets(E, A)
      PROVE  B \in BatchFamily(A, E, maxSize)
  <2>1. B \in SUBSET A /\ A # {}
    BY DEF MaximalIndependentSets
  <2>2. \A C \in Components(A, E) : B \cap C \in MaximalIndependentSets(E, C)
    BY ComponentsAreNecessary
  <2> QED BY <1>2, <2>1, <2>2
<1> QED BY <1>3, <1>4

\* Resolved or not, no batch holds a conflict.
THEOREM FamilyIsIndependent ==
  ASSUME NEW A, NEW E, NEW maxSize, NEW B \in BatchFamily(A, E, maxSize)
  PROVE  B \in SUBSET A /\ Independent(E, B)
<1>1. B \in SUBSET A
  BY DEF BatchFamily
<1>2. ASSUME NEW C \in Components(A, E)
      PROVE  Independent(E, B \cap C)
  <2>1. B \cap C \in Alternatives(E, C, maxSize)
    BY DEF BatchFamily
  <2>2. CASE Resolved(C, maxSize)
    BY <2>1, <2>2 DEF Alternatives, MaximalIndependentSets
  <2>3. CASE ~Resolved(C, maxSize)
    <3>1. PICK p \in C : B \cap C = {p}
      BY <2>1, <2>3 DEF Alternatives
    <3> QED BY <3>1 DEF Independent
  <2> QED BY <2>2, <2>3
<1> QED BY <1>1, <1>2, IndependentByComponent

\* Every active pass is in a component: none is dropped by the construction.
THEOREM ComponentsCover ==
  ASSUME NEW A, NEW E
  PROVE  UNION Components(A, E) = A
<1>1. \A p \in A : Component(A, E, p) \subseteq A /\ p \in Component(A, E, p)
  BY ComponentIsClosed
<1> QED BY <1>1 DEF Components

\* Phases in which the pairs are still open, and those before batches are built.
Open    == {"profiling", "scheduling_pairs", "pairing"}
Unbuilt == Open \cup {"building"}

(***************************************************************************)
(* What the files say is so: a pass is active only if it changes the       *)
(* module, and if nothing failed every such pass is; a pair commutes only  *)
(* if it does, and if nothing failed every tested pair that does.          *)
(***************************************************************************)
ProfileIsTrue ==
  \A p \in Passes :
    /\ profile[p] = "active" => p \in Truth.active
    /\ failures = 0 /\ phase # "profiling" /\ p \in Truth.active => profile[p] = "active"

PairsAreTrue ==
  \A e \in DOMAIN pairs :
    /\ pairs[e] = "commute" => e \notin Truth.sensitive
    /\ failures = 0 => pairs[e] \in {"none", "not_tested", Relation(e)}
    /\ phase \notin Open => pairs[e] # "none"

Earned(B, status) ==
  /\ status = "all_permutations_same" => B \in Truth.agree
  /\ status = "mismatch" => B \notin Truth.agree

RowsAreTrue == \A B \in DOMAIN rows : Earned(B, rows[B])

MemoryIsTrue == \A B \in DOMAIN memory : Earned(B, memory[B])

\* A call of the validation starts from the rows that were attempted before.
MemoryKeepsRows ==
  phase = "validating" =>
    /\ DOMAIN memory = DOMAIN rows
    /\ \A B \in DOMAIN rows : Attempted(rows[B]) => memory[B] = rows[B]

FilesAreBuilt ==
  IF phase \in Unbuilt THEN DOMAIN rows = {} /\ DOMAIN memory = {} /\ attempted = {} /\ parts = {}
  ELSE /\ DOMAIN rows = Family
       /\ parts = Components(Active, Conflicts)
       /\ truncated = Truncated(Active, Conflicts, Opt.componentSize, Opt.maxBatches)

ReasonsAreThose == phase = "reported" => reasons = {r \in DOMAIN Applies : Applies[r]}

\* The invariant that every step keeps.
EvidenceInv ==
  /\ TypeOK
  /\ ProfileIsTrue
  /\ PairsAreTrue
  /\ RowsAreTrue
  /\ MemoryIsTrue
  /\ MemoryKeepsRows
  /\ FilesAreBuilt
  /\ ReasonsAreThose

-----------------------------------------------------------------------------
\* Batches are sets of active passes without a conflict.
LEMMA FamilyFacts ==
  \A B \in Family : B \in BatchFamily(Active, Conflicts, Opt.componentSize)
BY DEF Family, Candidates

LEMMA FamilyOfActive == Family \subseteq SUBSET Active
BY FamilyFacts, FamilyIsIndependent

\* While the world, the profile and the pairs stay, so does what follows from them.
LEMMA Frame ==
  ASSUME world' = world, profile' = profile, pairs' = pairs
  PROVE  /\ Opt' = Opt /\ Truth' = Truth /\ Active' = Active
         /\ Seen' = Seen /\ Conflicts' = Conflicts /\ Family' = Family
BY DEF Opt, Truth, Active, Seen, Conflicts, Family

\* The parts of the invariant about profiles and pairs, while these stay.
LEMMA PairsFrame ==
  ASSUME EvidenceInv, world' = world, profile' = profile, pairs' = pairs,
         phase \notin Open, phase' \notin Open,
         failures' \in 0 .. MaxFailures, failures' = 0 => failures = 0
  PROVE  ProfileIsTrue' /\ PairsAreTrue'
<1>1. Truth' = Truth
  BY Frame
<1>2. ProfileIsTrue'
  BY <1>1 DEF EvidenceInv, ProfileIsTrue, Open
<1>3. PairsAreTrue'
  BY <1>1 DEF EvidenceInv, PairsAreTrue, Relation
<1> QED BY <1>2, <1>3

LEMMA InitIsTrue == Init => EvidenceInv
<1> SUFFICES ASSUME Init PROVE EvidenceInv
  OBVIOUS
<1> USE DEF Init
<1>1. TypeOK
  <2>1. DOMAIN pairs = {} /\ pairs \in [{} -> Relations]
    OBVIOUS
  <2>2. DOMAIN rows = {} /\ rows \in [{} -> Statuses] /\ memory = rows
    OBVIOUS
  <2>3. profile \in [Passes -> ProfileOutcomes]
    BY DEF ProfileOutcomes
  <2>4. failures \in 0 .. MaxFailures
    BY EvidenceAssumption
  <2>5. truncated \in BOOLEAN /\ phase \in Phases
    BY DEF Phases
  <2> QED BY <2>1, <2>2, <2>3, <2>4, <2>5 DEF TypeOK
<1>2. ProfileIsTrue /\ PairsAreTrue
  BY DEF ProfileIsTrue, PairsAreTrue
<1>3. RowsAreTrue /\ MemoryIsTrue /\ MemoryKeepsRows
  BY DEF RowsAreTrue, MemoryIsTrue, MemoryKeepsRows
<1>4. FilesAreBuilt /\ ReasonsAreThose
  BY DEF FilesAreBuilt, ReasonsAreThose, Unbuilt, Open
<1> QED BY <1>1, <1>2, <1>3, <1>4 DEF EvidenceInv

LEMMA ProfilePassesKeeps == EvidenceInv /\ ProfilePasses => EvidenceInv'
<1> SUFFICES ASSUME EvidenceInv, ProfilePasses PROVE EvidenceInv'
  OBVIOUS
<1> USE DEF ProfilePasses, files
<1>1. PICK broken \in SUBSET Passes :
        /\ failures + Cardinality(broken) <= MaxFailures
        /\ failures' = failures + Cardinality(broken)
        /\ profile' = [p \in Passes |->
                         IF p \in broken THEN "failed"
                         ELSE IF p \in Truth.active THEN "active" ELSE "inactive"]
  OBVIOUS
<1>2. /\ IsFiniteSet(broken) /\ Cardinality(broken) \in Nat
      /\ Cardinality(broken) = 0 => broken = {}
  BY EvidenceAssumption, FS_Subset, FS_CardinalityType, FS_EmptySet
<1>3. failures' \in 0 .. MaxFailures /\ (failures' = 0 => broken = {})
  BY <1>1, <1>2, EvidenceAssumption DEF EvidenceInv, TypeOK
<1>4. /\ DOMAIN rows = {} /\ DOMAIN memory = {} /\ attempted = {}
      /\ DOMAIN pairs = {} /\ parts = {}
  BY DEF EvidenceInv, FilesAreBuilt, TypeOK, Unbuilt, Open
<1>5. TypeOK'
  <2>1. profile' \in [Passes -> ProfileOutcomes]
    BY <1>1 DEF ProfileOutcomes
  <2>2. parts = parts' /\ parts' \subseteq SUBSET (Active')
    BY DEF EvidenceInv, FilesAreBuilt, Unbuilt, Open
  <2> QED BY <1>3, <1>4, <2>1, <2>2 DEF EvidenceInv, TypeOK, Phases
<1>6. ProfileIsTrue'
  <2>1. Truth' = Truth
    BY DEF Truth
  <2> QED BY <1>1, <1>3, <2>1 DEF ProfileIsTrue
<1>7. PairsAreTrue' /\ RowsAreTrue' /\ MemoryIsTrue' /\ MemoryKeepsRows'
  BY <1>4 DEF PairsAreTrue, RowsAreTrue, MemoryIsTrue, MemoryKeepsRows
<1>8. FilesAreBuilt' /\ ReasonsAreThose'
  BY <1>4 DEF FilesAreBuilt, ReasonsAreThose, Unbuilt, Open
<1> QED BY <1>5, <1>6, <1>7, <1>8 DEF EvidenceInv

LEMMA SchedulePairsKeeps == EvidenceInv /\ SchedulePairs => EvidenceInv'
<1> SUFFICES ASSUME EvidenceInv, SchedulePairs PROVE EvidenceInv'
  OBVIOUS
<1> USE DEF SchedulePairs, files
<1>1. PICK tested \in TestedSets :
        pairs' = [e \in Seen |-> IF e \in tested THEN "none" ELSE "not_tested"]
  OBVIOUS
<1>2. Active' = Active /\ Truth' = Truth
  BY DEF Active, Truth
<1>3. /\ DOMAIN rows = {} /\ DOMAIN memory = {} /\ attempted = {} /\ parts = {}
      /\ DOMAIN rows' = {} /\ DOMAIN memory' = {} /\ attempted' = {} /\ parts' = {}
  BY DEF EvidenceInv, FilesAreBuilt, Unbuilt, Open
<1>4. TypeOK'
  <2>1. pairs' \in [DOMAIN pairs' -> Relations] /\ DOMAIN pairs' = PairsOf(Active')
    BY <1>1, <1>2 DEF Relations, Seen
  <2> QED BY <1>2, <1>3, <2>1 DEF EvidenceInv, TypeOK, Phases
<1>5. ProfileIsTrue'
  BY <1>2 DEF EvidenceInv, ProfileIsTrue
<1>6. PairsAreTrue'
  BY <1>1 DEF PairsAreTrue, Open
<1>7. RowsAreTrue' /\ MemoryIsTrue' /\ MemoryKeepsRows'
  BY <1>3 DEF RowsAreTrue, MemoryIsTrue, MemoryKeepsRows
<1>8. FilesAreBuilt' /\ ReasonsAreThose'
  BY <1>3 DEF FilesAreBuilt, ReasonsAreThose, Unbuilt, Open
<1> QED BY <1>4, <1>5, <1>6, <1>7, <1>8 DEF EvidenceInv

\* A test that succeeds, fails or times out writes the relation of its pair.
LEMMA PairStep ==
  ASSUME EvidenceInv, NEW e \in DOMAIN pairs, phase = "pairing", phase' = phase,
         NEW r \in {"failed", "timeout", Relation(e)},
         pairs' = [pairs EXCEPT ![e] = r],
         failures' \in 0 .. MaxFailures, failures' = 0 => failures = 0 /\ r = Relation(e),
         UNCHANGED <<world, profile, parts, truncated, rows, schedule, memory,
                     attempted, reasons>>
  PROVE  EvidenceInv'
<1>1. Active' = Active /\ Truth' = Truth
  BY DEF Active, Truth
<1>2. /\ DOMAIN rows = {} /\ DOMAIN memory = {} /\ attempted = {} /\ parts = {}
      /\ DOMAIN rows' = {} /\ DOMAIN memory' = {} /\ attempted' = {} /\ parts' = {}
  BY DEF EvidenceInv, FilesAreBuilt, Unbuilt, Open
<1>3. /\ DOMAIN pairs' = DOMAIN pairs /\ pairs'[e] = r
      /\ \A f \in DOMAIN pairs : f # e => pairs'[f] = pairs[f]
  OBVIOUS
<1>4. r \in Relations
  BY DEF Relation, Relations
<1>5. TypeOK'
  <2>1. pairs' \in [DOMAIN pairs' -> Relations] /\ DOMAIN pairs' = PairsOf(Active')
    BY <1>1, <1>3, <1>4 DEF EvidenceInv, TypeOK
  <2> QED BY <1>1, <1>2, <2>1 DEF EvidenceInv, TypeOK, Phases
<1>6. ProfileIsTrue'
  BY <1>1 DEF EvidenceInv, ProfileIsTrue
<1>7. PairsAreTrue'
  BY <1>1, <1>3 DEF EvidenceInv, PairsAreTrue, Relation, Open
<1>8. RowsAreTrue' /\ MemoryIsTrue' /\ MemoryKeepsRows'
  BY <1>2 DEF RowsAreTrue, MemoryIsTrue, MemoryKeepsRows
<1>9. FilesAreBuilt' /\ ReasonsAreThose'
  BY <1>2 DEF FilesAreBuilt, ReasonsAreThose, Unbuilt, Open
<1> QED BY <1>5, <1>6, <1>7, <1>8, <1>9 DEF EvidenceInv

LEMMA TestPairKeeps ==
  ASSUME EvidenceInv, NEW e \in DOMAIN pairs, TestPair(e) \/ TestFails(e)
  PROVE  EvidenceInv'
<1>1. failures \in 0 .. MaxFailures /\ MaxFailures \in Nat
  BY EvidenceAssumption DEF EvidenceInv, TypeOK
<1>2. CASE TestPair(e)
  BY <1>1, <1>2, PairStep DEF TestPair, files
<1>3. CASE TestFails(e)
  <2>1. PICK r \in {"failed", "timeout"} : pairs' = [pairs EXCEPT ![e] = r]
    BY <1>3 DEF TestFails
  <2>2. failures' \in 0 .. MaxFailures /\ failures' # 0
    BY <1>1, <1>3 DEF TestFails
  <2> QED BY <1>3, <2>1, <2>2, PairStep DEF TestFails, files
<1> QED BY <1>2, <1>3

LEMMA EndPairsKeeps == EvidenceInv /\ EndPairs => EvidenceInv'
<1> SUFFICES ASSUME EvidenceInv, EndPairs PROVE EvidenceInv'
  OBVIOUS
<1> USE DEF EndPairs, files
<1>1. Active' = Active /\ Truth' = Truth
  BY DEF Active, Truth
<1>2. /\ DOMAIN rows = {} /\ DOMAIN memory = {} /\ attempted = {} /\ parts = {}
      /\ DOMAIN rows' = {} /\ DOMAIN memory' = {} /\ attempted' = {} /\ parts' = {}
  BY DEF EvidenceInv, FilesAreBuilt, Unbuilt, Open
<1>3. TypeOK'
  BY <1>1 DEF EvidenceInv, TypeOK, Phases
<1>4. ProfileIsTrue' /\ PairsAreTrue'
  BY <1>1 DEF EvidenceInv, ProfileIsTrue, PairsAreTrue, Relation, Open
<1>5. RowsAreTrue' /\ MemoryIsTrue' /\ MemoryKeepsRows'
  BY <1>2 DEF RowsAreTrue, MemoryIsTrue, MemoryKeepsRows
<1>6. FilesAreBuilt' /\ ReasonsAreThose'
  BY <1>2 DEF FilesAreBuilt, ReasonsAreThose, Unbuilt, Open
<1> QED BY <1>3, <1>4, <1>5, <1>6 DEF EvidenceInv

LEMMA BuildBatchesKeeps == EvidenceInv /\ BuildBatches => EvidenceInv'
<1> SUFFICES ASSUME EvidenceInv, BuildBatches PROVE EvidenceInv'
  OBVIOUS
<1> USE DEF BuildBatches
<1>1. /\ Opt' = Opt /\ Truth' = Truth /\ Active' = Active
      /\ Conflicts' = Conflicts /\ Family' = Family
  BY Frame
<1>2. DOMAIN memory = {} /\ attempted = {} /\ DOMAIN rows' = Family
  BY DEF EvidenceInv, FilesAreBuilt, Unbuilt
<1>3. TypeOK'
  <2>1. rows' \in [DOMAIN rows' -> Statuses] /\ DOMAIN rows' \subseteq SUBSET (Active')
    BY <1>1, <1>2, FamilyOfActive DEF Statuses
  <2>2. parts' \subseteq SUBSET (Active') /\ truncated' \in BOOLEAN
    BY <1>1 DEF Components, Component, Truncated
  <2> QED BY <1>1, <1>2, <2>1, <2>2 DEF EvidenceInv, TypeOK, Phases
<1>4. ProfileIsTrue' /\ PairsAreTrue'
  <2>1. failures \in 0 .. MaxFailures
    BY DEF EvidenceInv, TypeOK
  <2> QED BY <2>1, PairsFrame DEF Open
<1>5. RowsAreTrue' /\ MemoryIsTrue' /\ MemoryKeepsRows'
  BY <1>2 DEF RowsAreTrue, MemoryIsTrue, MemoryKeepsRows, Earned
<1>6. FilesAreBuilt' /\ ReasonsAreThose'
  BY <1>1, <1>2 DEF FilesAreBuilt, ReasonsAreThose, Unbuilt, Open
<1> QED BY <1>3, <1>4, <1>5, <1>6 DEF EvidenceInv

-----------------------------------------------------------------------------
\* The steps of the validation change nothing that the files before it say.
LEMMA ValidationFrame ==
  ASSUME EvidenceInv, UNCHANGED <<world, profile, pairs, parts, truncated>>,
         phase \notin Unbuilt, phase' \notin Unbuilt, phase' # "reported",
         DOMAIN rows' = DOMAIN rows,
         failures' \in 0 .. MaxFailures, failures' = 0 => failures = 0
  PROVE  /\ ProfileIsTrue' /\ PairsAreTrue' /\ FilesAreBuilt' /\ ReasonsAreThose'
         /\ Truth' = Truth /\ Active' = Active /\ DOMAIN rows \subseteq SUBSET (Active')
         /\ pairs' \in [DOMAIN pairs' -> Relations] /\ DOMAIN pairs' = PairsOf(Active')
         /\ parts' \subseteq SUBSET (Active')
<1>1. /\ Opt' = Opt /\ Truth' = Truth /\ Active' = Active
      /\ Conflicts' = Conflicts /\ Family' = Family
  BY Frame
<1>2. ProfileIsTrue' /\ PairsAreTrue'
  BY PairsFrame DEF Unbuilt
<1>3. FilesAreBuilt' /\ ReasonsAreThose'
  BY <1>1 DEF EvidenceInv, FilesAreBuilt, ReasonsAreThose
<1>4. DOMAIN pairs = PairsOf(Active)
  BY DEF EvidenceInv, TypeOK, Unbuilt, Open
<1> QED BY <1>1, <1>2, <1>3, <1>4 DEF EvidenceInv, TypeOK

LEMMA CallKeeps ==
  ASSUME EvidenceInv, NEW ids \in SUBSET DOMAIN rows, phase = "scheduling", Call(ids),
         attempted' \subseteq DOMAIN rows,
         UNCHANGED <<world, profile, pairs, parts, truncated, rows, reasons, failures>>
  PROVE  EvidenceInv'
<1> USE DEF Call
<1>1. /\ ProfileIsTrue' /\ PairsAreTrue' /\ FilesAreBuilt' /\ ReasonsAreThose'
      /\ Truth' = Truth /\ Active' = Active /\ DOMAIN rows \subseteq SUBSET (Active')
      /\ pairs' \in [DOMAIN pairs' -> Relations] /\ DOMAIN pairs' = PairsOf(Active')
      /\ parts' \subseteq SUBSET (Active')
  BY ValidationFrame DEF EvidenceInv, TypeOK, Unbuilt, Open
<1>2. /\ DOMAIN memory' = DOMAIN rows /\ schedule' \subseteq DOMAIN rows
      /\ \A B \in DOMAIN rows : Attempted(rows[B]) => memory'[B] = rows[B]
      /\ \A B \in DOMAIN rows :
           memory'[B] = rows[B] \/ memory'[B] \in {"none", "not_selected"}
  OBVIOUS
<1>3. memory' \in [DOMAIN memory' -> Statuses]
  <2>1. memory' = [B \in DOMAIN memory' |-> memory'[B]]
    BY <1>2
  <2> QED BY <1>2, <2>1 DEF EvidenceInv, TypeOK, Statuses
<1>4. TypeOK'
  BY <1>1, <1>2, <1>3 DEF EvidenceInv, TypeOK, Phases
<1>5. RowsAreTrue' /\ MemoryIsTrue'
  BY <1>1, <1>2 DEF EvidenceInv, RowsAreTrue, MemoryIsTrue, Earned
<1>6. MemoryKeepsRows'
  BY <1>2 DEF MemoryKeepsRows
<1> QED BY <1>1, <1>4, <1>5, <1>6 DEF EvidenceInv

LEMMA SchedulingKeeps ==
  EvidenceInv /\ (ValidateAll \/ ValidateNext \/ ValidateNone) => EvidenceInv'
<1> SUFFICES ASSUME EvidenceInv, ValidateAll \/ ValidateNext \/ ValidateNone
             PROVE  EvidenceInv'
  OBVIOUS
<1>1. attempted \subseteq DOMAIN rows
  BY DEF EvidenceInv, TypeOK
<1>2. CASE ValidateAll
  BY <1>1, <1>2, CallKeeps DEF ValidateAll, files
<1>3. CASE ValidateNext
  <2>1. PICK B \in Remaining : attempted' = attempted \cup {B} /\ Call(attempted')
    BY <1>3 DEF ValidateNext
  <2>2. attempted' \subseteq DOMAIN rows
    BY <1>1, <2>1 DEF Remaining
  <2> QED BY <1>3, <2>1, <2>2, CallKeeps DEF ValidateNext, files
<1>4. CASE ValidateNone
  BY <1>1, <1>4, CallKeeps DEF ValidateNone, files
<1> QED BY <1>2, <1>3, <1>4

\* A candidate gets its row in memory; rows that were there before are not open.
LEMMA RowStep ==
  ASSUME EvidenceInv, NEW B \in DOMAIN memory, phase = "validating", phase' = phase,
         memory[B] = "none", NEW s \in Statuses, Earned(B, s),
         memory' = [memory EXCEPT ![B] = s],
         failures' \in 0 .. MaxFailures, failures' = 0 => failures = 0,
         UNCHANGED <<world, profile, pairs, parts, truncated, rows, schedule,
                     attempted, reasons>>
  PROVE  EvidenceInv'
<1>1. /\ ProfileIsTrue' /\ PairsAreTrue' /\ FilesAreBuilt' /\ ReasonsAreThose'
      /\ Truth' = Truth /\ Active' = Active /\ DOMAIN rows \subseteq SUBSET (Active')
      /\ pairs' \in [DOMAIN pairs' -> Relations] /\ DOMAIN pairs' = PairsOf(Active')
      /\ parts' \subseteq SUBSET (Active')
  BY ValidationFrame DEF Unbuilt, Open
<1>2. /\ DOMAIN memory' = DOMAIN memory /\ memory'[B] = s
      /\ \A D \in DOMAIN memory : D # B => memory'[D] = memory[D]
  OBVIOUS
<1>3. TypeOK'
  <2>1. memory' \in [DOMAIN memory' -> Statuses]
    BY DEF EvidenceInv, TypeOK
  <2> QED BY <1>1, <1>2, <2>1 DEF EvidenceInv, TypeOK
<1>4. RowsAreTrue' /\ MemoryIsTrue'
  BY <1>1, <1>2 DEF EvidenceInv, RowsAreTrue, MemoryIsTrue, Earned
<1>5. MemoryKeepsRows'
  BY <1>2 DEF EvidenceInv, MemoryKeepsRows, Attempted
<1> QED BY <1>1, <1>3, <1>4, <1>5 DEF EvidenceInv

LEMMA ValidateKeeps ==
  ASSUME EvidenceInv, NEW B \in DOMAIN memory, Validate(B) \/ ValidationFallsShort(B)
  PROVE  EvidenceInv'
<1>1. failures \in 0 .. MaxFailures /\ MaxFailures \in Nat
  BY EvidenceAssumption DEF EvidenceInv, TypeOK
<1>2. CASE Validate(B)
  <2>1. Verdict(B) \in Statuses /\ Earned(B, Verdict(B))
    BY DEF Verdict, Statuses, Earned
  <2> QED BY <1>1, <1>2, <2>1, RowStep DEF Validate, files
<1>3. CASE ValidationFallsShort(B)
  <2>1. PICK s \in Broken : memory' = [memory EXCEPT ![B] = s]
    BY <1>3 DEF ValidationFallsShort
  <2>2. s \in Statuses /\ Earned(B, s)
    BY DEF Broken, Statuses, Earned
  <2>3. failures' \in 0 .. MaxFailures /\ failures' # 0
    BY <1>1, <1>3 DEF ValidationFallsShort
  <2> QED BY <1>3, <2>1, <2>2, <2>3, RowStep DEF ValidationFallsShort, files
<1> QED BY <1>2, <1>3

LEMMA RaisesKeeps == EvidenceInv /\ ValidationRaises => EvidenceInv'
<1> SUFFICES ASSUME EvidenceInv, ValidationRaises PROVE EvidenceInv'
  OBVIOUS
<1> USE DEF ValidationRaises, files
<1>1. failures' \in 0 .. MaxFailures /\ failures' # 0
  BY EvidenceAssumption DEF EvidenceInv, TypeOK
<1>2. /\ ProfileIsTrue' /\ PairsAreTrue' /\ FilesAreBuilt' /\ ReasonsAreThose'
      /\ Truth' = Truth /\ Active' = Active /\ DOMAIN rows \subseteq SUBSET (Active')
      /\ pairs' \in [DOMAIN pairs' -> Relations] /\ DOMAIN pairs' = PairsOf(Active')
      /\ parts' \subseteq SUBSET (Active')
  BY <1>1, ValidationFrame DEF Unbuilt, Open
<1>3. TypeOK'
  BY <1>1, <1>2 DEF EvidenceInv, TypeOK, Phases
<1>4. RowsAreTrue' /\ MemoryIsTrue' /\ MemoryKeepsRows'
  BY <1>2 DEF EvidenceInv, RowsAreTrue, MemoryIsTrue, MemoryKeepsRows, Earned
<1> QED BY <1>2, <1>3, <1>4 DEF EvidenceInv

LEMMA WriteRowsKeeps == EvidenceInv /\ WriteRows => EvidenceInv'
<1> SUFFICES ASSUME EvidenceInv, WriteRows PROVE EvidenceInv'
  OBVIOUS
<1> USE DEF WriteRows, files
<1>1. DOMAIN rows' = DOMAIN rows /\ phase' \in {"scheduling", "classifying"}
  BY DEF EvidenceInv, MemoryKeepsRows
<1>2. /\ ProfileIsTrue' /\ PairsAreTrue' /\ FilesAreBuilt' /\ ReasonsAreThose'
      /\ Truth' = Truth /\ Active' = Active /\ DOMAIN rows \subseteq SUBSET (Active')
      /\ pairs' \in [DOMAIN pairs' -> Relations] /\ DOMAIN pairs' = PairsOf(Active')
      /\ parts' \subseteq SUBSET (Active')
  BY <1>1, ValidationFrame DEF EvidenceInv, TypeOK, Unbuilt, Open
<1>3. TypeOK'
  BY <1>1, <1>2 DEF EvidenceInv, TypeOK, Phases
<1>4. RowsAreTrue' /\ MemoryIsTrue'
  BY <1>2 DEF EvidenceInv, RowsAreTrue, MemoryIsTrue, Earned
<1>5. MemoryKeepsRows'
  BY <1>1 DEF MemoryKeepsRows
<1> QED BY <1>2, <1>3, <1>4, <1>5 DEF EvidenceInv

LEMMA ReportKeeps == EvidenceInv /\ Report => EvidenceInv'
<1> SUFFICES ASSUME EvidenceInv, Report PROVE EvidenceInv'
  OBVIOUS
<1> USE DEF Report, files
<1>1. /\ Opt' = Opt /\ Truth' = Truth /\ Active' = Active /\ Seen' = Seen
      /\ Conflicts' = Conflicts /\ Family' = Family
  BY Frame
<1>2. Applies' = Applies
  BY <1>1 DEF Applies, Coverage
<1>3. ReasonsAreThose'
  BY <1>2 DEF ReasonsAreThose
<1>4. ProfileIsTrue' /\ PairsAreTrue'
  BY PairsFrame DEF EvidenceInv, TypeOK, Open
<1>5. FilesAreBuilt'
  BY <1>1 DEF EvidenceInv, FilesAreBuilt, Unbuilt, Open
<1>6. TypeOK'
  BY <1>1 DEF EvidenceInv, TypeOK, Phases
<1>7. RowsAreTrue' /\ MemoryIsTrue' /\ MemoryKeepsRows'
  BY <1>1 DEF EvidenceInv, RowsAreTrue, MemoryIsTrue, MemoryKeepsRows, Earned
<1> QED BY <1>3, <1>4, <1>5, <1>6, <1>7 DEF EvidenceInv

-----------------------------------------------------------------------------
\* Every step of the specification, and a step that changes nothing.
LEMMA NextKeeps == EvidenceInv /\ [Next]_vars => EvidenceInv'
<1> SUFFICES ASSUME EvidenceInv, [Next]_vars PROVE EvidenceInv'
  OBVIOUS
<1>1. CASE ProfilePasses
  BY <1>1, ProfilePassesKeeps
<1>2. CASE SchedulePairs
  BY <1>2, SchedulePairsKeeps
<1>3. CASE EndPairs
  BY <1>3, EndPairsKeeps
<1>4. CASE BuildBatches
  BY <1>4, BuildBatchesKeeps
<1>5. CASE Report
  BY <1>5, ReportKeeps
<1>6. CASE ValidationStep
  <2>1. CASE ValidateAll \/ ValidateNext \/ ValidateNone
    BY <2>1, SchedulingKeeps
  <2>2. CASE ValidationRaises
    BY <2>2, RaisesKeeps
  <2>3. CASE WriteRows
    BY <2>3, WriteRowsKeeps
  <2>4. CASE \E B \in DOMAIN memory : Validate(B) \/ ValidationFallsShort(B)
    BY <2>4, ValidateKeeps
  <2> QED BY <1>6, <2>1, <2>2, <2>3, <2>4 DEF ValidationStep
<1>7. CASE \E e \in DOMAIN pairs : TestPair(e) \/ TestFails(e)
  BY <1>7, TestPairKeeps
<1>8. CASE UNCHANGED vars
  <2>1. /\ Opt' = Opt /\ Truth' = Truth /\ Active' = Active /\ Seen' = Seen
        /\ Conflicts' = Conflicts /\ Family' = Family
    BY <1>8, Frame DEF vars, files
  <2>2. Applies' = Applies
    BY <1>8, <2>1 DEF Applies, Coverage, vars, files
  <2>3. TypeOK' /\ ProfileIsTrue' /\ PairsAreTrue'
    BY <1>8, <2>1 DEF EvidenceInv, TypeOK, ProfileIsTrue, PairsAreTrue, Relation, vars, files
  <2>4. RowsAreTrue' /\ MemoryIsTrue' /\ MemoryKeepsRows'
    BY <1>8, <2>1
       DEF EvidenceInv, RowsAreTrue, MemoryIsTrue, MemoryKeepsRows, Earned, vars, files
  <2>5. FilesAreBuilt' /\ ReasonsAreThose'
    BY <1>8, <2>1, <2>2 DEF EvidenceInv, FilesAreBuilt, ReasonsAreThose, vars, files
  <2> QED BY <2>3, <2>4, <2>5 DEF EvidenceInv
<1> QED BY <1>1, <1>2, <1>3, <1>4, <1>5, <1>6, <1>7, <1>8 DEF Next, AnalyzeState

\* What the files say of passes, pairs and rows is so at every moment.
THEOREM EvidenceInvariantHolds == Spec => []EvidenceInv
<1>1. Init => EvidenceInv
  BY InitIsTrue
<1>2. EvidenceInv /\ [Next]_vars => EvidenceInv'
  BY NextKeeps
<1> QED BY <1>1, <1>2, PTL DEF Spec

\* The files hold values of their kinds about active passes only.
THEOREM EvidenceTypeCorrect == Spec => []TypeOK
<1>1. EvidenceInv => TypeOK
  BY DEF EvidenceInv
<1> QED BY <1>1, EvidenceInvariantHolds, PTL

-----------------------------------------------------------------------------
\* Once batches are built, a pair in no conflict was tested and found to commute.
LEMMA NoConflictCommutes ==
  ASSUME EvidenceInv, phase \notin Open,
         NEW a \in Active, NEW b \in Active, a # b, {a, b} \notin Conflicts
  PROVE  {a, b} \notin Truth.sensitive
<1>1. {a, b} \in Seen
  BY DEF Seen, PairsOf
<1>2. {a, b} \in DOMAIN pairs /\ pairs[{a, b}] = "commute"
  BY <1>1 DEF EvidenceInv, TypeOK, Conflicts, Seen, Open
<1> QED BY <1>2 DEF EvidenceInv, PairsAreTrue

\* The passes of every batch commute, whichever runs failed or were left out.
LEMMA InvMakesBatchesCommute == EvidenceInv => BatchesCommute
<1> SUFFICES ASSUME EvidenceInv, NEW B \in DOMAIN rows,
                    NEW a \in B, NEW b \in B, a # b
             PROVE  {a, b} \notin Truth.sensitive
  BY DEF BatchesCommute, Independent
<1>1. phase \notin Unbuilt /\ B \in Family
  BY DEF EvidenceInv, FilesAreBuilt
<1>2. B \in SUBSET Active /\ Independent(Conflicts, B)
  BY <1>1, FamilyFacts, FamilyIsIndependent
<1>3. {a, b} \notin Conflicts
  BY <1>2 DEF Independent
<1> QED BY <1>1, <1>2, <1>3, NoConflictCommutes DEF Unbuilt

(***************************************************************************)
(* No batch ever holds two passes that LLVM does not let commute, also     *)
(* when tests fail, time out or are left out for a budget.                 *)
(***************************************************************************)
THEOREM BatchesAlwaysCommute == Spec => []BatchesCommute
BY InvMakesBatchesCommute, EvidenceInvariantHolds, PTL

\* Where nothing failed and no pair was left out, conflicts are what LLVM makes them.
LEMMA ConflictsAreReal ==
  ASSUME EvidenceInv, phase \notin Unbuilt, failures = 0,
         \A e \in Seen : pairs[e] # "not_tested"
  PROVE  \A S \in SUBSET Active :
           Independent(Conflicts, S) <=> Independent(Truth.sensitive, S)
<1>1. ASSUME NEW a \in Active, NEW b \in Active, a # b
      PROVE  {a, b} \in Conflicts <=> {a, b} \in Truth.sensitive
  <2>1. {a, b} \in Seen
    BY <1>1 DEF Seen, PairsOf
  <2>2. {a, b} \in DOMAIN pairs
    BY <2>1 DEF EvidenceInv, TypeOK, Seen, Unbuilt, Open
  <2>3. pairs[{a, b}] = Relation({a, b})
    BY <2>1, <2>2 DEF EvidenceInv, PairsAreTrue, Unbuilt
  <2> QED BY <2>1, <2>3 DEF Conflicts, Relation
<1> QED BY <1>1 DEF Independent

\* A state without a reason for being incomplete has all its batches, decided.
LEMMA InvMakesCompleteMeanAll == EvidenceInv => CompleteMeansAll
<1> SUFFICES ASSUME EvidenceInv, Complete
             PROVE  /\ DOMAIN rows = MaximalIndependentSets(Conflicts, Active)
                    /\ \A B \in DOMAIN rows : rows[B] = Verdict(B)
                    /\ failures = 0 =>
                         DOMAIN rows = MaximalIndependentSets(Truth.sensitive, Truth.active)
  BY DEF CompleteMeansAll
<1>1. phase = "reported" /\ phase \notin Unbuilt /\ phase \notin Open
  BY DEF Complete, Unbuilt, Open
<1>2. \A r \in DOMAIN Applies : ~Applies[r]
  BY <1>1 DEF EvidenceInv, ReasonsAreThose, Complete
<1>3. /\ ~Applies.lazy_budget /\ ~Applies.max_pairs /\ ~Applies.truncated
      /\ ~Applies.unresolved_components /\ ~Applies.non_certified
  BY <1>2 DEF Applies
<1>4. DOMAIN rows = BatchFamily(Active, Conflicts, Opt.componentSize)
  <2>1. ~Truncated(Active, Conflicts, Opt.componentSize, Opt.maxBatches)
    BY <1>1, <1>3 DEF Applies, EvidenceInv, FilesAreBuilt
  <2>2. DOMAIN rows = Family
    BY <1>1 DEF EvidenceInv, FilesAreBuilt
  <2> QED BY <2>1, <2>2, FamilyFacts DEF Truncated, Family
<1>5. DOMAIN rows = MaximalIndependentSets(Conflicts, Active)
  <2>1. \A C \in Components(Active, Conflicts) : Resolved(C, Opt.componentSize)
    BY <1>1, <1>3 DEF Applies, EvidenceInv, FilesAreBuilt
  <2> QED BY <1>4, <2>1, FamilyIsMaximal
<1>6. \A B \in DOMAIN rows : rows[B] = Verdict(B)
  BY <1>3 DEF Applies, EvidenceInv, RowsAreTrue, Earned, Verdict
<1>7. ASSUME failures = 0
      PROVE  DOMAIN rows = MaximalIndependentSets(Truth.sensitive, Truth.active)
  <2>1. Active = Truth.active
    <3>1. Truth.active \subseteq Passes
      BY EvidenceAssumption DEF EvidenceInv, TypeOK, Truth, World
    <3> QED BY <1>1, <1>7, <3>1 DEF EvidenceInv, ProfileIsTrue, Active
  <2>2. \A e \in Seen : pairs[e] # "not_tested"
    <3>1. Opt.lazy \in BOOLEAN
      BY EvidenceAssumption DEF EvidenceInv, TypeOK, Opt, OptionRecord
    <3> QED BY <1>3, <3>1 DEF Applies
  <2>3. \A S \in SUBSET Active :
          Independent(Conflicts, S) <=> Independent(Truth.sensitive, S)
    BY <1>1, <1>7, <2>2, ConflictsAreReal
  <2> QED BY <1>5, <2>1, <2>3 DEF MaximalIndependentSets
<1> QED BY <1>5, <1>6, <1>7

(***************************************************************************)
(* A state that is reported complete misses no largest set of passes that  *)
(* do not conflict, and if no tool failed none of those that commute.      *)
(***************************************************************************)
THEOREM CompleteStatesHaveAll == Spec => []CompleteMeansAll
BY InvMakesCompleteMeanAll, EvidenceInvariantHolds, PTL

-----------------------------------------------------------------------------
\* A step may write a row or a relation that is open, and none that is not.
LEMMA StepKeepsEvidence ==
  ASSUME EvidenceInv, [Next]_vars
  PROVE  /\ \A B \in DOMAIN rows : Attempted(rows[B]) =>
              B \in DOMAIN rows' /\ rows'[B] = rows[B]
         /\ \A e \in DOMAIN pairs : pairs[e] # "none" =>
              e \in DOMAIN pairs' /\ pairs'[e] = pairs[e]
<1>1. CASE ProfilePasses
  BY <1>1 DEF ProfilePasses
<1>2. CASE SchedulePairs
  <2>1. DOMAIN pairs = {}
    BY <1>2 DEF SchedulePairs, EvidenceInv, TypeOK
  <2> QED BY <1>2, <2>1 DEF SchedulePairs
<1>3. CASE EndPairs \/ Report
  BY <1>3 DEF EndPairs, Report
<1>4. CASE BuildBatches
  <2>1. DOMAIN rows = {}
    BY <1>4 DEF BuildBatches, EvidenceInv, FilesAreBuilt, Unbuilt
  <2> QED BY <1>4, <2>1 DEF BuildBatches
<1>5. CASE ValidationStep
  <2>1. pairs' = pairs
    BY <1>5 DEF ValidationStep, ValidateAll, ValidateNext, ValidateNone, ValidationRaises,
                WriteRows, Validate, ValidationFallsShort
  <2>2. CASE WriteRows
    BY <2>1, <2>2 DEF WriteRows, EvidenceInv, MemoryKeepsRows
  <2>3. CASE ~WriteRows
    BY <1>5, <2>1, <2>3 DEF ValidationStep, ValidateAll, ValidateNext, ValidateNone,
                            ValidationRaises, Validate, ValidationFallsShort
  <2> QED BY <2>2, <2>3
<1>6. CASE \E e \in DOMAIN pairs : TestPair(e) \/ TestFails(e)
  BY <1>6 DEF TestPair, TestFails
<1>7. CASE UNCHANGED vars
  BY <1>7 DEF vars, files
<1> QED BY <1>1, <1>2, <1>3, <1>4, <1>5, <1>6, <1>7 DEF Next, AnalyzeState

\* A later on-demand call keeps the rows of earlier ones; a pair is tested once.
THEOREM EvidenceStays == Spec => EvidenceIsKept
<1>1. EvidenceInv /\ [Next]_vars =>
        [/\ \A B \in DOMAIN rows : Attempted(rows[B]) =>
              B \in DOMAIN rows' /\ rows'[B] = rows[B]
         /\ \A e \in DOMAIN pairs : pairs[e] # "none" =>
              e \in DOMAIN pairs' /\ pairs'[e] = pairs[e]]_vars
  BY StepKeepsEvidence
<1> QED BY <1>1, EvidenceInvariantHolds, PTL DEF Spec, EvidenceIsKept

-----------------------------------------------------------------------------
\* Every set of numbers that is not empty has a least member.
LEMMA LeastExists ==
  ASSUME NEW S \in SUBSET Nat, S # {}
  PROVE  \E x \in S : \A y \in S : x <= y
<1>1. PICK x \in S : \A y \in S : ~ (<<y, x>> \in OpToRel(<, Nat))
  BY NatLessThanWellFounded, WFMin
<1>2. ASSUME NEW y \in S
      PROVE  x <= y
  <2>1. ~ (y < x)
    BY <1>1 DEF OpToRel
  <2> QED BY <2>1
<1> QED BY <1>2

\* Conflicts go both ways, so a component that is entered is entered whole.
LEMMA ComponentsApart ==
  ASSUME NEW A, NEW E, NEW C \in Components(A, E), NEW D \in Components(A, E), C \cap D # {}
  PROVE  C = D
<1>1. PICK p \in A : C = Component(A, E, p)
  BY DEF Components
<1>2. PICK q \in A : D = Component(A, E, q)
  BY DEF Components
<1>3. /\ C \subseteq A /\ p \in C /\ Closed(A, E, C)
      /\ D \subseteq A /\ q \in D /\ Closed(A, E, D)
  BY <1>1, <1>2, ComponentIsClosed
<1>4. ASSUME NEW S \in SUBSET A, Closed(A, E, S)
      PROVE  Closed(A, E, A \ S)
  <2> SUFFICES ASSUME NEW a \in A \ S, NEW b \in A, a # b, {a, b} \in E, b \in S
               PROVE  FALSE
    BY DEF Closed
  <2>1. {b, a} = {a, b}
    OBVIOUS
  <2> QED BY <1>4, <2>1 DEF Closed
<1>5. q \in C
  <2> SUFFICES ASSUME q \notin C PROVE FALSE
    OBVIOUS
  <2>1. Closed(A, E, A \ C) /\ q \in A \ C
    BY <1>3, <1>4
  <2>2. D \subseteq A \ C
    BY <1>2, <2>1 DEF Component
  <2> QED BY <2>2
<1>6. p \in D
  <2> SUFFICES ASSUME p \notin D PROVE FALSE
    OBVIOUS
  <2>1. Closed(A, E, A \ D) /\ p \in A \ D
    BY <1>3, <1>4
  <2>2. C \subseteq A \ D
    BY <1>1, <2>1 DEF Component
  <2> QED BY <2>2
<1>7. D \subseteq C /\ C \subseteq D
  BY <1>1, <1>2, <1>3, <1>5, <1>6 DEF Component
<1> QED BY <1>7

\* Every pass of a finite component is in one of its largest sets.
LEMMA LargestSetWith ==
  ASSUME NEW C, IsFiniteSet(C), NEW E, NEW q \in C
  PROVE  \E S \in MaximalIndependentSets(E, C) : q \in S
<1> DEFINE Sets == {S \in SUBSET C : q \in S /\ Independent(E, S)}
           Rest == {Cardinality(C) - Cardinality(S) : S \in Sets}
<1>1. \A S \in SUBSET C : /\ IsFiniteSet(S) /\ Cardinality(S) \in Nat
                          /\ Cardinality(S) <= Cardinality(C) /\ Cardinality(C) \in Nat
  BY FS_Subset, FS_CardinalityType
<1>2. Rest \in SUBSET Nat
  BY <1>1
<1>3. {q} \in Sets
  BY DEF Independent
<1>4. PICK S \in Sets : \A T \in Sets :
        Cardinality(C) - Cardinality(S) <= Cardinality(C) - Cardinality(T)
  <2>1. Rest # {}
    BY <1>3
  <2>2. PICK x \in Rest : \A y \in Rest : x <= y
    <3> HIDE DEF Rest
    <3> QED BY <1>2, <2>1, LeastExists
  <2> QED BY <2>2
<1>5. ASSUME NEW T \in SUBSET C, S \subseteq T, Independent(E, T)
      PROVE  S = T
  <2>1. T \in Sets
    BY <1>5
  <2>2. Cardinality(T) <= Cardinality(S)
    BY <1>1, <1>4, <2>1
  <2>3. Cardinality(S) <= Cardinality(T) /\ IsFiniteSet(T) /\ S \in SUBSET T
    BY <1>1, <1>5, FS_Subset
  <2>4. Cardinality(S) = Cardinality(T)
    BY <1>1, <2>2, <2>3
  <2> QED BY <2>3, <2>4, FS_Subset
<1>6. S \in MaximalIndependentSets(E, C)
  BY <1>5 DEF MaximalIndependentSets
<1> QED BY <1>6

\* No pass is lost by the construction: each is in a batch, unless batches are cut off.
LEMMA FamilyCovers ==
  ASSUME NEW A, IsFiniteSet(A), NEW E, NEW maxSize, NEW p \in A
  PROVE  \E B \in BatchFamily(A, E, maxSize) : p \in B
<1>1. ASSUME NEW C \in Components(A, E), NEW q \in C
      PROVE  \E S \in Alternatives(E, C, maxSize) : q \in S /\ S \subseteq C
  <2>1. C \subseteq A
    BY ComponentIsClosed DEF Components
  <2>2. IsFiniteSet(C)
    BY <2>1, FS_Subset
  <2>3. \E S \in MaximalIndependentSets(E, C) : q \in S /\ S \subseteq C
    BY <2>2, LargestSetWith DEF MaximalIndependentSets
  <2>4. {q} \in {{r} : r \in C} /\ q \in {q} /\ {q} \subseteq C
    OBVIOUS
  <2>5. \/ Alternatives(E, C, maxSize) = MaximalIndependentSets(E, C)
        \/ Alternatives(E, C, maxSize) = {{r} : r \in C}
    BY DEF Alternatives
  <2> QED BY <2>3, <2>4, <2>5
<1>2. ASSUME NEW C \in Components(A, E)
      PROVE  /\ C \subseteq A
             /\ \E S \in Alternatives(E, C, maxSize) : S \subseteq C /\ (p \in C => p \in S)
  <2>1. C \subseteq A /\ C # {}
    BY ComponentIsClosed DEF Components
  <2>2. PICK q \in C : p \in C => q = p
    BY <2>1
  <2> QED BY <1>1, <2>1, <2>2
<1> DEFINE Chosen(C) == CHOOSE S \in Alternatives(E, C, maxSize) :
                          S \subseteq C /\ (p \in C => p \in S)
           B == UNION {Chosen(C) : C \in Components(A, E)}
<1>3. ASSUME NEW C \in Components(A, E)
      PROVE  /\ Chosen(C) \in Alternatives(E, C, maxSize) /\ Chosen(C) \subseteq C
             /\ p \in C => p \in Chosen(C)
  BY <1>2
<1> HIDE DEF Chosen
<1>4. \A C \in Components(A, E) : B \cap C = Chosen(C)
  <2> TAKE C \in Components(A, E)
  <2>1. Chosen(C) \subseteq B \cap C
    BY <1>3
  <2>2. ASSUME NEW x \in B \cap C PROVE x \in Chosen(C)
    <3>1. PICK D \in Components(A, E) : x \in Chosen(D)
      OBVIOUS
    <3>2. C \cap D # {}
      BY <1>3, <3>1
    <3>3. C = D
      BY <3>2, ComponentsApart
    <3> QED BY <3>1, <3>3
  <2> QED BY <2>1, <2>2
<1>5. B \in SUBSET A
  BY <1>2, <1>3
<1>6. p \in B
  <2>1. PICK C \in Components(A, E) : p \in C
    BY ComponentsCover
  <2> QED BY <1>3, <2>1
<1> HIDE DEF B
<1>7. B \in BatchFamily(A, E, maxSize)
  BY <1>3, <1>4, <1>5 DEF BatchFamily
<1> QED BY <1>6, <1>7

-----------------------------------------------------------------------------
\* No active pass is missing from the report, whatever was cut off or failed.
LEMMA InvMakesNoPassDropped == EvidenceInv => NoPassIsDropped
<1> SUFFICES ASSUME EvidenceInv, phase = "reported", NEW p \in Active
             PROVE  /\ Coverage(p) # "dropped"
                    /\ "truncated" \notin reasons => \E B \in DOMAIN rows : p \in B
                    /\ Complete => Coverage(p) \in {"certified_covered", "validation_rejected"}
  BY DEF NoPassIsDropped
<1>1. /\ parts = Components(Active, Conflicts) /\ DOMAIN rows = Family
      /\ truncated = Truncated(Active, Conflicts, Opt.componentSize, Opt.maxBatches)
      /\ reasons = {r \in DOMAIN Applies : Applies[r]}
  BY DEF EvidenceInv, FilesAreBuilt, ReasonsAreThose, Unbuilt, Open
<1>2. \E C \in parts : p \in C
  BY <1>1, ComponentsCover
<1>3. Coverage(p) # "dropped"
  BY <1>2 DEF Coverage
<1>4. IsFiniteSet(Active)
  BY EvidenceAssumption, FS_Subset, Active \in SUBSET Passes DEF Active
<1>5. PICK B \in BatchFamily(Active, Conflicts, Opt.componentSize) : p \in B
  BY <1>4, FamilyCovers
<1>6. "truncated" \notin reasons => B \in DOMAIN rows
  <2>1. "truncated" \in DOMAIN Applies /\ Applies["truncated"] = truncated
    BY DEF Applies
  <2> QED BY <1>1, <2>1 DEF Truncated, Family
<1>7. ASSUME Complete
      PROVE  Coverage(p) \in {"certified_covered", "validation_rejected"}
  <2>1. \A r \in DOMAIN Applies : ~Applies[r]
    BY <1>1, <1>7 DEF Complete
  <2>2. ~Applies.truncated /\ ~Applies.unresolved_components /\ ~Applies.non_certified
    BY <2>1 DEF Applies
  <2>3. /\ \A C \in parts : Resolved(C, Opt.componentSize)
        /\ \A D \in DOMAIN rows : rows[D] \in {"all_permutations_same", "mismatch"}
    BY <2>2 DEF Applies
  <2>4. B \in DOMAIN rows
    BY <1>6, <1>7 DEF Complete
  <2> DEFINE covering == {rows[D] : D \in {F \in DOMAIN rows : p \in F}}
  <2>5. covering \subseteq {"all_permutations_same", "mismatch"} /\ covering # {}
    BY <1>5, <2>3, <2>4
  <2>6. CASE "all_permutations_same" \in covering
    BY <2>6 DEF Coverage
  <2>7. CASE "all_permutations_same" \notin covering
    <3>1. covering = {"mismatch"}
      BY <2>5, <2>7
    <3>2. /\ covering \cap {"bounded_same", "sampled_same"} = {}
          /\ covering # {} /\ covering \subseteq {"mismatch", "failed"}
      BY <3>1
    <3> QED BY <2>3, <2>7, <3>2 DEF Coverage
  <2> QED BY <2>6, <2>7
<1> QED BY <1>3, <1>5, <1>6, <1>7

-----------------------------------------------------------------------------
(***************************************************************************)
(* On-demand validation.  Before a call there is room below the target; a  *)
(* call validates one candidate, the largest that is left.                 *)
(***************************************************************************)
ExecutableIn(m) == {B \in DOMAIN m : Executable(m[B])}

LargestFirst == \A B \in attempted, D \in Remaining : Cardinality(D) <= Cardinality(B)

\* There is room for one more batch, and the attempted ones have their rows.
RoomIsLeft ==
  phase = "scheduling" =>
    /\ \A B \in attempted : Attempted(rows[B])
    /\ IF Opt.target = 0 THEN attempted = {} /\ Executables = {}
       ELSE Cardinality(Executables) < Opt.target

CallOfOne ==
  phase = "validating" =>
    /\ \A B \in DOMAIN memory : memory[B] = "none" => B \in schedule
    /\ \A B \in attempted : Attempted(memory[B]) \/ (B \in schedule /\ memory[B] = "none")
    /\ \/ /\ Opt.target > 0 /\ Cardinality(Executables) < Opt.target
          /\ \E B \in attempted :
                schedule \subseteq {B} /\ ExecutableIn(memory) \subseteq Executables \cup {B}
       \/ /\ schedule = {} /\ attempted = {} /\ ExecutableIn(memory) = {}
          /\ Opt.target = 0 \/ DOMAIN rows = {}

TargetIsMet ==
  phase \in {"classifying", "reported"} =>
    /\ Cardinality(Executables) <= Opt.target
    /\ Remaining = {} \/ Cardinality(Executables) = Opt.target

Greedy ==
  Opt.strategy = "on-demand" => LargestFirst /\ RoomIsLeft /\ CallOfOne /\ TargetIsMet

LEMMA OptionFacts ==
  ASSUME EvidenceInv
  PROVE  /\ Opt.target \in Nat
         /\ ~ Executable("none") /\ ~ Executable("not_selected")
         /\ IsFiniteSet(DOMAIN rows)
         /\ \A S \in SUBSET DOMAIN rows : IsFiniteSet(S) /\ Cardinality(S) \in Nat
<1>1. Opt \in OptionRecord
  BY EvidenceAssumption DEF EvidenceInv, TypeOK, Opt
<1>2. Opt.target \in Nat /\ ~ Executable("none") /\ ~ Executable("not_selected")
  BY <1>1 DEF OptionRecord, Executable
<1>3. IsFiniteSet(SUBSET Active)
  BY EvidenceAssumption, FS_Subset, FS_SUBSET, Active \in SUBSET Passes DEF Active
<1>4. DOMAIN rows \in SUBSET SUBSET Active
  BY DEF EvidenceInv, TypeOK
<1>5. IsFiniteSet(DOMAIN rows)
  BY <1>3, <1>4, FS_Subset
<1> QED BY <1>2, <1>5, FS_Subset, FS_CardinalityType

LEMMA GreedyInit == Init => Greedy
BY DEF Init, Greedy, LargestFirst, RoomIsLeft, CallOfOne, TargetIsMet

\* The step that chooses the next candidate.
LEMMA NextKeepsGreedy == EvidenceInv /\ Greedy /\ ValidateNext => Greedy'
<1> SUFFICES ASSUME EvidenceInv, Greedy, ValidateNext PROVE Greedy'
  OBVIOUS
<1>1. /\ UNCHANGED <<world, files, profile, pairs, rows, reasons, failures>>
      /\ phase = "scheduling" /\ Opt.strategy = "on-demand" /\ Opt.target > 0
      /\ phase' = "validating"
  BY DEF ValidateNext, Call
<1>2. PICK B \in Remaining :
        /\ \A D \in Remaining : Cardinality(D) <= Cardinality(B)
        /\ attempted' = attempted \cup {B}
        /\ schedule' = {D \in attempted' : ~Attempted(rows[D])}
        /\ memory' = [D \in DOMAIN rows |->
                        IF D \in schedule' THEN "none"
                        ELSE IF Attempted(rows[D]) THEN rows[D] ELSE "not_selected"]
  BY DEF ValidateNext, Call, IsNext
<1>3. /\ LargestFirst
      /\ \A D \in attempted : Attempted(rows[D])
      /\ Cardinality(Executables) < Opt.target
  BY <1>1 DEF Greedy, RoomIsLeft
<1>4. /\ Opt' = Opt /\ Remaining' = Remaining \ {B} /\ Executables' = Executables
      /\ \A s : Executable(s)' = Executable(s)
  BY <1>1, <1>2, Frame DEF Remaining, Executables, Executable
<1>5. B \in DOMAIN rows /\ attempted \subseteq DOMAIN rows
  BY DEF Remaining, EvidenceInv, TypeOK
<1>6. schedule' \subseteq {B}
  BY <1>2, <1>3
<1>7. ExecutableIn(memory)' \subseteq Executables \cup {B}
  <2>1. ASSUME NEW D \in DOMAIN memory', Executable(memory'[D]), D # B
        PROVE  D \in Executables
    <3>1. D \in DOMAIN rows /\ D \notin schedule'
      BY <1>2, <1>6, <2>1
    <3>2. Attempted(rows[D]) /\ memory'[D] = rows[D]
      BY <1>2, <2>1, <3>1, OptionFacts
    <3> QED BY <2>1, <3>1, <3>2 DEF Executables
  <2> QED BY <1>4, <2>1 DEF ExecutableIn
<1>8. LargestFirst'
  BY <1>2, <1>3, <1>4 DEF LargestFirst
<1>9. CallOfOne'
  <2>1. \A D \in DOMAIN memory' : memory'[D] = "none" => D \in schedule'
    BY <1>2 DEF Attempted
  <2>2. \A D \in attempted' : Attempted(memory'[D]) \/ (D \in schedule' /\ memory'[D] = "none")
    BY <1>2, <1>5
  <2>3. B \in attempted'
    BY <1>2
  <2> QED BY <1>1, <1>3, <1>4, <1>6, <1>7, <2>1, <2>2, <2>3 DEF CallOfOne
<1> QED BY <1>1, <1>8, <1>9 DEF Greedy, RoomIsLeft, TargetIsMet

LEMMA NoneKeepsGreedy == EvidenceInv /\ Greedy /\ ValidateNone => Greedy'
<1> SUFFICES ASSUME EvidenceInv, Greedy, ValidateNone PROVE Greedy'
  OBVIOUS
<1>1. /\ UNCHANGED <<world, files, profile, pairs, rows, attempted, reasons, failures>>
      /\ phase = "scheduling" /\ Opt.strategy = "on-demand" /\ phase' = "validating"
      /\ Opt.target = 0 \/ DOMAIN rows = {}
      /\ schedule' = {}
      /\ memory' = [D \in DOMAIN rows |-> IF Attempted(rows[D]) THEN rows[D] ELSE "not_selected"]
  BY DEF ValidateNone, Call
<1>2. /\ Opt' = Opt /\ Remaining' = Remaining
      /\ \A s : Executable(s)' = Executable(s)
  BY <1>1, Frame DEF Remaining, Executable
<1>3. attempted \subseteq DOMAIN rows
  BY DEF EvidenceInv, TypeOK
<1>4. attempted = {} /\ Executables = {}
  <2>1. DOMAIN rows = {} => attempted = {} /\ Executables = {}
    BY <1>3 DEF Executables
  <2> QED BY <1>1, <2>1 DEF Greedy, RoomIsLeft
<1>5. ExecutableIn(memory)' = {}
  BY <1>1, <1>2, <1>4, OptionFacts DEF ExecutableIn, Executables
<1>6. CallOfOne'
  BY <1>1, <1>2, <1>4, <1>5 DEF CallOfOne, Attempted
<1>7. LargestFirst'
  BY <1>1, <1>4 DEF LargestFirst
<1> QED BY <1>1, <1>6, <1>7 DEF Greedy, RoomIsLeft, TargetIsMet

\* A candidate gets its status.
LEMMA VerdictKeepsGreedy ==
  EvidenceInv /\ Greedy /\ (\E B \in DOMAIN memory : Validate(B) \/ ValidationFallsShort(B))
    => Greedy'
<1> SUFFICES ASSUME EvidenceInv, Greedy, Opt.strategy = "on-demand",
                    NEW B \in DOMAIN memory, Validate(B) \/ ValidationFallsShort(B)
             PROVE  Greedy'
  <2>1. ASSUME \E B \in DOMAIN memory : Validate(B) \/ ValidationFallsShort(B) PROVE Opt' = Opt
    BY <2>1, Frame DEF Validate, ValidationFallsShort
  <2> QED BY <2>1 DEF Greedy
<1>1. /\ UNCHANGED <<world, files, phase, profile, pairs, rows, schedule, attempted, reasons>>
      /\ phase = "validating" /\ memory[B] = "none"
  BY DEF Validate, ValidationFallsShort
<1>2. PICK s : memory' = [memory EXCEPT ![B] = s] /\ s \notin {"none", "not_selected"}
  <2>1. CASE Validate(B)
    <3>1. memory' = [memory EXCEPT ![B] = Verdict(B)]
      BY <2>1 DEF Validate
    <3>2. Verdict(B) \notin {"none", "not_selected"}
      BY DEF Verdict
    <3> QED BY <3>1, <3>2
  <2>2. CASE ValidationFallsShort(B)
    BY <2>2 DEF ValidationFallsShort, Broken
  <2> QED BY <2>1, <2>2
<1>3. /\ Opt' = Opt /\ Remaining' = Remaining /\ Executables' = Executables
      /\ \A r : Executable(r)' = Executable(r)
  BY <1>1, Frame DEF Remaining, Executables, Executable
<1>4. CallOfOne /\ LargestFirst
  BY DEF Greedy
<1>5. B \in schedule /\ schedule # {}
  BY <1>1, <1>4 DEF CallOfOne
<1>6. /\ DOMAIN memory' = DOMAIN memory /\ memory'[B] = s
      /\ \A D \in DOMAIN memory \ {B} : memory'[D] = memory[D]
  BY <1>2
<1>7. PICK A \in attempted : /\ schedule \subseteq {A}
                             /\ ExecutableIn(memory) \subseteq Executables \cup {A}
                             /\ Opt.target > 0 /\ Cardinality(Executables) < Opt.target
  BY <1>1, <1>4, <1>5 DEF CallOfOne
<1>8. B = A
  BY <1>5, <1>7
<1>9. ExecutableIn(memory)' \subseteq Executables \cup {A}
  BY <1>3, <1>6, <1>7, <1>8 DEF ExecutableIn
<1>10. CallOfOne'
  <2>1. \A D \in DOMAIN memory' : memory'[D] = "none" => D \in schedule'
    BY <1>1, <1>2, <1>4, <1>6 DEF CallOfOne
  <2>2. \A D \in attempted' : Attempted(memory'[D]) \/ (D \in schedule' /\ memory'[D] = "none")
    <3>1. attempted \subseteq DOMAIN memory
      BY <1>1 DEF EvidenceInv, MemoryKeepsRows, TypeOK
    <3> QED BY <1>1, <1>2, <1>4, <1>6, <3>1 DEF CallOfOne, Attempted
  <2> QED BY <1>1, <1>3, <1>7, <1>9, <2>1, <2>2 DEF CallOfOne
<1>11. LargestFirst'
  BY <1>1, <1>3, <1>4 DEF LargestFirst
<1> QED BY <1>1, <1>10, <1>11 DEF Greedy, RoomIsLeft, TargetIsMet

\* The rows are written, and the call before was one too few or the last.
LEMMA WriteKeepsGreedy == EvidenceInv /\ Greedy /\ WriteRows => Greedy'
<1> SUFFICES ASSUME EvidenceInv, Greedy, WriteRows, Opt.strategy = "on-demand" PROVE Greedy'
  <2>1. ASSUME WriteRows PROVE Opt' = Opt
    BY <2>1, Frame DEF WriteRows
  <2> QED BY <2>1 DEF Greedy
<1>1. /\ UNCHANGED <<world, files, profile, pairs, memory, attempted, reasons, failures>>
      /\ phase = "validating" /\ rows' = memory /\ DOMAIN memory = DOMAIN rows
      /\ \A B \in schedule : memory[B] # "none"
      /\ \/ /\ phase' = "scheduling"
            /\ Opt.target > 0 /\ Cardinality(ExecutableIn(memory)) < Opt.target
         \/ /\ phase' = "classifying"
            /\ \/ Opt.target = 0 \/ Opt.target < 0 \/ Remaining = {}
               \/ ~ (Cardinality(ExecutableIn(memory)) < Opt.target)
  <2>1. Opt.target \in Nat
    BY OptionFacts
  <2> QED BY <2>1 DEF WriteRows, ExecutableIn, EvidenceInv, MemoryKeepsRows
<1>2. /\ Opt' = Opt /\ Remaining' = Remaining /\ Executables' = ExecutableIn(memory)
  BY <1>1, Frame DEF Remaining, Executables, Executable, ExecutableIn
<1>3. CallOfOne /\ LargestFirst
  BY DEF Greedy
<1>4. LargestFirst'
  BY <1>1, <1>2, <1>3 DEF LargestFirst
<1>5. \A B \in attempted' : Attempted(rows'[B])
  BY <1>1, <1>3 DEF CallOfOne
<1>6. Opt.target \in Nat /\ Cardinality(ExecutableIn(memory)) \in Nat
  BY <1>1, OptionFacts, ExecutableIn(memory) \in SUBSET DOMAIN memory DEF ExecutableIn
<1>7. /\ Cardinality(ExecutableIn(memory)) <= Opt.target
      /\ Opt.target = 0 => Cardinality(ExecutableIn(memory)) = 0
  <2>1. CASE /\ schedule = {} /\ attempted = {} /\ ExecutableIn(memory) = {}
             /\ Opt.target = 0 \/ DOMAIN rows = {}
    BY <1>6, <2>1, FS_EmptySet
  <2>2. CASE /\ Opt.target > 0 /\ Cardinality(Executables) < Opt.target
             /\ \E B \in attempted : /\ schedule \subseteq {B}
                                     /\ ExecutableIn(memory) \subseteq Executables \cup {B}
    <3>1. PICK B \in attempted : ExecutableIn(memory) \subseteq Executables \cup {B}
      BY <2>2
    <3>2. IsFiniteSet(Executables) /\ Cardinality(Executables) \in Nat
      BY OptionFacts, Executables \in SUBSET DOMAIN rows DEF Executables
    <3>3. /\ IsFiniteSet(Executables \cup {B})
          /\ Cardinality(Executables \cup {B}) <= Cardinality(Executables) + 1
          /\ Cardinality(Executables \cup {B}) \in Nat
      <4>1. /\ IsFiniteSet(Executables \cup {B})
            /\ Cardinality(Executables \cup {B}) =
                 IF B \in Executables THEN Cardinality(Executables) ELSE Cardinality(Executables) + 1
        BY <3>2, FS_AddElement
      <4> QED BY <3>2, <4>1
    <3>4. Cardinality(ExecutableIn(memory)) <= Cardinality(Executables \cup {B})
      BY <3>1, <3>3, FS_Subset
    <3> QED BY <1>6, <2>2, <3>2, <3>3, <3>4
  <2> QED BY <1>1, <1>3, <2>1, <2>2 DEF CallOfOne
<1>8. RoomIsLeft'
  BY <1>1, <1>2, <1>5 DEF RoomIsLeft
<1>9. TargetIsMet'
  BY <1>1, <1>2, <1>6, <1>7 DEF TargetIsMet
<1>10. phase' # "validating"
  BY <1>1
<1> QED BY <1>4, <1>8, <1>9, <1>10 DEF Greedy, CallOfOne

LEMMA GreedyNext == EvidenceInv /\ EvidenceInv' /\ Greedy /\ [Next]_vars => Greedy'
<1> SUFFICES ASSUME EvidenceInv, EvidenceInv', Greedy, [Next]_vars PROVE Greedy'
  OBVIOUS
<1>1. CASE AnalyzeState
  <2>1. attempted' = {} /\ phase' \notin {"scheduling", "validating", "classifying", "reported"}
    <3>1. phase' \in Unbuilt
      BY <1>1 DEF AnalyzeState, ProfilePasses, SchedulePairs, EndPairs, TestPair, TestFails,
         Unbuilt, Open
    <3> QED BY <3>1 DEF EvidenceInv, FilesAreBuilt, Unbuilt, Open
  <2> QED BY <2>1 DEF Greedy, LargestFirst, RoomIsLeft, CallOfOne, TargetIsMet
<1>2. CASE BuildBatches
  <2>1. /\ phase' = "scheduling" /\ attempted' = {}
        /\ UNCHANGED <<world, profile, pairs>>
        /\ \A B \in DOMAIN rows' : rows'[B] = "none"
    BY <1>2 DEF BuildBatches, EvidenceInv, FilesAreBuilt, Unbuilt
  <2>2. Opt' = Opt /\ \A r : Executable(r)' = Executable(r)
    BY <2>1, Frame DEF Executable
  <2>3. Executables' = {}
    BY <2>1, <2>2, OptionFacts DEF Executables
  <2>4. Opt.target \in Nat /\ Cardinality(Executables') = 0
    BY <2>3, OptionFacts, FS_EmptySet
  <2> QED BY <2>1, <2>2, <2>3, <2>4 DEF Greedy, LargestFirst, RoomIsLeft, CallOfOne, TargetIsMet
<1>3. CASE ValidateAll
  <2>1. Opt.strategy = "all" /\ Opt' = Opt
    BY <1>3, Frame DEF ValidateAll
  <2> QED BY <2>1 DEF Greedy
<1>4. CASE ValidationRaises
  <2>1. /\ phase' = "raised"
        /\ UNCHANGED <<world, profile, pairs, rows, attempted>>
    BY <1>4 DEF ValidationRaises
  <2>2. Opt' = Opt /\ Remaining' = Remaining
    BY <2>1, Frame DEF Remaining
  <2> QED BY <2>1, <2>2 DEF Greedy, LargestFirst, RoomIsLeft, CallOfOne, TargetIsMet
<1>5. CASE Report
  <2>1. /\ phase = "classifying" /\ phase' = "reported"
        /\ UNCHANGED <<world, profile, pairs, rows, attempted>>
    BY <1>5 DEF Report
  <2>2. Opt' = Opt /\ Remaining' = Remaining /\ Executables' = Executables
    BY <2>1, Frame DEF Remaining, Executables, Executable
  <2> QED BY <2>1, <2>2 DEF Greedy, LargestFirst, RoomIsLeft, CallOfOne, TargetIsMet
<1>6. CASE UNCHANGED vars
  <2>1. UNCHANGED <<world, phase, profile, pairs, rows, schedule, memory, attempted>>
    BY <1>6 DEF vars, files
  <2>2. /\ Opt' = Opt /\ Remaining' = Remaining /\ Executables' = Executables
        /\ ExecutableIn(memory)' = ExecutableIn(memory)
    BY <2>1, Frame DEF Remaining, Executables, Executable, ExecutableIn
  <2> QED BY <2>1, <2>2 DEF Greedy, LargestFirst, RoomIsLeft, CallOfOne, TargetIsMet
<1> QED BY <1>1, <1>2, <1>3, <1>4, <1>5, <1>6, NextKeepsGreedy, NoneKeepsGreedy,
           VerdictKeepsGreedy, WriteKeepsGreedy DEF Next, ValidationStep

(***************************************************************************)
(* What the report of a state says of its batches and passes is right:     *)
(* batches commute, a complete state has all of them, on-demand validation *)
(* passed over no larger candidate, and no active pass is missing.         *)
(***************************************************************************)
THEOREM ReportAlwaysRight == Spec => []ReportIsRight
<1>1. Init => EvidenceInv /\ Greedy
  BY InitIsTrue, GreedyInit
<1>2. EvidenceInv /\ Greedy /\ [Next]_vars => (EvidenceInv /\ Greedy)'
  BY NextKeeps, GreedyNext
<1>3. EvidenceInv /\ Greedy => ReportIsRight
  <2>1. Greedy => OnDemandIsGreedy
    BY DEF Greedy, LargestFirst, TargetIsMet, OnDemandIsGreedy
  <2> QED BY <2>1, InvMakesBatchesCommute, InvMakesCompleteMeanAll, InvMakesNoPassDropped
          DEF ReportIsRight
<1> QED BY <1>1, <1>2, <1>3, PTL DEF Spec
=============================================================================
