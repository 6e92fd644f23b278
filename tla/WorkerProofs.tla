---------------------------- MODULE WorkerProofs ----------------------------
(***************************************************************************)
(* The workers.  The pool loses no worker, shares none and leaves none     *)
(* behind, and nobody oversleeps, for any number of threads and of         *)
(* workers; one worker counts the references that somebody has, knows the  *)
(* handles it gave out and answers for the module it was asked about, for  *)
(* any modules, passes, paths and results.                                 *)
(***************************************************************************)
EXTENDS WorkerPool, OptBackend, FiniteSetTheorems, TLAPS

-----------------------------------------------------------------------------
(***************************************************************************)
(* WorkerPool.                                                             *)
(***************************************************************************)
(* The inductive invariant.                                                *)

\* A worker is at one place of the queue.
QueuedOnce ==
  \A i, j \in 1..Len(available) : available[i] = available[j] => i = j

\* A thread that has checked a worker out, and nobody else, has one.
HoldersHaveWorkers ==
  \A t \in Threads : has[t] # NoOne <=> pc[t] \in {"holding", "requesting", "raised"}

\* A lock is held by the thread whose request the worker answers.
LocksAreHeld ==
  \A w \in Workers, t \in Threads : lock[w] = t <=> pc[t] = "requesting" /\ has[t] = w

\* Workers are closed after the pool, and each once.
CloseIsOrdered ==
  /\ ~ closed => toClose = {}
  /\ \A w \in Workers : shut[w] <=> closed /\ w \notin toClose

PoolIsOrdered ==
  /\ TypeOK /\ QueuedOnce /\ HoldersHaveWorkers /\ LocksAreHeld /\ CloseIsOrdered
  /\ WorkersAreAccountedFor /\ ShutWorkersAreQuiet /\ NobodyOversleeps

-----------------------------------------------------------------------------
(* The queue.                                                              *)

\* One sequence after another.
LEMMA ConcatIs ==
  ASSUME NEW V, NEW a \in Seq(V), NEW b \in Seq(V)
  PROVE  /\ a \o b \in Seq(V) /\ Len(a \o b) = Len(a) + Len(b)
         /\ \A k \in 1..(Len(a) + Len(b)) :
              (a \o b)[k] = IF k <= Len(a) THEN a[k] ELSE b[k - Len(a)]
OBVIOUS

\* The queue without the entry at place i.
LEMMA RemoveAtIs ==
  ASSUME NEW V, NEW q \in Seq(V), NEW i \in 1..Len(q)
  PROVE  /\ RemoveAt(q, i) \in Seq(V) /\ Len(RemoveAt(q, i)) = Len(q) - 1
         /\ \A k \in 1..(Len(q) - 1) :
              RemoveAt(q, i)[k] = IF k < i THEN q[k] ELSE q[k + 1]
<1> DEFINE a == SubSeq(q, 1, i - 1)
<1> DEFINE b == SubSeq(q, i + 1, Len(q))
<1>1. a \in Seq(V) /\ Len(a) = i - 1 /\ \A k \in 1..(i - 1) : a[k] = q[k]
  OBVIOUS
<1>2. b \in Seq(V) /\ Len(b) = Len(q) - i /\ \A k \in 1..(Len(q) - i) : b[k] = q[i + k]
  OBVIOUS
<1> HIDE DEF a, b
<1>3. /\ a \o b \in Seq(V) /\ Len(a \o b) = Len(q) - 1
      /\ \A k \in 1..(Len(q) - 1) : (a \o b)[k] = IF k < i THEN a[k] ELSE b[k - (i - 1)]
  <2>1. Len(a) + Len(b) = Len(q) - 1 /\ \A k \in Int : k <= Len(a) <=> k < i
    BY <1>1, <1>2
  <2>2. /\ a \o b \in Seq(V) /\ Len(a \o b) = Len(a) + Len(b)
        /\ \A k \in 1..(Len(a) + Len(b)) :
             (a \o b)[k] = IF k <= Len(a) THEN a[k] ELSE b[k - Len(a)]
    BY <1>1, <1>2, ConcatIs
  <2>3. ASSUME NEW k \in 1..(Len(q) - 1)
        PROVE  (a \o b)[k] = IF k < i THEN a[k] ELSE b[k - (i - 1)]
    <3>1. (a \o b)[k] = IF k <= Len(a) THEN a[k] ELSE b[k - Len(a)]
      BY <2>1, <2>2
    <3> QED BY <1>1, <2>1, <3>1
  <2> QED BY <2>1, <2>2, <2>3
<1>4. ASSUME NEW k \in 1..(Len(q) - 1)
      PROVE  (a \o b)[k] = IF k < i THEN q[k] ELSE q[k + 1]
  <2>1. CASE k < i
    BY <1>1, <1>3, <2>1
  <2>2. CASE ~(k < i)
    <3>1. k - (i - 1) \in 1..(Len(q) - i) /\ i + (k - (i - 1)) = k + 1
      BY <2>2
    <3>2. b[k - (i - 1)] = q[i + (k - (i - 1))]
      BY <1>2, <3>1
    <3> QED BY <1>3, <2>2, <3>1, <3>2
  <2> QED BY <2>1, <2>2
<1> QED BY <1>3, <1>4 DEF RemoveAt, a, b

\* What is in a queue.
LEMMA ToSetIs ==
  ASSUME NEW V, NEW q \in Seq(V)
  PROVE  \A v : v \in ToSet(q) <=> \E k \in 1..Len(q) : q[k] = v
BY DEF ToSet

\* Without its entry at i a queue of different workers holds the others.
LEMMA WithoutOne ==
  ASSUME NEW V, NEW q \in Seq(V), NEW i \in 1..Len(q),
         \A j, k \in 1..Len(q) : q[j] = q[k] => j = k
  PROVE  /\ ToSet(RemoveAt(q, i)) = ToSet(q) \ {q[i]}
         /\ \A j, k \in 1..Len(RemoveAt(q, i)) :
              RemoveAt(q, i)[j] = RemoveAt(q, i)[k] => j = k
<1> DEFINE r == RemoveAt(q, i)
<1>1. r \in Seq(V) /\ Len(r) = Len(q) - 1
      /\ \A k \in 1..(Len(q) - 1) : r[k] = IF k < i THEN q[k] ELSE q[k + 1]
  BY RemoveAtIs
<1> HIDE DEF r
<1>2. ASSUME NEW v \in ToSet(r) PROVE v \in ToSet(q) /\ v # q[i]
  <2>1. PICK k \in 1..Len(r) : r[k] = v
    BY <1>1, ToSetIs
  <2>2. PICK j \in 1..Len(q) : j # i /\ q[j] = v
    <3>1. CASE k < i
      BY <1>1, <2>1, <3>1
    <3>2. CASE k >= i
      BY <1>1, <2>1, <3>2
    <3> QED BY <1>1, <3>1, <3>2
  <2> QED BY <2>2, ToSetIs
<1>3. ASSUME NEW v \in ToSet(q), v # q[i] PROVE v \in ToSet(r)
  <2>1. PICK k \in 1..Len(q) : q[k] = v
    BY ToSetIs
  <2>2. CASE k < i
    BY <1>1, <2>1, <2>2, ToSetIs
  <2>3. CASE k > i
    <3>1. k - 1 \in 1..(Len(q) - 1) /\ ~(k - 1 < i) /\ (k - 1) + 1 = k
      BY <2>3
    <3>2. r[k - 1] = q[k]
      BY <1>1, <3>1
    <3> QED BY <1>1, <2>1, <3>1, <3>2, ToSetIs
  <2> QED BY <1>3, <2>1, <2>2, <2>3
<1>4. ASSUME NEW j \in 1..Len(r), NEW k \in 1..Len(r), r[j] = r[k] PROVE j = k
  BY <1>1, <1>4
<1> QED BY <1>2, <1>3, <1>4 DEF r

\* A queue of different workers with one more at its end.
LEMMA WithOneMore ==
  ASSUME NEW V, NEW q \in Seq(V), NEW v \in V, v \notin ToSet(q),
         \A j, k \in 1..Len(q) : q[j] = q[k] => j = k
  PROVE  /\ Append(q, v) \in Seq(V) /\ Len(Append(q, v)) = Len(q) + 1
         /\ ToSet(Append(q, v)) = ToSet(q) \cup {v}
         /\ \A j, k \in 1..Len(Append(q, v)) : Append(q, v)[j] = Append(q, v)[k] => j = k
<1> DEFINE r == Append(q, v)
<1>1. /\ r \in Seq(V) /\ Len(r) = Len(q) + 1 /\ r[Len(q) + 1] = v
      /\ \A k \in 1..Len(q) : r[k] = q[k]
  OBVIOUS
<1> HIDE DEF r
<1>2. \A k \in 1..Len(q) : q[k] # v
  BY ToSetIs
<1>3. ToSet(r) = ToSet(q) \cup {v}
  <2>1. \A x : x \in ToSet(r) <=> \E k \in 1..Len(r) : r[k] = x
    BY <1>1, ToSetIs
  <2>2. \A x : x \in ToSet(q) <=> \E k \in 1..Len(q) : q[k] = x
    BY ToSetIs
  <2>3. ASSUME NEW x PROVE x \in ToSet(r) <=> x \in ToSet(q) \cup {v}
    BY <1>1, <2>1, <2>2
  <2> QED BY <2>3
<1>4. ASSUME NEW j \in 1..Len(r), NEW k \in 1..Len(r), r[j] = r[k] PROVE j = k
  BY <1>1, <1>2, <1>4
<1> QED BY <1>1, <1>3, <1>4 DEF r

-----------------------------------------------------------------------------
(* The invariant holds.                                                    *)

\* The workers that are not checked out are finitely many.
LEMMA FreeIsFinite ==
  ASSUME NEW H
  PROVE  IsFiniteSet(Workers \ H)
<1>1. IsFiniteSet(Workers)
  BY PoolAssumption, FS_Interval DEF Workers
<1> QED BY <1>1, FS_Subset, Workers \ H \in SUBSET Workers

\* The invariant holds at the beginning.
LEMMA InitOrdered == Init => PoolIsOrdered
<1> SUFFICES ASSUME Init PROVE PoolIsOrdered
  OBVIOUS
<1>1. InOrder \in Seq(Workers) /\ Len(InOrder) = Size /\ \A w \in 1..Size : InOrder[w] = w
  BY PoolAssumption DEF InOrder, Workers
<1>2. TypeOK
  BY <1>1 DEF Init, TypeOK
<1>3. QueuedOnce
  BY <1>1 DEF Init, QueuedOnce
<1>4. WorkersAreAccountedFor
  <2>1. Held = {}
    BY PoolAssumption DEF Init, Held
  <2>2. ToSet(available) = Workers
    <3>1. available = InOrder
      BY DEF Init
    <3>2. ASSUME NEW v PROVE v \in ToSet(available) <=> v \in Workers
      BY <1>1, <3>1, ToSetIs DEF Workers
    <3> QED BY <3>2
  <2>3. Len(available) = Cardinality(Workers)
    BY <1>1, PoolAssumption, FS_Interval DEF Init, Workers
  <2>4. \A t \in Threads : has[t] = NoOne
    BY DEF Init
  <2>5. Workers \ Held = Workers
    BY <2>1
  <2> QED BY <2>2, <2>3, <2>4, <2>5 DEF WorkersAreAccountedFor
<1>5. HoldersHaveWorkers /\ LocksAreHeld /\ CloseIsOrdered
  BY PoolAssumption DEF Init, HoldersHaveWorkers, LocksAreHeld, CloseIsOrdered
<1>6. ShutWorkersAreQuiet /\ NobodyOversleeps
  BY DEF Init, ShutWorkersAreQuiet, NobodyOversleeps
<1> QED BY <1>2, <1>3, <1>4, <1>5, <1>6 DEF PoolIsOrdered

\* A thread takes a worker out of the queue.
LEMMA AcquireOrdered ==
  ASSUME PoolIsOrdered, NEW t \in Threads, Acquire(t)
  PROVE  PoolIsOrdered'
<1>0. available \in Seq(Workers)
  BY DEF PoolIsOrdered, TypeOK
<1>1. PICK i \in 1..Len(available) :
        /\ has' = [has EXCEPT ![t] = available[i]]
        /\ available' = RemoveAt(available, i)
  <2>1. PICK i \in Found(t) : /\ has' = [has EXCEPT ![t] = available[i]]
                             /\ available' = RemoveAt(available, i)
    BY DEF Acquire
  <2>2. i \in 1..Len(available)
    BY <1>0 DEF Found
  <2> QED BY <2>1, <2>2
<1> DEFINE w == available[i]
<1>2. /\ pc[t] \in {"looking", "late"} /\ ~ closed
      /\ pc' = [pc EXCEPT ![t] = "holding"] /\ wants' = [wants EXCEPT ![t] = NoOne]
      /\ closed' = closed /\ lock' = lock /\ process' = process /\ shut' = shut
      /\ toClose' = toClose
  BY DEF Acquire, workers
<1>3. TypeOK /\ QueuedOnce /\ WorkersAreAccountedFor /\ HoldersHaveWorkers
  BY DEF PoolIsOrdered
<1>4. available \in Seq(Workers) /\ w \in Workers /\ w # NoOne
  BY <1>1, <1>3, PoolAssumption DEF TypeOK
<1>5. has[t] = NoOne
  BY <1>2, <1>3 DEF HoldersHaveWorkers, TypeOK
<1>6. /\ available' \in Seq(Workers) /\ Len(available') = Len(available) - 1
      /\ ToSet(available') = ToSet(available) \ {w} /\ QueuedOnce'
  <2>1. available' \in Seq(Workers) /\ Len(available') = Len(available) - 1
    BY <1>0, <1>1, RemoveAtIs
  <2>2. \A j, k \in 1..Len(available) : available[j] = available[k] => j = k
    BY <1>3 DEF QueuedOnce
  <2>3. /\ ToSet(available') = ToSet(available) \ {w}
        /\ \A j, k \in 1..Len(available') : available'[j] = available'[k] => j = k
    BY <1>0, <1>1, <2>2, WithoutOne
  <2> QED BY <2>1, <2>3 DEF QueuedOnce
<1>7. w \in Workers \ Held
  BY <1>1, <1>2, <1>3, <1>4, ToSetIs DEF WorkersAreAccountedFor
<1>8. Held' = Held \cup {w}
  <2>1. \A u \in Threads : has'[u] = IF u = t THEN w ELSE has[u]
    BY <1>1, <1>3 DEF TypeOK
  <2>2. ASSUME NEW v \in Workers
        PROVE  (\E u \in Threads : has'[u] = v) <=> v = w \/ \E u \in Threads : has[u] = v
    BY <1>5, <2>1, PoolAssumption
  <2> QED BY <1>4, <2>2 DEF Held
<1>9. TypeOK'
  BY <1>1, <1>2, <1>3, <1>4, <1>6 DEF TypeOK
<1>10. WorkersAreAccountedFor'
  <2>1. Workers \ Held' = (Workers \ Held) \ {w}
    BY <1>8
  <2>2. ToSet(available') = Workers \ Held'
    BY <1>2, <1>3, <1>6, <2>1 DEF WorkersAreAccountedFor
  <2>3. Len(available') = Cardinality(Workers \ Held')
    BY <1>2, <1>3, <1>6, <1>7, <2>1, FreeIsFinite, FS_RemoveElement DEF WorkersAreAccountedFor
  <2>4. \A u, v \in Threads : has'[u] = has'[v] /\ has'[u] # NoOne => u = v
    BY <1>1, <1>3, <1>4, <1>7 DEF WorkersAreAccountedFor, TypeOK, Held
  <2> QED BY <2>2, <2>3, <2>4 DEF WorkersAreAccountedFor
<1>11. HoldersHaveWorkers'
  BY <1>1, <1>2, <1>3, <1>4 DEF HoldersHaveWorkers, TypeOK
<1>12. LocksAreHeld'
  BY <1>1, <1>2, <1>3, <1>5 DEF LocksAreHeld, TypeOK, PoolIsOrdered
<1>13. CloseIsOrdered' /\ ShutWorkersAreQuiet'
  BY <1>2 DEF PoolIsOrdered, CloseIsOrdered, ShutWorkersAreQuiet
<1>14. NobodyOversleeps'
  <2> SUFFICES ASSUME NEW u \in Threads, pc'[u] = "asleep" PROVE Found(u)' = {}
    BY <1>2 DEF NobodyOversleeps
  <2>1. u # t /\ pc[u] = "asleep" /\ wants'[u] = wants[u]
    BY <1>2, <1>3 DEF TypeOK
  <2>2. Found(u) = {}
    BY <2>1 DEF PoolIsOrdered, NobodyOversleeps
  <2>3. wants[u] # AnyWorker
    <3>1. 1 \in DOMAIN available
      BY <1>1, <1>4
    <3> QED BY <2>2, <3>1 DEF Found
  <2>4. \A k \in 1..Len(available) : available[k] # wants[u]
    <3> SUFFICES ASSUME NEW k \in 1..Len(available), available[k] = wants[u] PROVE FALSE
      OBVIOUS
    <3>1. \A j \in 1..(k - 1) : available[j] # wants[u]
      BY <1>3, <1>4 DEF QueuedOnce
    <3>2. k \in Found(u)
      BY <1>4, <2>3, <3>1 DEF Found
    <3> QED BY <2>2, <3>2
  <2>5. wants[u] \notin ToSet(available')
    BY <1>4, <1>6, <2>4, ToSetIs
  <2>6. \A k \in 1..Len(available') : available'[k] # wants[u]
    BY <1>6, <2>5, ToSetIs
  <2> QED BY <1>6, <2>1, <2>3, <2>6 DEF Found
<1> QED BY <1>6, <1>9, <1>10, <1>11, <1>12, <1>13, <1>14 DEF PoolIsOrdered

\* A thread puts its worker back, unless the pool is closed, and wakes the others.
LEMMA ReleaseOrdered ==
  ASSUME PoolIsOrdered, NEW t \in Threads, Release(t)
  PROVE  PoolIsOrdered'
<1> DEFINE w == has[t]
<1>1. /\ pc[t] \in {"holding", "raised"}
      /\ available' = IF closed THEN available ELSE Append(available, w)
      /\ has' = [has EXCEPT ![t] = NoOne]
      /\ pc' = Awake([pc EXCEPT ![t] = "idle"])
      /\ closed' = closed /\ wants' = wants /\ lock' = lock /\ process' = process
      /\ shut' = shut /\ toClose' = toClose
  BY DEF Release, workers
<1>2. TypeOK /\ QueuedOnce /\ WorkersAreAccountedFor /\ HoldersHaveWorkers
  BY DEF PoolIsOrdered
<1>3. available \in Seq(Workers) /\ w \in Workers /\ w # NoOne
  BY <1>1, <1>2 DEF TypeOK, HoldersHaveWorkers
<1>4. /\ pc' \in [Threads -> {"idle", "looking", "asleep", "late", "holding", "requesting",
                              "raised"}]
      /\ \A u \in Threads :
           pc'[u] = IF u = t THEN "idle" ELSE IF pc[u] = "asleep" THEN "looking" ELSE pc[u]
  BY <1>1, <1>2 DEF TypeOK, Awake
<1>5. \A u \in Threads : has'[u] = IF u = t THEN NoOne ELSE has[u]
  BY <1>1, <1>2 DEF TypeOK
<1>6. w \in Held /\ Held' = Held \ {w}
  <2>1. \A u \in Threads : has[u] = w => u = t
    BY <1>2, <1>3 DEF WorkersAreAccountedFor
  <2>2. ASSUME NEW v \in Workers
        PROVE  (\E u \in Threads : has'[u] = v) <=> v # w /\ \E u \in Threads : has[u] = v
    BY <1>5, <2>1, PoolAssumption
  <2> QED BY <1>3, <2>2 DEF Held
<1> HIDE DEF w
<1>7. ~ closed => /\ available' \in Seq(Workers) /\ Len(available') = Len(available) + 1
                  /\ ToSet(available') = ToSet(available) \cup {w} /\ QueuedOnce'
  <2> SUFFICES ASSUME ~ closed
               PROVE  /\ available' \in Seq(Workers) /\ Len(available') = Len(available) + 1
                      /\ ToSet(available') = ToSet(available) \cup {w} /\ QueuedOnce'
    OBVIOUS
  <2>1. w \notin ToSet(available)
    BY <1>2, <1>6 DEF WorkersAreAccountedFor
  <2>2. \A j, k \in 1..Len(available) : available[j] = available[k] => j = k
    BY <1>2 DEF QueuedOnce
  <2> QED BY <1>1, <1>3, <2>1, <2>2, WithOneMore DEF QueuedOnce
<1>8. TypeOK'
  <2>1. has' \in [Threads -> Workers \cup {NoOne}]
    BY <1>1, <1>2 DEF TypeOK
  <2>2. available' \in Seq(Workers)
    BY <1>1, <1>3, <1>7
  <2> QED BY <1>1, <1>2, <1>4, <2>1, <2>2 DEF TypeOK
<1>9. WorkersAreAccountedFor'
  <2>1. \A u, v \in Threads : has'[u] = has'[v] /\ has'[u] # NoOne => u = v
    BY <1>2, <1>5 DEF WorkersAreAccountedFor
  <2>2. ASSUME ~ closed'
        PROVE  /\ ToSet(available') = Workers \ Held'
               /\ Len(available') = Cardinality(Workers \ Held')
    <3>1. Workers \ Held' = (Workers \ Held) \cup {w} /\ w \notin Workers \ Held
      BY <1>3, <1>6
    <3>2. ~ closed
      BY <1>1, <2>2
    <3> QED BY <1>2, <1>7, <3>1, <3>2, FreeIsFinite, FS_AddElement DEF WorkersAreAccountedFor
  <2> QED BY <2>1, <2>2 DEF WorkersAreAccountedFor
<1>10. QueuedOnce'
  BY <1>1, <1>2, <1>7 DEF QueuedOnce
<1>11. HoldersHaveWorkers'
  BY <1>2, <1>4, <1>5 DEF HoldersHaveWorkers
<1>12. LocksAreHeld'
  <2>1. \A v \in Workers, u \in Threads : lock[v] = u <=> pc[u] = "requesting" /\ has[u] = v
    BY DEF PoolIsOrdered, LocksAreHeld
  <2>2. \A u \in Threads : pc'[u] = "requesting" <=> pc[u] = "requesting"
    BY <1>1, <1>4
  <2>3. \A u \in Threads : pc[u] = "requesting" => has'[u] = has[u]
    BY <1>1, <1>5
  <2> SUFFICES ASSUME NEW v \in Workers, NEW u \in Threads
               PROVE  lock'[v] = u <=> pc'[u] = "requesting" /\ has'[u] = v
    BY DEF LocksAreHeld
  <2>4. lock'[v] = lock[v]
    BY <1>1
  <2> QED BY <2>1, <2>2, <2>3, <2>4
<1>13. CloseIsOrdered' /\ ShutWorkersAreQuiet'
  BY <1>1 DEF PoolIsOrdered, CloseIsOrdered, ShutWorkersAreQuiet
<1>14. NobodyOversleeps'
  BY <1>4 DEF NobodyOversleeps
<1> QED BY <1>8, <1>9, <1>10, <1>11, <1>12, <1>13, <1>14 DEF PoolIsOrdered

\* While the queue and the checkouts stay, so do the invariants about them.
LEMMA QueueStays ==
  ASSUME PoolIsOrdered, available' = available, has' = has, closed' \in {closed, TRUE}
  PROVE  QueuedOnce' /\ WorkersAreAccountedFor'
<1>1. Held' = Held
  BY DEF Held
<1> QED BY <1>1 DEF PoolIsOrdered, QueuedOnce, WorkersAreAccountedFor, TypeOK

\* A thread that has no worker asks for one, sleeps, expires or gives up.
LEMMA WaitingOrdered ==
  ASSUME PoolIsOrdered, NEW t \in Threads, Ask(t) \/ Sleep(t) \/ Expire(t) \/ GiveUp(t)
  PROVE  PoolIsOrdered'
<1>1. /\ available' = available /\ closed' = closed /\ has' = has /\ lock' = lock
      /\ process' = process /\ shut' = shut /\ toClose' = toClose
  BY DEF Ask, Sleep, Expire, GiveUp, workers
<1>2. PICK l \in {"idle", "looking", "asleep", "late"} :
        /\ pc' = [pc EXCEPT ![t] = l]
        /\ l = "asleep" => ~ closed /\ Found(t) = {} /\ wants' = wants
  BY DEF Ask, Sleep, Expire, GiveUp
<1>3. pc[t] \in {"idle", "looking", "asleep", "late"}
  BY DEF Ask, Sleep, Expire, GiveUp
<1>4. PICK x \in Workers \cup {AnyWorker, NoOne} :
        wants' = wants \/ wants' = [wants EXCEPT ![t] = x]
  BY DEF Ask, Sleep, Expire, GiveUp
<1>5. TypeOK'
  BY <1>1, <1>2, <1>4 DEF PoolIsOrdered, TypeOK
<1>6. QueuedOnce' /\ WorkersAreAccountedFor'
  BY <1>1, QueueStays
<1>7. HoldersHaveWorkers'
  BY <1>1, <1>2, <1>3 DEF PoolIsOrdered, TypeOK, HoldersHaveWorkers
<1>8. LocksAreHeld'
  BY <1>1, <1>2, <1>3 DEF PoolIsOrdered, TypeOK, LocksAreHeld
<1>9. CloseIsOrdered' /\ ShutWorkersAreQuiet'
  BY <1>1 DEF PoolIsOrdered, CloseIsOrdered, ShutWorkersAreQuiet
<1>10. NobodyOversleeps'
  <2> SUFFICES ASSUME NEW u \in Threads, pc'[u] = "asleep" PROVE ~ closed /\ Found(u)' = {}
    BY <1>1 DEF NobodyOversleeps
  <2>1. CASE u = t
    BY <1>1, <1>2, <2>1 DEF PoolIsOrdered, TypeOK, Found
  <2>2. CASE u # t
    BY <1>1, <1>2, <1>4, <2>2 DEF PoolIsOrdered, TypeOK, Found, NobodyOversleeps
  <2> QED BY <2>1, <2>2
<1> QED BY <1>5, <1>6, <1>7, <1>8, <1>9, <1>10 DEF PoolIsOrdered

\* A thread starts its worker, and sends it a request that ends or fails.
LEMMA RequestOrdered ==
  ASSUME PoolIsOrdered, NEW t \in Threads, StartWorker(t) \/ BeginRequest(t) \/ EndRequest(t)
  PROVE  PoolIsOrdered'
<1>1. /\ available' = available /\ closed' = closed /\ has' = has /\ wants' = wants
      /\ shut' = shut /\ toClose' = toClose
      /\ pc[t] \in {"holding", "requesting"}
  BY DEF StartWorker, BeginRequest, EndRequest
<1>2. PICK l \in {"holding", "requesting", "raised"} : pc' = [pc EXCEPT ![t] = l]
  <2>1. pc' = pc /\ pc[t] = "holding" => pc' = [pc EXCEPT ![t] = "holding"]
    BY DEF PoolIsOrdered, TypeOK
  <2> QED BY <2>1 DEF StartWorker, BeginRequest, EndRequest
<1>3. has[t] \in Workers
  BY <1>1 DEF PoolIsOrdered, TypeOK, HoldersHaveWorkers
<1>4. /\ process' \in [Workers -> {"none", "running", "exited"}]
      /\ \A w \in Workers : shut[w] => process'[w] = "none"
  BY <1>3 DEF StartWorker, BeginRequest, EndRequest, Start, PoolIsOrdered, TypeOK,
     ShutWorkersAreQuiet
<1>5. lock' \in [Workers -> Threads \cup {NoOne}]
  BY <1>3 DEF StartWorker, BeginRequest, EndRequest, PoolIsOrdered, TypeOK
<1>6. TypeOK'
  BY <1>1, <1>2, <1>4, <1>5 DEF PoolIsOrdered, TypeOK
<1>7. QueuedOnce' /\ WorkersAreAccountedFor'
  BY <1>1, QueueStays
<1>8. HoldersHaveWorkers'
  BY <1>1, <1>2 DEF PoolIsOrdered, TypeOK, HoldersHaveWorkers
<1>9. LocksAreHeld'
  <2>1. \A u, v \in Threads : has[u] = has[v] /\ has[u] # NoOne => u = v
    BY DEF PoolIsOrdered, WorkersAreAccountedFor
  <2>2. has[t] # NoOne /\ t # NoOne
    BY <1>3, PoolAssumption
  <2>3. \A w \in Workers, u \in Threads : lock[w] = u <=> pc[u] = "requesting" /\ has[u] = w
    BY DEF PoolIsOrdered, LocksAreHeld
  <2> SUFFICES ASSUME NEW w \in Workers, NEW u \in Threads
               PROVE  lock'[w] = u <=> pc'[u] = "requesting" /\ has'[u] = w
    BY DEF LocksAreHeld
  <2>4. \A x : x \in Threads => x # NoOne
    BY PoolAssumption
  <2>5. pc \in [Threads -> {"idle", "looking", "asleep", "late", "holding", "requesting",
                            "raised"}]
        /\ lock \in [Workers -> Threads \cup {NoOne}]
    BY DEF PoolIsOrdered, TypeOK
  <2>6. CASE StartWorker(t)
    BY <1>1, <2>3, <2>5, <2>6 DEF StartWorker
  <2>7. CASE BeginRequest(t)
    BY <1>1, <1>3, <2>1, <2>2, <2>3, <2>4, <2>5, <2>7 DEF BeginRequest
  <2>8. CASE EndRequest(t)
    BY <1>1, <1>3, <2>1, <2>2, <2>3, <2>4, <2>5, <2>8 DEF EndRequest
  <2> QED BY <2>6, <2>7, <2>8
<1>10. CloseIsOrdered' /\ ShutWorkersAreQuiet'
  BY <1>1, <1>4 DEF PoolIsOrdered, CloseIsOrdered, ShutWorkersAreQuiet
<1>11. NobodyOversleeps'
  BY <1>1, <1>2 DEF PoolIsOrdered, TypeOK, NobodyOversleeps, Found
<1> QED BY <1>6, <1>7, <1>8, <1>9, <1>10, <1>11 DEF PoolIsOrdered

\* A process exits, or close closes its worker.
LEMMA WorkerOrdered ==
  ASSUME PoolIsOrdered, NEW w \in Workers, Exit(w) \/ CloseWorker(w)
  PROVE  PoolIsOrdered'
<1>1. /\ available' = available /\ closed' = closed /\ has' = has /\ wants' = wants
      /\ pc' = pc /\ lock' = lock
  BY DEF Exit, CloseWorker
<1>2. TypeOK'
  BY <1>1 DEF Exit, CloseWorker, PoolIsOrdered, TypeOK
<1>3. QueuedOnce' /\ WorkersAreAccountedFor'
  BY <1>1, QueueStays
<1>4. HoldersHaveWorkers' /\ LocksAreHeld' /\ NobodyOversleeps'
  BY <1>1 DEF PoolIsOrdered, HoldersHaveWorkers, LocksAreHeld, NobodyOversleeps, Found
<1>5. CloseIsOrdered' /\ ShutWorkersAreQuiet'
  BY <1>1 DEF Exit, CloseWorker, PoolIsOrdered, TypeOK, CloseIsOrdered, ShutWorkersAreQuiet
<1> QED BY <1>2, <1>3, <1>4, <1>5 DEF PoolIsOrdered

\* The pool is closed, and everybody wakes up.
LEMMA CloseOrdered ==
  ASSUME PoolIsOrdered, Close
  PROVE  PoolIsOrdered'
<1>1. /\ available' = available /\ ~ closed /\ closed' = TRUE /\ has' = has /\ wants' = wants
      /\ lock' = lock /\ process' = process /\ shut' = shut /\ toClose' = Workers
  BY DEF Close, workers
<1>2. /\ pc' \in [Threads -> {"idle", "looking", "asleep", "late", "holding", "requesting",
                              "raised"}]
      /\ \A u \in Threads : pc'[u] = IF pc[u] = "asleep" THEN "looking" ELSE pc[u]
  BY DEF Close, Awake, PoolIsOrdered, TypeOK
<1>3. TypeOK'
  BY <1>1, <1>2 DEF PoolIsOrdered, TypeOK
<1>4. QueuedOnce' /\ WorkersAreAccountedFor'
  BY <1>1, QueueStays
<1>5. HoldersHaveWorkers' /\ LocksAreHeld' /\ NobodyOversleeps'
  BY <1>1, <1>2 DEF PoolIsOrdered, HoldersHaveWorkers, LocksAreHeld, NobodyOversleeps
<1>6. CloseIsOrdered' /\ ShutWorkersAreQuiet'
  BY <1>1 DEF PoolIsOrdered, CloseIsOrdered, ShutWorkersAreQuiet
<1> QED BY <1>3, <1>4, <1>5, <1>6 DEF PoolIsOrdered

\* At every moment the queue, the checkouts, the locks and the processes fit together.
THEOREM PoolStaysOrdered == Spec => []PoolIsOrdered
<1>1. Init => PoolIsOrdered
  BY InitOrdered
<1>2. PoolIsOrdered /\ [Next]_vars => PoolIsOrdered'
  <2> SUFFICES ASSUME PoolIsOrdered, [Next]_vars PROVE PoolIsOrdered'
    OBVIOUS
  <2>1. CASE UNCHANGED vars
    BY <2>1 DEF vars, PoolIsOrdered, TypeOK, QueuedOnce, HoldersHaveWorkers, LocksAreHeld,
       CloseIsOrdered, WorkersAreAccountedFor, Held, ShutWorkersAreQuiet, NobodyOversleeps, Found
  <2> QED BY <2>1, AcquireOrdered, ReleaseOrdered, WaitingOrdered, RequestOrdered, WorkerOrdered,
             CloseOrdered DEF Next, Look
<1> QED BY <1>1, <1>2, PTL DEF Spec

\* No worker is lost, shared or left behind: _acquire_worker, _release_worker, close.
THEOREM PoolAlwaysInvariant == Spec => []PoolInvariant
BY PoolStaysOrdered, PTL DEF PoolIsOrdered, PoolInvariant

\* Nobody sleeps although the worker it waits for is there, or the pool is closed:
\* every release, and close, notifies all.
THEOREM SleepersAreWoken == Spec => []NobodyOversleeps
BY PoolStaysOrdered, PTL DEF PoolIsOrdered

-----------------------------------------------------------------------------
(***************************************************************************)
(* OptBackend.  The inductive invariant.                                   *)
(***************************************************************************)
\* A path is cached once.
CacheIsDistinct ==
  \A i, j \in DOMAIN cache : cache[i].path = cache[j].path => i = j

\* Nothing comes from a process that has not begun.
GenerationsHaveBegun ==
  /\ ~ alive => generation < MaxStarts
  /\ alive => generation >= 1
  /\ \A e \in ToSet(cache) : e.generation <= generation /\ e.signature = e.handle
  /\ \A r \in Results : result[r].generation <= generation
                        /\ (result[r].owned => result[r].handle # None)

\* What the call under way was asked.
CallIsAsked ==
  /\ call.at = "idle" <=> call = NoCall
  /\ call.at # "idle" => answer = NoAnswer /\ call.op # "none" /\ call.source # None
  /\ call.op \in {"run", "from"} =>
       /\ call.pass # None /\ call.out # None /\ call.target # None
       /\ ~ result[call.target].owned
  /\ call.op = "run" => call.path # None /\ call.path # call.out
                        /\ call.source = file[call.path]
  /\ call.op \in {"from", "materialize", "release"} =>
       /\ call.parent # None /\ call.source = result[call.parent].handle
       /\ call.path = None
  /\ call.op = "materialize" => call.out # None /\ call.pass = None
  /\ call.op \in {"from", "release"} => result[call.parent].owned

\* Where it is, and the module it works on.
CallIsUnderWay ==
  /\ call.at = "load" => call.op = "run"
  /\ call.at = "check" => call.op \in {"from", "materialize", "release"}
  /\ call.at \in {"materialize", "release"} => call.op = call.at
  /\ call.at = "apply" => call.op \in {"run", "from"}
  /\ call.at \in {"materialize", "release", "apply"} => call.handle = call.source
  /\ call.at = "rollback" => call.op \in {"run", "from"} /\ call.handle # None /\ call.loss # "none"
  /\ call.at = "discard" => call.drop # None
  /\ call.at \notin {"idle", "load", "check"} => generation >= 1

\* The module it caches is the one in the file, and the right one.
CallIsCaching ==
  call.at \in {"remember", "discard"} =>
    /\ call.op \in {"run", "from", "materialize"}
    /\ call.onto # None /\ call.handle # None /\ call.onto \in {call.path, call.out}
    /\ call.op = "from" => call.onto = call.out
    /\ file[call.onto] = call.handle
    /\ call.onto = call.out /\ call.op # "materialize" => call.handle = call.pass[call.source]
    /\ call.onto # call.out \/ call.op = "materialize" => call.handle = call.source

CallIsConsistent == CallIsAsked /\ CallIsUnderWay /\ CallIsCaching

\* A process that is gone was not seen to go: its successor is torn.
DeathsAreTorn ==
  ~ alive /\ call.at \in {"remember", "discard", "apply", "materialize", "release"} =>
    generation + 1 \in torn

CountingFor(E, h, g) == {e \in E : e.handle = h /\ e.generation = g}
Exchanged(E, gone, e) == (E \ gone) \cup {e}
Holding(h) == CountingFor(ToSet(cache), h, Generation)
Owning(h) == {r \in Results : result[r].owned /\ result[r].handle = h
                                /\ result[r].generation = Generation}
Pending(h) ==
  IF \/ call.at = "remember" /\ ReferenceOwned /\ call.handle = h
     \/ call.at = "discard" /\ call.drop = h
     \/ call.at = "rollback" /\ alive /\ call.handle = h
    THEN 1 ELSE 0

All(h) == Cardinality(Holding(h)) + Cardinality(Owning(h)) + Pending(h)

IsBalanced(h) ==
  /\ IsFiniteSet(Owning(h))
  /\ References[h] <= All(h) + Stranded[h]
  /\ Generation \notin torn => References[h] >= All(h) + Stranded[h]

Balanced == \A h \in Modules : IsBalanced(h)

\* the module of the call is held
HandleIsHeld ==
  Generation \notin torn =>
    /\ call.at = "apply" /\ call.op = "run" => Holding(call.handle) # {}
    /\ call.at = "discard" /\ call.onto # call.out => Holding(call.handle) # {}
    /\ call.at \in {"apply", "materialize", "release"} /\ call.op \in {"from", "release"}
         => call.parent \in Owning(call.handle)
BackendIsConsistent ==
  /\ BackendTypeOK /\ CacheIsDistinct /\ GenerationsHaveBegun
  /\ CallIsConsistent /\ DeathsAreTorn
  /\ Balanced /\ HandleIsHeld
  /\ ResultsAreRight /\ HandlesAreKnown

-----------------------------------------------------------------------------
(* The path cache.                                                         *)

\* The entries of a cache are for different paths.
PathsDiffer(c) == \A i, j \in 1..Len(c) : c[i].path = c[j].path => i = j

\* A cache as a sequence and as a set.
LEMMA DistinctCache ==
  ASSUME cache \in Seq(Entries)
  PROVE  /\ CacheIsDistinct <=> PathsDiffer(cache)
         /\ DOMAIN cache = 1..Len(cache)
         /\ \A e : e \in ToSet(cache) <=> \E i \in 1..Len(cache) : cache[i] = e
         /\ \A e \in ToSet(cache) : e \in Entries
<1>1. DOMAIN cache = 1..Len(cache)
  OBVIOUS
<1>2. \A e : e \in ToSet(cache) <=> \E i \in 1..Len(cache) : cache[i] = e
  BY ToSetIs
<1>3. \A e \in ToSet(cache) : e \in Entries
  BY <1>2
<1> QED BY <1>1, <1>2, <1>3 DEF CacheIsDistinct, PathsDiffer

\* The cache without the entry of a path.
LEMMA WithoutPath ==
  ASSUME cache \in Seq(Entries), CacheIsDistinct, NEW p
  PROVE  /\ Without(p) \in Seq(Entries) /\ PathsDiffer(Without(p))
         /\ ToSet(Without(p)) = ToSet(cache) \ EntriesOf(p)
         /\ Len(Without(p)) = IF EntriesOf(p) = {} THEN Len(cache) ELSE Len(cache) - 1
         /\ EntriesOf(p) # {} => /\ cache[Place(p)] \in Entries /\ cache[Place(p)].path = p
                                 /\ EntriesOf(p) = {cache[Place(p)]}
<1>1. /\ PathsDiffer(cache) /\ DOMAIN cache = 1..Len(cache)
      /\ \A e : e \in ToSet(cache) <=> \E i \in 1..Len(cache) : cache[i] = e
  BY DistinctCache
<1>2. CASE EntriesOf(p) = {}
  BY <1>1, <1>2 DEF Without
<1>3. CASE EntriesOf(p) # {}
  <2>1. \E i \in 1..Len(cache) : cache[i].path = p
    BY <1>1, <1>3 DEF EntriesOf
  <2>2. Place(p) \in 1..Len(cache) /\ cache[Place(p)].path = p
    BY <1>1, <2>1 DEF Place
  <2> DEFINE k == Place(p)
  <2> DEFINE r == RemoveAt(cache, k)
  <2>3. Without(p) = r
    BY <1>3 DEF Without
  <2>4. EntriesOf(p) = {cache[k]}
    <3>1. \A e \in EntriesOf(p) : e = cache[k]
      BY <1>1, <2>2 DEF EntriesOf, PathsDiffer
    <3>2. cache[k] \in EntriesOf(p)
      BY <1>1, <2>2 DEF EntriesOf
    <3> QED BY <3>1, <3>2
  <2> HIDE DEF k
  <2>5. k \in 1..Len(cache) /\ cache[k].path = p /\ cache[k] \in Entries
    BY <2>2 DEF k
  <2>6. \A i, j \in 1..Len(cache) : cache[i] = cache[j] => i = j
    BY <1>1 DEF PathsDiffer
  <2>7. ToSet(r) = ToSet(cache) \ {cache[k]}
    BY <2>5, <2>6, WithoutOne
  <2>8. /\ r \in Seq(Entries) /\ Len(r) = Len(cache) - 1
        /\ \A i \in 1..(Len(cache) - 1) : r[i] = IF i < k THEN cache[i] ELSE cache[i + 1]
    BY <2>5, RemoveAtIs
  <2> HIDE DEF r
  <2>9. PathsDiffer(r)
    <3> SUFFICES ASSUME NEW i \in 1..Len(r), NEW j \in 1..Len(r), r[i].path = r[j].path
                 PROVE  i = j
      BY DEF PathsDiffer
    <3>1. PICK a \in 1..Len(cache) : r[i] = cache[a] /\ a = IF i < k THEN i ELSE i + 1
      BY <2>8, <2>5
    <3>2. PICK b \in 1..Len(cache) : r[j] = cache[b] /\ b = IF j < k THEN j ELSE j + 1
      BY <2>8, <2>5
    <3>3. a = b
      BY <1>1, <3>1, <3>2 DEF PathsDiffer
    <3> QED BY <3>1, <3>2, <3>3, <2>5
  <2> QED BY <1>3, <2>3, <2>4, <2>5, <2>7, <2>8, <2>9 DEF k
<1> QED BY <1>2, <1>3

\* A new entry at the end of a cache that has none of its path.
LEMMA WithEntry ==
  ASSUME NEW c \in Seq(Entries), PathsDiffer(c), NEW e \in Entries,
         \A x \in ToSet(c) : x.path # e.path
  PROVE  /\ Append(c, e) \in Seq(Entries) /\ PathsDiffer(Append(c, e))
         /\ ToSet(Append(c, e)) = ToSet(c) \cup {e} /\ Len(Append(c, e)) = Len(c) + 1
<1> DEFINE r == Append(c, e)
<1>1. \A i, j \in 1..Len(c) : c[i] = c[j] => i = j
  BY DEF PathsDiffer
<1>2. e \notin ToSet(c)
  OBVIOUS
<1>3. ToSet(r) = ToSet(c) \cup {e}
  BY <1>1, <1>2, WithOneMore
<1>4. /\ r \in Seq(Entries) /\ Len(r) = Len(c) + 1 /\ r[Len(c) + 1] = e
      /\ \A i \in 1..Len(c) : r[i] = c[i] /\ r[i].path # e.path
  BY ToSetIs
<1> HIDE DEF r
<1>5. PathsDiffer(r)
  BY <1>4 DEF PathsDiffer
<1> QED BY <1>3, <1>4, <1>5 DEF r

\* A cache without its least recently used entry.
LEMMA WithoutHead ==
  ASSUME NEW c \in Seq(Entries), PathsDiffer(c), c # << >>
  PROVE  /\ Tail(c) \in Seq(Entries) /\ PathsDiffer(Tail(c))
         /\ Head(c) \in ToSet(c) /\ ToSet(Tail(c)) = ToSet(c) \ {Head(c)}
         /\ Len(Tail(c)) = Len(c) - 1
<1> DEFINE r == Tail(c)
<1>1. /\ r \in Seq(Entries) /\ Len(r) = Len(c) - 1 /\ Len(c) >= 1 /\ Head(c) = c[1]
      /\ \A i \in 1..(Len(c) - 1) : r[i] = c[i + 1]
  OBVIOUS
<1>2. Head(c) \in ToSet(c)
  BY <1>1, ToSetIs
<1> HIDE DEF r
<1>3. PathsDiffer(r)
  BY <1>1 DEF PathsDiffer
<1>4. ASSUME NEW e PROVE e \in ToSet(r) <=> e \in ToSet(c) \ {Head(c)}
  <2>1. e \in ToSet(r) <=> \E i \in 1..Len(r) : r[i] = e
    BY <1>1, ToSetIs
  <2>2. e \in ToSet(c) <=> \E i \in 1..Len(c) : c[i] = e
    BY ToSetIs
  <2>3. \A i \in 1..Len(c) : c[i] = c[1] => i = 1
    BY <1>1 DEF PathsDiffer
  <2>4. ASSUME NEW i \in 1..Len(c), c[i] = e, i # 1 PROVE \E j \in 1..Len(r) : r[j] = e
    <3>1. i - 1 \in 1..(Len(c) - 1) /\ (i - 1) + 1 = i
      BY <2>4
    <3>2. r[i - 1] = c[i]
      BY <1>1, <3>1
    <3> QED BY <1>1, <2>4, <3>1, <3>2
  <2>5. ASSUME NEW i \in 1..Len(r), r[i] = e PROVE \E j \in 1..Len(c) : c[j] = e /\ j # 1
    <3>1. i + 1 \in 1..Len(c) /\ i + 1 # 1
      BY <1>1
    <3> QED BY <1>1, <2>5, <3>1
  <2> QED BY <1>1, <2>1, <2>2, <2>3, <2>4, <2>5
<1> QED BY <1>1, <1>2, <1>3, <1>4 DEF r

\* A path that is looked up becomes the most recently used one.
LEMMA TouchedPath ==
  ASSUME cache \in Seq(Entries), CacheIsDistinct, NEW p
  PROVE  /\ Touched(p) \in Seq(Entries) /\ PathsDiffer(Touched(p))
         /\ ToSet(Touched(p)) = ToSet(cache) /\ Len(Touched(p)) = Len(cache)
<1>1. CASE EntriesOf(p) = {}
  BY <1>1, DistinctCache DEF Touched
<1>2. CASE EntriesOf(p) # {}
  <2> DEFINE e == cache[Place(p)]
  <2>1. /\ Without(p) \in Seq(Entries) /\ PathsDiffer(Without(p))
        /\ ToSet(Without(p)) = ToSet(cache) \ {e} /\ Len(Without(p)) = Len(cache) - 1
        /\ e \in Entries /\ e.path = p /\ EntriesOf(p) = {e}
    BY <1>2, WithoutPath
  <2>2. Touched(p) = Append(Without(p), e)
    BY <1>2 DEF Touched
  <2> HIDE DEF e
  <2>3. e \in ToSet(cache) /\ \A x \in ToSet(cache) : x.path = p => x = e
    BY <2>1 DEF EntriesOf
  <2>4. \A x \in ToSet(Without(p)) : x.path # e.path
    BY <2>1, <2>3
  <2>5. /\ Touched(p) \in Seq(Entries) /\ PathsDiffer(Touched(p))
        /\ ToSet(Touched(p)) = ToSet(Without(p)) \cup {e} /\ Len(Touched(p)) = Len(Without(p)) + 1
    BY <2>1, <2>2, <2>4, WithEntry
  <2>6. Len(cache) \in Nat
    OBVIOUS
  <2> QED BY <2>1, <2>3, <2>5, <2>6
<1> QED BY <1>1, <1>2

\* A new entry takes the place of that of its path.
LEMMA Replaced ==
  ASSUME cache \in Seq(Entries), CacheIsDistinct, NEW e \in Entries
  PROVE  /\ Append(Without(e.path), e) \in Seq(Entries)
         /\ PathsDiffer(Append(Without(e.path), e))
         /\ ToSet(Append(Without(e.path), e)) = (ToSet(cache) \ EntriesOf(e.path)) \cup {e}
         /\ Len(Append(Without(e.path), e)) =
              IF EntriesOf(e.path) = {} THEN Len(cache) + 1 ELSE Len(cache)
<1>1. /\ Without(e.path) \in Seq(Entries) /\ PathsDiffer(Without(e.path))
      /\ ToSet(Without(e.path)) = ToSet(cache) \ EntriesOf(e.path)
      /\ Len(Without(e.path)) = IF EntriesOf(e.path) = {} THEN Len(cache) ELSE Len(cache) - 1
  BY WithoutPath
<1>2. \A x \in ToSet(Without(e.path)) : x.path # e.path
  BY <1>1 DEF EntriesOf
<1>3. Len(cache) \in Nat
  OBVIOUS
<1> QED BY <1>1, <1>2, <1>3, WithEntry

\* The entries of one path are at most one.
LEMMA OneEntry ==
  ASSUME cache \in Seq(Entries), CacheIsDistinct, NEW p
  PROVE  /\ EntriesOf(p) \subseteq ToSet(cache)
         /\ \A x, y \in EntriesOf(p) : x = y
<1>1. EntriesOf(p) \subseteq ToSet(cache)
  BY DEF EntriesOf
<1>2. EntriesOf(p) # {} => EntriesOf(p) = {cache[Place(p)]}
  BY WithoutPath
<1> HIDE DEF EntriesOf
<1>3. \A x, y \in EntriesOf(p) : x = y
  BY <1>2
<1> QED BY <1>1, <1>3

\* A new entry takes the place of that of its path, or of the least recently used one.
LEMMA PutEntry ==
  ASSUME cache \in Seq(Entries), CacheIsDistinct, Len(cache) <= MaxCached, NEW e \in Entries
  PROVE  /\ Append(Remaining(e.path), e) \in Seq(Entries)
         /\ PathsDiffer(Append(Remaining(e.path), e))
         /\ Len(Append(Remaining(e.path), e)) <= MaxCached
         /\ ToSet(Append(Remaining(e.path), e)) = Exchanged(ToSet(cache), Evicted(e.path), e)
         /\ Evicted(e.path) \subseteq ToSet(cache) /\ \A x, y \in Evicted(e.path) : x = y
         /\ \A x \in ToSet(cache) \ Evicted(e.path) : x.path # e.path
<1> DEFINE rest == Without(e.path)
<1> DEFINE gone == Evicted(e.path)
<1> DEFINE new == Append(Remaining(e.path), e)
<1>0. /\ gone = EntriesOf(e.path) \cup (IF IsFull(rest) THEN {Head(rest)} ELSE {})
      /\ new = Append(IF IsFull(rest) THEN Tail(rest) ELSE rest, e)
  BY DEF Evicted, Remaining
<1>1. /\ rest \in Seq(Entries) /\ PathsDiffer(rest)
      /\ ToSet(rest) = ToSet(cache) \ EntriesOf(e.path)
      /\ Len(rest) = IF EntriesOf(e.path) = {} THEN Len(cache) ELSE Len(cache) - 1
  BY WithoutPath
<1> SUFFICES
      /\ new \in Seq(Entries) /\ PathsDiffer(new) /\ Len(new) <= MaxCached
      /\ ToSet(new) = (ToSet(cache) \ gone) \cup {e}
      /\ gone \subseteq ToSet(cache) /\ \A x, y \in gone : x = y
      /\ \A x \in ToSet(cache) \ gone : x.path # e.path
  BY DEF Exchanged
<1> HIDE DEF rest, gone, new
<1>2. MaxCached \in Nat /\ MaxCached >= 1 /\ Len(cache) \in Nat
  BY BackendAssumption
<1>3. /\ EntriesOf(e.path) \subseteq ToSet(cache)
      /\ \A x, y \in EntriesOf(e.path) : x = y
      /\ \A x \in ToSet(rest) : x.path # e.path
  BY <1>1, OneEntry DEF EntriesOf
<1>4. CASE ~ IsFull(rest)
  <2>1. Len(rest) < MaxCached
    BY <1>1, <1>2, <1>4 DEF IsFull
  <2>2. new = Append(rest, e) /\ gone = EntriesOf(e.path)
    BY <1>0, <1>4
  <2>3. new \in Seq(Entries) /\ PathsDiffer(new) /\ ToSet(new) = ToSet(rest) \cup {e}
        /\ Len(new) = Len(rest) + 1
    <3> HIDE DEF EntriesOf
    <3>1. Append(rest, e) \in Seq(Entries) /\ PathsDiffer(Append(rest, e))
          /\ ToSet(Append(rest, e)) = ToSet(rest) \cup {e}
          /\ Len(Append(rest, e)) = Len(rest) + 1
      BY <1>1, <1>3, WithEntry
    <3> QED BY <2>2, <3>1
  <2> QED BY <1>1, <1>2, <1>3, <2>1, <2>2, <2>3
<1>5. CASE IsFull(rest)
  <2>1. Len(rest) = MaxCached /\ rest # << >> /\ EntriesOf(e.path) = {}
    BY <1>1, <1>2, <1>5 DEF IsFull
  <2>2. /\ Tail(rest) \in Seq(Entries) /\ PathsDiffer(Tail(rest))
        /\ Head(rest) \in ToSet(rest) /\ ToSet(Tail(rest)) = ToSet(rest) \ {Head(rest)}
        /\ Len(Tail(rest)) = Len(rest) - 1
    BY <1>1, <2>1, WithoutHead
  <2>3. new = Append(Tail(rest), e) /\ gone = {Head(rest)}
    BY <1>0, <1>5, <2>1
  <2>4. \A x \in ToSet(Tail(rest)) : x.path # e.path
    BY <1>3, <2>2
  <2>5. new \in Seq(Entries) /\ PathsDiffer(new) /\ ToSet(new) = ToSet(Tail(rest)) \cup {e}
        /\ Len(new) = Len(Tail(rest)) + 1
    <3>1. Append(Tail(rest), e) \in Seq(Entries) /\ PathsDiffer(Append(Tail(rest), e))
          /\ ToSet(Append(Tail(rest), e)) = ToSet(Tail(rest)) \cup {e}
          /\ Len(Append(Tail(rest), e)) = Len(Tail(rest)) + 1
      BY <2>2, <2>4, WithEntry
    <3> QED BY <2>3, <3>1
  <2> QED BY <1>1, <1>2, <1>3, <2>1, <2>2, <2>3, <2>5
<1> QED BY <1>4, <1>5

\* How many count when one entry has come and at most one has gone.
LEMMA ReplacedCount ==
  ASSUME NEW E, IsFiniteSet(E), NEW gone \in SUBSET E, \A x, y \in gone : x = y,
         NEW e, e \notin E \ gone, NEW h, NEW g
  PROVE  /\ Cardinality(CountingFor(E, h, g)) \in Nat
         /\ CountingFor(gone, h, g) # {} => Cardinality(CountingFor(E, h, g)) >= 1
         /\ Cardinality(CountingFor(Exchanged(E, gone, e), h, g)) =
              Cardinality(CountingFor(E, h, g))
                - (IF CountingFor(gone, h, g) # {} THEN 1 ELSE 0)
                + (IF e.handle = h /\ e.generation = g THEN 1 ELSE 0)
<1> DEFINE C == CountingFor(E, h, g)
<1> DEFINE L == CountingFor(E \ gone, h, g)
<1>1. IsFiniteSet(C) /\ Cardinality(C) \in Nat
  <2>1. C \in SUBSET E
    BY DEF CountingFor
  <2> QED BY <2>1, FS_Subset, FS_CardinalityType
<1>2. /\ IsFiniteSet(L)
      /\ Cardinality(L) = Cardinality(C) - (IF CountingFor(gone, h, g) # {} THEN 1 ELSE 0)
      /\ Cardinality(L) \in Nat
  <2>1. CASE CountingFor(gone, h, g) = {}
    <3>1. L = C
      BY <2>1 DEF CountingFor
    <3> QED BY <1>1, <2>1, <3>1
  <2>2. CASE CountingFor(gone, h, g) # {}
    <3>1. PICK x \in gone : x.handle = h /\ x.generation = g
      BY <2>2 DEF CountingFor
    <3>2. L = C \ {x} /\ x \in C
      BY <3>1 DEF CountingFor
    <3> HIDE DEF C, L
    <3>3. IsFiniteSet(L) /\ Cardinality(L) = Cardinality(C) - 1
      BY <1>1, <3>2, FS_RemoveElement
    <3> QED BY <1>1, <2>2, <3>3, FS_CardinalityType
  <2> QED BY <2>1, <2>2
<1>3. CASE e.handle = h /\ e.generation = g
  <2>1. CountingFor(Exchanged(E, gone, e), h, g) = L \cup {e} /\ e \notin L
    BY <1>3 DEF CountingFor, Exchanged
  <2> HIDE DEF L
  <2>2. Cardinality(L \cup {e}) = Cardinality(L) + 1
    BY <1>2, <2>1, FS_AddElement
  <2>3. Cardinality(C) - (IF CountingFor(gone, h, g) # {} THEN 1 ELSE 0) >= 0
    BY <1>2
  <2>4. Cardinality(CountingFor(Exchanged(E, gone, e), h, g)) = Cardinality(L) + 1
    BY <2>1, <2>2
  <2> QED BY <1>1, <1>2, <1>3, <2>3, <2>4
<1>4. CASE ~ (e.handle = h /\ e.generation = g)
  <2>1. CountingFor(Exchanged(E, gone, e), h, g) = L
    BY <1>4 DEF CountingFor, Exchanged
  <2> HIDE DEF L
  <2>2. Cardinality(C) - (IF CountingFor(gone, h, g) # {} THEN 1 ELSE 0) >= 0
    BY <1>2
  <2> QED BY <1>1, <1>2, <1>4, <2>1, <2>2
<1> QED BY <1>3, <1>4

\* A cache is a finite set of entries.
LEMMA CacheIsFinite ==
  ASSUME NEW V, NEW c \in Seq(V)
  PROVE  IsFiniteSet(ToSet(c))
<1> DEFINE f == [i \in 1..Len(c) |-> c[i]]
<1>1. IsFiniteSet(1..Len(c))
  BY FS_Interval
<1>2. f \in Surjection(1..Len(c), ToSet(c))
  BY ToSetIs DEF Surjection
<1> HIDE DEF f
<1> QED BY <1>1, <1>2, FS_Surjection

-----------------------------------------------------------------------------
(* What a request and an error do.                                         *)

\* A request is answered.
LEMMA AnsweredIs ==
  ASSUME BackendTypeOK, GenerationsHaveBegun, NEW counts, NEW unheld, Answered(counts, unheld)
  PROVE  /\ alive' = TRUE /\ refs' = counts /\ torn' = torn /\ References' = counts
         /\ stranded' = unheld /\ Stranded' = unheld
         /\ generation' = Generation /\ Generation' = Generation /\ Generation \in 1..MaxStarts
         /\ Generation >= generation /\ (alive => Generation = generation)
BY BackendAssumption DEF BackendTypeOK, GenerationsHaveBegun, Answered, Generation, References,
   Stranded

\* The same for a request that leaves no output behind.
LEMMA RepliedIs ==
  ASSUME BackendTypeOK, GenerationsHaveBegun, NEW counts, Replied(counts)
  PROVE  /\ alive' = TRUE /\ refs' = counts /\ torn' = torn /\ References' = counts
         /\ Stranded' = Stranded
         /\ generation' = Generation /\ Generation' = Generation /\ Generation \in 1..MaxStarts
         /\ Generation >= generation /\ (alive => Generation = generation)
BY BackendAssumption DEF BackendTypeOK, GenerationsHaveBegun, Replied, Answered, Generation,
   References, Stranded

\* A request is lost.
LEMMA LostIs ==
  ASSUME BackendTypeOK, GenerationsHaveBegun, Lost
  PROVE  /\ alive' = FALSE /\ refs' = Empty /\ torn' = torn /\ References' = Empty
         /\ stranded' = Empty
         /\ generation' = Generation /\ Generation' = Generation + 1
         /\ Generation \in 1..MaxStarts /\ Generation < MaxStarts /\ Generation >= generation
BY BackendAssumption DEF BackendTypeOK, GenerationsHaveBegun, Lost, Generation, References

\* Counts are numbers.
LEMMA CountsAre ==
  ASSUME BackendTypeOK
  PROVE  /\ References \in [Modules -> Nat] /\ Empty \in [Modules -> Nat]
         /\ Stranded \in [Modules -> Nat]
         /\ \A h \in Modules : /\ Interned(h) \in [Modules -> Nat]
                               /\ Dropped(h) \in [Modules -> Nat]
<1>1. /\ References \in [Modules -> Nat] /\ Empty \in [Modules -> Nat]
      /\ Stranded \in [Modules -> Nat]
  BY DEF BackendTypeOK, References, Stranded, Empty
<1>2. ASSUME NEW h \in Modules
      PROVE  Interned(h) \in [Modules -> Nat] /\ Dropped(h) \in [Modules -> Nat]
  <2>1. References[h] \in Nat
    BY <1>1
  <2>2. References[h] + 1 \in Nat /\ (IF References[h] > 0 THEN References[h] - 1 ELSE 0) \in Nat
    BY <2>1
  <2> HIDE DEF References
  <2> QED BY <1>1, <2>2 DEF Interned, Dropped
<1> QED BY <1>1, <1>2

\* The process stays well typed, whatever happens to it.
LEMMA ProcessTyped ==
  ASSUME BackendTypeOK, GenerationsHaveBegun,
         Lost \/ \E counts, unheld \in [Modules -> Nat] : Answered(counts, unheld)
  PROVE  /\ alive' \in BOOLEAN /\ generation' \in 0..MaxStarts /\ torn' \subseteq 1..MaxStarts
         /\ refs' \in [Modules -> Nat] /\ stranded' \in [Modules -> Nat]
         /\ ~ alive' => generation' < MaxStarts
         /\ generation' >= 1 /\ generation' >= generation /\ generation' = Generation
<1>0. /\ torn \subseteq 1..MaxStarts /\ generation \in 0..MaxStarts /\ MaxStarts \in Nat
      /\ Empty \in [Modules -> Nat]
  BY BackendAssumption, CountsAre DEF BackendTypeOK
<1>1. CASE Lost
  <2>1. /\ alive' = FALSE /\ refs' = Empty /\ torn' = torn /\ generation' = Generation
        /\ stranded' = Empty
        /\ Generation \in 1..MaxStarts /\ Generation < MaxStarts /\ Generation >= generation
    BY <1>1, LostIs
  <2>2. /\ alive' \in BOOLEAN /\ torn' \subseteq 1..MaxStarts
        /\ refs' \in [Modules -> Nat] /\ stranded' \in [Modules -> Nat]
    BY <1>0, <2>1
  <2>3. generation' \in 0..MaxStarts /\ generation' >= 1 /\ generation' >= generation
        /\ generation' = Generation /\ generation' < MaxStarts
    BY <1>0, <2>1
  <2> QED BY <2>2, <2>3
<1>2. ASSUME NEW counts \in [Modules -> Nat], NEW unheld \in [Modules -> Nat],
             Answered(counts, unheld)
      PROVE  /\ alive' \in BOOLEAN /\ generation' \in 0..MaxStarts /\ torn' \subseteq 1..MaxStarts
             /\ refs' \in [Modules -> Nat] /\ stranded' \in [Modules -> Nat]
             /\ ~ alive' => generation' < MaxStarts
             /\ generation' >= 1 /\ generation' >= generation /\ generation' = Generation
  <2>1. /\ alive' = TRUE /\ refs' = counts /\ torn' = torn /\ generation' = Generation
        /\ stranded' = unheld /\ Generation \in 1..MaxStarts /\ Generation >= generation
    BY <1>2, AnsweredIs
  <2> QED BY <1>0, <2>1
<1> QED BY <1>1, <1>2

\* A call that raises ends, or begins again.
LEMMA RaisedIs ==
  ASSUME BackendTypeOK, CallIsConsistent, call.at # "idle", NEW loss \in Losses, Raise(loss)
  PROVE  \/ /\ call' = NoCall
            /\ answer' = [kind |-> IF call.op = "run" /\ loss = "fatal"
                                   THEN "llvm_fatal" ELSE "error",
                          pass |-> None, source |-> None, handle |-> None]
         \/ /\ call.op = "run" /\ answer' = answer
            /\ call' = [call EXCEPT !.at = "load", !.attempt = 1, !.handle = None, !.onto = None,
                                    !.drop = None, !.loss = "none"]
BY DEF Raise, Return, Losses, NoAnswer

\* The fields of a call.
LEMMA CallFields ==
  DOMAIN NoCall = {"at", "op", "attempt", "path", "out", "pass", "materialize", "target",
                   "parent", "source", "handle", "onto", "drop", "loss"}
BY DEF NoCall

\* What a call that raises leaves is well typed.
LEMMA RaisedTyped ==
  ASSUME BackendTypeOK, CallIsConsistent, call.at # "idle", NEW loss \in Losses, Raise(loss)
  PROVE  IsCall(call') /\ answer' \in Answers
<1>1. IsCall(NoCall)
  BY DEF NoCall, IsCall
<1>2. IsCall([call EXCEPT !.at = "load", !.attempt = 1, !.handle = None, !.onto = None,
                                    !.drop = None, !.loss = "none"])
  BY CallFields DEF BackendTypeOK, IsCall
<1>3. \/ /\ call' = NoCall
         /\ answer' = [kind |-> IF call.op = "run" /\ loss = "fatal"
                                   THEN "llvm_fatal" ELSE "error",
                       pass |-> None, source |-> None, handle |-> None]
      \/ /\ answer' = answer
         /\ call' = [call EXCEPT !.at = "load", !.attempt = 1, !.handle = None, !.onto = None,
                                    !.drop = None, !.loss = "none"]
  BY RaisedIs
<1>4. \A k \in {"error", "llvm_fatal"} :
        [kind |-> k, pass |-> None, source |-> None, handle |-> None] \in Answers
  BY DEF BackendTypeOK, Answers, IsCall
<1> QED BY <1>1, <1>2, <1>3, <1>4 DEF BackendTypeOK

-----------------------------------------------------------------------------
(* What every step leaves of the process, the cache and the results.       *)

\* What every step leaves of the process, the cache and the results.
ProcessIsKept ==
  /\ alive' \in BOOLEAN /\ generation' \in 0..MaxStarts /\ torn' \subseteq 1..MaxStarts
  /\ refs' \in [Modules -> Nat] /\ stranded' \in [Modules -> Nat]
  /\ ~ alive' => generation' < MaxStarts
  /\ alive' => generation' >= 1
  /\ generation' >= generation

CacheIsKept ==
  /\ cache' \in Seq(Entries) /\ PathsDiffer(cache') /\ Len(cache') <= MaxCached
  /\ \A e \in ToSet(cache') :
       e \in ToSet(cache) \/ (e.generation <= generation' /\ e.signature = e.handle)

ResultsAreKept ==
  /\ result' \in [Results -> [handle : Modules \cup {None}, generation : 0..MaxStarts,
                              owned : BOOLEAN]]
  /\ \A r \in Results : \/ result'[r].generation <= generation
                        \/ result'[r].generation <= generation'
  /\ \A r \in Results : result'[r].owned => result'[r].handle # None

\* Every request does.
LEMMA ProcessKept ==
  ASSUME BackendTypeOK, GenerationsHaveBegun,
         \/ Lost
         \/ \E counts \in [Modules -> Nat] : Replied(counts)
         \/ \E counts, unheld \in [Modules -> Nat] : Answered(counts, unheld)
         \/ UNCHANGED worker
  PROVE  ProcessIsKept
<1>0. Stranded \in [Modules -> Nat]
  BY CountsAre
<1>1. CASE \/ Lost
           \/ \E counts \in [Modules -> Nat] : Replied(counts)
           \/ \E counts, unheld \in [Modules -> Nat] : Answered(counts, unheld)
  BY <1>0, <1>1, ProcessTyped DEF ProcessIsKept, Replied
<1>2. CASE UNCHANGED worker
  BY <1>2, BackendAssumption DEF BackendTypeOK, GenerationsHaveBegun, worker, ProcessIsKept
<1> QED BY <1>1, <1>2

\* A cache that is only looked up is kept.
LEMMA CacheKept ==
  ASSUME BackendTypeOK, CacheIsDistinct,
         cache' = cache \/ \E p : cache' = Touched(p)
  PROVE  CacheIsKept /\ ToSet(cache') = ToSet(cache)
<1>1. CASE cache' = cache
  <2>1. PathsDiffer(cache) /\ cache \in Seq(Entries) /\ Len(cache) <= MaxCached
    BY DistinctCache DEF BackendTypeOK
  <2> QED BY <1>1, <2>1 DEF CacheIsKept
<1>2. ASSUME NEW p, cache' = Touched(p)
      PROVE  CacheIsKept /\ ToSet(cache') = ToSet(cache)
  <2>1. cache \in Seq(Entries) /\ Len(cache) <= MaxCached
    BY DEF BackendTypeOK
  <2>2. /\ Touched(p) \in Seq(Entries) /\ PathsDiffer(Touched(p))
        /\ ToSet(Touched(p)) = ToSet(cache) /\ Len(Touched(p)) = Len(cache)
    BY <2>1, TouchedPath
  <2> QED BY <1>2, <2>1, <2>2 DEF CacheIsKept
<1> QED BY <1>1, <1>2

\* So are results that nobody touches.
LEMMA ResultsKept ==
  ASSUME BackendTypeOK, GenerationsHaveBegun, result' = result
  PROVE  ResultsAreKept
BY DEF BackendTypeOK, GenerationsHaveBegun, ResultsAreKept

\* The types, the cache and the generations, from what is kept.
LEMMA TypesKept ==
  ASSUME BackendTypeOK, CacheIsDistinct, GenerationsHaveBegun,
         ProcessIsKept, CacheIsKept, ResultsAreKept,
         file' \in [Paths -> Modules], IsCall(call'), answer' \in Answers
  PROVE  BackendTypeOK' /\ CacheIsDistinct' /\ GenerationsHaveBegun'
<1>1. BackendTypeOK'
  BY DEF BackendTypeOK, ProcessIsKept, CacheIsKept, ResultsAreKept
<1>2. CacheIsDistinct'
  <2>1. cache' \in Seq(Entries) /\ PathsDiffer(cache')
    BY DEF CacheIsKept
  <2>2. DOMAIN cache' = 1..Len(cache')
    BY <2>1
  <2> QED BY <2>1, <2>2 DEF CacheIsDistinct, PathsDiffer
<1>3. GenerationsHaveBegun'
  <2>1. generation \in Nat /\ generation' \in Nat /\ generation <= generation'
        /\ (~ alive' => generation' < MaxStarts) /\ (alive' => generation' >= 1)
    BY BackendAssumption DEF BackendTypeOK, ProcessIsKept
  <2>2. ASSUME NEW e \in ToSet(cache')
        PROVE  e.generation <= generation' /\ e.signature = e.handle
    <3>1. cache' \in Seq(Entries)
      BY DEF CacheIsKept
    <3>2. e \in Entries
      BY <3>1, ToSetIs
    <3>3. e.generation \in Nat
      BY <3>2 DEF Entries
    <3> QED BY <2>1, <3>3 DEF CacheIsKept, GenerationsHaveBegun
  <2>3. ASSUME NEW r \in Results
        PROVE  result'[r].generation <= generation'
               /\ (result'[r].owned => result'[r].handle # None)
    <3>1. result'[r].generation \in Nat
      BY BackendAssumption DEF ResultsAreKept
    <3> QED BY <2>1, <3>1 DEF ResultsAreKept
  <2> QED BY <2>1, <2>2, <2>3 DEF GenerationsHaveBegun
<1> QED BY <1>1, <1>2, <1>3

-----------------------------------------------------------------------------
(* How a call goes on or ends.                                             *)

\* No call, no obligation.
LEMMA EndedCall ==
  ASSUME call' = NoCall
  PROVE  CallIsConsistent' /\ DeathsAreTorn' /\ HandleIsHeld' /\ IsCall(call')
<1>1. call'.at = "idle" /\ call'.op = "none"
  BY DEF NoCall
<1>2. IsCall(call')
  BY DEF NoCall, IsCall
<1> QED BY <1>1, <1>2 DEF CallIsConsistent, CallIsAsked, CallIsUnderWay, CallIsCaching,
     DeathsAreTorn, HandleIsHeld

\* An answer that is no result and blames nobody.
LEMMA PlainAnswer ==
  ASSUME answer'.kind \notin {"result", "unknown_handle"}
  PROVE  ResultsAreRight' /\ HandlesAreKnown'
BY DEF ResultsAreRight, HandlesAreKnown

\* A call that goes on has not answered.
LEMMA NoAnswerYet ==
  ASSUME BackendIsConsistent, call.at # "idle", answer' = answer
  PROVE  answer' = NoAnswer /\ ResultsAreRight' /\ HandlesAreKnown' /\ answer' \in Answers
<1>1. answer = NoAnswer
  BY DEF BackendIsConsistent, CallIsConsistent, CallIsAsked, CallIsUnderWay, CallIsCaching
<1>2. answer'.kind = "none"
  BY <1>1 DEF NoAnswer
<1> QED BY <1>1, <1>2, PlainAnswer DEF BackendIsConsistent, BackendTypeOK

\* A call that raises, after whatever happened to the process.
LEMMA RaiseKeeps ==
  ASSUME BackendIsConsistent, call.at # "idle", NEW loss \in Losses, Raise(loss),
         ProcessIsKept, CacheIsKept, result' = result, file' \in [Paths -> Modules],
         call.op = "run" => file'[call.path] = file[call.path],
         Balanced'
  PROVE  BackendIsConsistent'
<1>0. /\ BackendTypeOK /\ CacheIsDistinct /\ GenerationsHaveBegun /\ CallIsConsistent
  BY DEF BackendIsConsistent
<1>1. BackendTypeOK' /\ CacheIsDistinct' /\ GenerationsHaveBegun'
  BY <1>0, TypesKept, ResultsKept, RaisedTyped
<1>2. CASE call' = NoCall
           /\ answer' = [kind |-> IF call.op = "run" /\ loss = "fatal"
                                   THEN "llvm_fatal" ELSE "error",
                         pass |-> None, source |-> None, handle |-> None]
  <2>1. ResultsAreRight' /\ HandlesAreKnown'
    BY <1>2, PlainAnswer
  <2> QED BY <1>1, <1>2, <2>1, EndedCall DEF BackendIsConsistent
<1>3. CASE call.op = "run" /\ answer' = answer
           /\ call' = [call EXCEPT !.at = "load", !.attempt = 1, !.handle = None, !.onto = None,
                                    !.drop = None, !.loss = "none"]
  <2>1. ResultsAreRight' /\ HandlesAreKnown' /\ answer' = NoAnswer
    BY <1>3, NoAnswerYet
  <2>2. /\ call'.at = "load" /\ call'.op = "run" /\ call'.path = call.path /\ call'.out = call.out
        /\ call'.pass = call.pass /\ call'.target = call.target /\ call'.source = call.source
    BY <1>0, <1>3, CallFields DEF BackendTypeOK, IsCall
  <2>3. CallIsConsistent'
    <3>1. call' # NoCall
      BY <2>2 DEF NoCall
    <3> QED BY <1>0, <1>3, <2>1, <2>2, <3>1 DEF CallIsConsistent, CallIsAsked, CallIsUnderWay,
         CallIsCaching
  <2>4. DeathsAreTorn' /\ HandleIsHeld'
    BY <2>2 DEF DeathsAreTorn, HandleIsHeld
  <2> QED BY <1>1, <2>1, <2>3, <2>4 DEF BackendIsConsistent
<1> QED BY <1>0, <1>2, <1>3, RaisedIs

-----------------------------------------------------------------------------
(* The balance of the counts.                                              *)

\* A process that has not begun holds nothing.
LEMMA NothingIsFresh ==
  BackendTypeOK /\ GenerationsHaveBegun /\ ~ alive =>
    \A h \in Modules : Holding(h) = {} /\ Owning(h) = {}
<1> SUFFICES ASSUME BackendTypeOK, GenerationsHaveBegun, ~ alive, NEW h \in Modules
             PROVE  Holding(h) = {} /\ Owning(h) = {}
  OBVIOUS
<1>1. Generation = generation + 1 /\ generation \in Nat
  BY BackendAssumption DEF BackendTypeOK, Generation
<1>2. \A e \in ToSet(cache) : e.generation <= generation
  BY DEF GenerationsHaveBegun
<1>3. \A r \in Results : result[r].generation <= generation
  BY DEF GenerationsHaveBegun
<1>4. Holding(h) = {}
  BY <1>1, <1>2 DEF Holding, CountingFor
<1>5. Owning(h) = {}
  BY <1>1, <1>3 DEF Owning
<1> QED BY <1>4, <1>5

\* The same, after a step.
LEMMA NothingIsFreshNext ==
  (BackendTypeOK /\ GenerationsHaveBegun /\ ~ alive)' =>
    (\A h \in Modules : Holding(h) = {} /\ Owning(h) = {})'
BY NothingIsFresh, PTL

\* The counts are numbers.
LEMMA AllIs ==
  ASSUME BackendTypeOK, NEW h \in Modules, IsFiniteSet(Owning(h))
  PROVE  /\ Cardinality(Holding(h)) \in Nat /\ Cardinality(Owning(h)) \in Nat
         /\ Pending(h) \in {0, 1} /\ All(h) \in Nat /\ References[h] \in Nat
         /\ Stranded[h] \in Nat
         /\ All(h) = Cardinality(Holding(h)) + Cardinality(Owning(h)) + Pending(h)
<1>1. IsFiniteSet(ToSet(cache))
  BY CacheIsFinite DEF BackendTypeOK
<1>2. Holding(h) \in SUBSET ToSet(cache)
  BY DEF Holding, CountingFor
<1>3. Cardinality(Holding(h)) \in Nat
  BY <1>1, <1>2, FS_Subset, FS_CardinalityType
<1>4. Cardinality(Owning(h)) \in Nat
  BY FS_CardinalityType
<1>5. Pending(h) \in {0, 1}
  BY DEF Pending
<1>6. References[h] \in Nat /\ Stranded[h] \in Nat
  BY CountsAre
<1> QED BY <1>3, <1>4, <1>5, <1>6 DEF All

\* A process that is gone.
LEMMA LostBalance ==
  ASSUME BackendTypeOK', GenerationsHaveBegun', ~ alive',
         call'.at \in {"idle", "load", "check", "rollback"} \/ generation' + 1 \in torn'
  PROVE  Balanced'
<1> SUFFICES ASSUME NEW h \in Modules PROVE IsBalanced(h)'
  BY DEF Balanced
<1>0. (\A g \in Modules : Holding(g) = {} /\ Owning(g) = {})'
  BY NothingIsFreshNext
<1>1. Holding(h)' = {} /\ Owning(h)' = {}
  BY <1>0
<1>2. References'[h] = 0 /\ Stranded'[h] = 0 /\ Generation' = generation' + 1
  BY DEF References, Stranded, Generation, Empty
<1>3. Pending(h)' \in {0, 1}
  BY DEF Pending
<1>4. call'.at \in {"idle", "load", "check", "rollback"} => Pending(h)' = 0
  BY DEF Pending
<1>5. All(h)' = Pending(h)'
  BY <1>1, <1>3, FS_EmptySet DEF All
<1>6. IsFiniteSet(Owning(h)')
  BY <1>1, FS_EmptySet
<1> HIDE DEF References, Stranded, Generation, Owning
<1> QED BY <1>2, <1>3, <1>4, <1>5, <1>6 DEF IsBalanced

\* A reference that is counted where a holder comes, and given back where one goes.
LEMMA BalanceMoves ==
  ASSUME BackendTypeOK, NEW h \in Modules, IsBalanced(h), NEW x \in {-1, 0, 1},
         Generation' = Generation, torn' = torn, IsFiniteSet(Owning(h)'),
         Stranded' = Stranded, All(h)' = All(h) + x, All(h)' >= 0,
         References'[h] = IF References[h] + x >= 0 THEN References[h] + x ELSE 0
  PROVE  IsBalanced(h)'
<1>1. All(h) \in Nat /\ References[h] \in Nat /\ Stranded[h] \in Nat
  BY AllIs DEF IsBalanced
<1>2. /\ References[h] <= All(h) + Stranded[h]
      /\ Generation \notin torn => References[h] >= All(h) + Stranded[h]
  BY DEF IsBalanced
<1> HIDE DEF References, Stranded, Generation, Owning, All
<1>3. References'[h] <= All(h)' + Stranded'[h]
  BY <1>1, <1>2
<1>4. Generation \notin torn => References'[h] >= All(h)' + Stranded'[h]
  BY <1>1, <1>2
<1> QED BY <1>3, <1>4 DEF IsBalanced

\* A torn process that counts nothing.
LEMMA TornBalance ==
  ASSUME CacheIsKept, NEW h \in Modules, IsFiniteSet(Owning(h)'), Stranded'[h] \in Nat,
         References'[h] = 0, Generation' \in torn'
  PROVE  IsBalanced(h)'
<1>1. IsFiniteSet(ToSet(cache'))
  BY CacheIsFinite DEF CacheIsKept
<1>2. Holding(h)' \in SUBSET ToSet(cache')
  BY DEF Holding, CountingFor
<1>3. Cardinality(Holding(h)') \in Nat /\ Cardinality(Owning(h)') \in Nat
  BY <1>1, <1>2, FS_Subset, FS_CardinalityType
<1>4. Pending(h)' \in {0, 1}
  BY DEF Pending
<1>5. All(h)' \in Nat
  BY <1>3, <1>4 DEF All
<1> HIDE DEF References, Stranded, Generation, Owning, All
<1> QED BY <1>5 DEF IsBalanced

\* Who holds a module, if neither the cache nor the results change.
LEMMA SameHolders ==
  ASSUME ToSet(cache') = ToSet(cache), Generation' = Generation, result' = result, NEW h
  PROVE  Holding(h)' = Holding(h) /\ Owning(h)' = Owning(h)
BY DEF Holding, Owning

\* A step that takes no reference and gives none back.
LEMMA SameBalance ==
  ASSUME BackendTypeOK, Balanced, ToSet(cache') = ToSet(cache), result' = result,
         Generation' = Generation, torn' = torn, References' = References,
         Stranded' = Stranded, \A h \in Modules : Pending(h)' = Pending(h)
  PROVE  Balanced'
<1> SUFFICES ASSUME NEW h \in Modules PROVE IsBalanced(h)'
  BY DEF Balanced
<1>1. IsBalanced(h)
  BY DEF Balanced
<1>2. Holding(h)' = Holding(h) /\ Owning(h)' = Owning(h)
  BY SameHolders
<1>3. All(h)' = All(h)
  BY <1>2 DEF All
<1> HIDE DEF References, Stranded, Generation, Owning, All
<1> QED BY <1>1, <1>2, <1>3 DEF IsBalanced

\* What a request does to the counts.
LEMMA CountsMove ==
  ASSUME BackendTypeOK, NEW g \in Modules, NEW h \in Modules
  PROVE  /\ References[h] \in Nat /\ Stranded[h] \in Nat
         /\ Interned(g)[h] = IF h = g THEN References[h] + 1 ELSE References[h]
         /\ Dropped(g)[h] = IF h # g THEN References[h]
                            ELSE IF References[h] - 1 >= 0 THEN References[h] - 1 ELSE 0
<1>1. References \in [Modules -> Nat] /\ Stranded \in [Modules -> Nat]
  BY CountsAre
<1> HIDE DEF References, Stranded
<1> QED BY <1>1 DEF Interned, Dropped

\* A reference that the call has is given back, or one is taken for it.
LEMMA PendingMoves ==
  ASSUME BackendTypeOK, Balanced, ToSet(cache') = ToSet(cache), NEW h \in Modules,
         Owning(h)' = Owning(h), Generation' = Generation, torn' = torn, NEW x \in {-1, 0, 1},
         Stranded' = Stranded, Pending(h)' = Pending(h) + x,
         References'[h] = IF References[h] + x >= 0 THEN References[h] + x ELSE 0
  PROVE  IsBalanced(h)'
<1>1. IsBalanced(h) /\ IsFiniteSet(Owning(h))
  BY DEF Balanced, IsBalanced
<1>2. /\ Cardinality(Holding(h)) \in Nat /\ Cardinality(Owning(h)) \in Nat
      /\ Pending(h) \in {0, 1} /\ All(h) \in Nat
  BY <1>1, AllIs
<1>3. Pending(h)' \in {0, 1}
  BY DEF Pending
<1>4. Holding(h)' = Holding(h)
  BY DEF Holding
<1>5. All(h)' = Cardinality(Holding(h)) + Cardinality(Owning(h)) + (Pending(h) + x)
  BY <1>4 DEF All
<1>6. All(h) = Cardinality(Holding(h)) + Cardinality(Owning(h)) + Pending(h)
  BY DEF All
<1> HIDE DEF Pending, Owning, Holding, All
<1>7. All(h)' = All(h) + x
  BY <1>2, <1>5, <1>6
<1>8. All(h)' >= 0
  BY <1>2, <1>3, <1>4, <1>5
<1>9. IsFiniteSet(Owning(h)')
  BY <1>1
<1> QED BY <1>1, <1>7, <1>8, <1>9, BalanceMoves

\* The process starts, or nothing happens to it.
LEMMA StartedIs ==
  ASSUME BackendTypeOK, GenerationsHaveBegun, Started \/ UNCHANGED worker
  PROVE  /\ Generation' = Generation /\ torn' = torn /\ References' = References
         /\ Stranded' = Stranded /\ ProcessIsKept
         /\ Started => alive' = TRUE /\ generation' = Generation
<1>1. References \in [Modules -> Nat]
  BY CountsAre
<1>2. CASE Started
  <2>1. Replied(References)
    BY <1>2 DEF Started
  <2>2. alive' = TRUE /\ References' = References /\ torn' = torn /\ Stranded' = Stranded
        /\ generation' = Generation /\ Generation' = Generation
    BY <2>1, RepliedIs
  <2> QED BY <1>1, <2>1, <2>2, ProcessKept
<1>3. CASE UNCHANGED worker
  <2>1. ProcessIsKept
    BY <1>3, ProcessKept
  <2>2. Started => alive' = TRUE /\ generation' = Generation
    BY <1>2
  <2> QED BY <1>3, <2>1, <2>2 DEF worker, References, Stranded, Generation
<1> QED BY <1>2, <1>3

\* A call that raises because its request was lost.
LEMMA LossKeeps ==
  ASSUME BackendIsConsistent, call.at # "idle", Lost, NEW loss \in Losses, Raise(loss),
         CacheIsKept, result' = result, file' \in [Paths -> Modules],
         call.op = "run" => file'[call.path] = file[call.path]
  PROVE  BackendIsConsistent'
<1>0. /\ BackendTypeOK /\ CacheIsDistinct /\ GenerationsHaveBegun /\ CallIsConsistent
  BY DEF BackendIsConsistent
<1>1. ProcessIsKept
  BY <1>0, ProcessKept
<1>2. BackendTypeOK' /\ GenerationsHaveBegun'
  BY <1>0, <1>1, TypesKept, ResultsKept, RaisedTyped
<1>3. ~ alive'
  BY DEF Lost
<1>4. call'.at \in {"idle", "load"}
  <2>1. NoCall.at = "idle"
    BY DEF NoCall
  <2>2. [call EXCEPT !.at = "load", !.attempt = 1, !.handle = None, !.onto = None,
                     !.drop = None, !.loss = "none"].at = "load"
    BY <1>0, CallFields DEF BackendTypeOK, IsCall
  <2> QED BY <1>0, <2>1, <2>2, RaisedIs
<1>5. Balanced'
  BY <1>2, <1>3, <1>4, LostBalance
<1> QED BY <1>1, <1>5, RaiseKeeps

\* A call that ends with an error while the process answers and keeps its counts.
LEMMA ErrorKeeps ==
  ASSUME BackendIsConsistent, call.at \in {"load", "remember", "apply", "check", "materialize",
                                           "release"},
         call.at = "remember" => ~ ReferenceOwned,
         Started, CacheIsKept, ToSet(cache') = ToSet(cache), result' = result,
         file' \in [Paths -> Modules],
         NEW k \in {"error", "opt_failed", "materialize_failed", "stale"}, Return(k)
  PROVE  BackendIsConsistent'
<1>0. /\ BackendTypeOK /\ CacheIsDistinct /\ GenerationsHaveBegun /\ CallIsConsistent /\ Balanced
  BY DEF BackendIsConsistent
<1>1. /\ Generation' = Generation /\ torn' = torn /\ Stranded' = Stranded /\ References' = References /\ ProcessIsKept
  BY <1>0, StartedIs
<1>2. call' = NoCall
      /\ answer' = [kind |-> k, pass |-> None, source |-> None, handle |-> None]
  BY DEF Return, NoAnswer
<1>3. IsCall(call') /\ CallIsConsistent' /\ DeathsAreTorn' /\ HandleIsHeld'
  BY <1>2, EndedCall
<1>4. answer' \in Answers
  BY <1>0, <1>2 DEF BackendTypeOK, IsCall, Answers
<1>5. BackendTypeOK' /\ CacheIsDistinct' /\ GenerationsHaveBegun'
  BY <1>0, <1>1, <1>3, <1>4, TypesKept, ResultsKept
<1>6. ASSUME NEW h \in Modules PROVE Pending(h)' = Pending(h)
  <2>1. call'.at = "idle"
    BY <1>2 DEF NoCall
  <2> QED BY <2>1 DEF Pending
<1>7. Balanced'
  BY <1>0, <1>1, <1>6, SameBalance
<1>8. ResultsAreRight' /\ HandlesAreKnown'
  BY <1>2, PlainAnswer
<1> QED BY <1>3, <1>5, <1>7, <1>8 DEF BackendIsConsistent

-----------------------------------------------------------------------------
(* Between the calls.                                                      *)

\* The invariant holds at the beginning.
LEMMA InitConsistent == BackendInit => BackendIsConsistent
<1> SUFFICES ASSUME BackendInit PROVE BackendIsConsistent
  OBVIOUS
<1>1. IsCall(NoCall)
  BY DEF NoCall, IsCall
<1>2. NoAnswer \in Answers /\ NoResult \in [handle : Modules \cup {None}, generation : 0..MaxStarts,
                                         owned : BOOLEAN]
  BY BackendAssumption DEF NoAnswer, Answers, NoResult
<1>3. BackendTypeOK
  <2>1. 0 <= MaxCached /\ 0 \in 0..MaxStarts /\ Empty \in [Modules -> Nat]
    BY BackendAssumption DEF Empty
  <2>2. cache \in Seq(Entries) /\ Len(cache) <= MaxCached
    BY <2>1 DEF BackendInit
  <2>3. IsCall(call) /\ answer \in Answers
    BY <1>1, <1>2 DEF BackendInit
  <2>4. result \in [Results -> [handle : Modules \cup {None}, generation : 0..MaxStarts,
                                owned : BOOLEAN]]
    BY <1>2 DEF BackendInit
  <2> QED BY <2>1, <2>2, <2>3, <2>4 DEF BackendInit, BackendTypeOK
<1>4. ToSet(cache) = {}
  <2>1. cache \in Seq(Entries) /\ Len(cache) = 0
    BY DEF BackendInit
  <2>2. \A v : v \in ToSet(cache) <=> \E k \in 1..Len(cache) : cache[k] = v
    BY <2>1, ToSetIs
  <2>3. 1..Len(cache) = {}
    BY <2>1
  <2> QED BY <2>2, <2>3
<1>5. CacheIsDistinct
  BY DEF BackendInit, CacheIsDistinct
<1>6. GenerationsHaveBegun
  BY <1>4, BackendAssumption DEF BackendInit, GenerationsHaveBegun, NoResult
<1>7. CallIsConsistent /\ DeathsAreTorn /\ HandleIsHeld
  <2>1. call.at = "idle" /\ call.op = "none"
    BY DEF BackendInit, NoCall
  <2> QED BY <2>1 DEF BackendInit, CallIsConsistent, CallIsAsked, CallIsUnderWay,
       CallIsCaching, DeathsAreTorn, HandleIsHeld
<1>8. Balanced
  <2> SUFFICES ASSUME NEW h \in Modules PROVE IsBalanced(h)
    BY DEF Balanced
  <2>1. Holding(h) = {} /\ Owning(h) = {}
    BY <1>4 DEF Holding, CountingFor, Owning, BackendInit, NoResult
  <2>2. Pending(h) = 0 /\ References[h] = 0 /\ Stranded[h] = 0
    BY DEF BackendInit, NoCall, Pending, References, Stranded, Empty
  <2>3. All(h) = 0
    BY <2>1, <2>2, FS_EmptySet DEF All
  <2>4. IsFiniteSet(Owning(h))
    BY <2>1, FS_EmptySet
  <2> HIDE DEF References, Stranded, Owning
  <2> QED BY <2>2, <2>3, <2>4 DEF IsBalanced
<1>9. ResultsAreRight /\ HandlesAreKnown
  BY DEF BackendInit, NoAnswer, ResultsAreRight, HandlesAreKnown
<1> QED BY <1>3, <1>5, <1>6, <1>7, <1>8, <1>9 DEF BackendIsConsistent

-----------------------------------------------------------------------------
(* The steps between calls, and the beginnings of calls.                   *)

\* The process dies.
LEMMA DieConsistent == BackendIsConsistent /\ Die => BackendIsConsistent'
<1> SUFFICES ASSUME BackendIsConsistent, Die PROVE BackendIsConsistent'
  OBVIOUS
<1>0. /\ BackendTypeOK /\ CacheIsDistinct /\ GenerationsHaveBegun /\ CallIsConsistent
      /\ Balanced /\ ResultsAreRight /\ HandlesAreKnown
  BY DEF BackendIsConsistent
<1>1. /\ alive' = FALSE /\ refs' = Empty /\ generation' = generation /\ file' = file
      /\ cache' = cache /\ result' = result /\ call' = call /\ answer' = NoAnswer
      /\ generation < MaxStarts /\ alive /\ stranded' = Empty
      /\ torn' = IF call.at = "idle" THEN torn ELSE torn \cup {generation + 1}
  BY DEF Die
<1>2. generation \in Nat /\ generation >= 1 /\ MaxStarts \in Nat /\ generation + 1 \in 1..MaxStarts
  BY <1>0, <1>1, BackendAssumption DEF BackendTypeOK, GenerationsHaveBegun
<1>3. ProcessIsKept
  <2>1. Empty \in [Modules -> Nat]
    BY <1>0, CountsAre
  <2>2. generation' \in 0..MaxStarts /\ generation' < MaxStarts /\ generation' >= generation
    BY <1>1, <1>2
  <2>3. torn' \subseteq 1..MaxStarts
    BY <1>0, <1>1, <1>2 DEF BackendTypeOK
  <2> QED BY <1>1, <2>1, <2>2, <2>3 DEF ProcessIsKept
<1>4. BackendTypeOK' /\ CacheIsDistinct' /\ GenerationsHaveBegun'
  <2>1. file' \in [Paths -> Modules] /\ IsCall(call')
    BY <1>0, <1>1 DEF BackendTypeOK
  <2>2. answer' \in Answers
    BY <1>1 DEF NoAnswer, Answers
  <2> QED BY <1>0, <1>1, <1>3, <2>1, <2>2, TypesKept, ResultsKept, CacheKept
<1>5. CallIsConsistent'
  BY <1>0, <1>1, <1>2 DEF CallIsConsistent, CallIsAsked, CallIsUnderWay, CallIsCaching
<1>6. DeathsAreTorn'
  BY <1>1, <1>2 DEF DeathsAreTorn
<1>7. Balanced'
  BY <1>1, <1>4, LostBalance
<1>8. HandleIsHeld'
  <2>1. Generation' = generation + 1
    BY <1>1 DEF Generation
  <2>2. call.at # "idle" => Generation' \in torn'
    BY <1>1, <2>1
  <2> HIDE DEF Generation
  <2> QED BY <1>1, <2>2 DEF HandleIsHeld
<1>9. ResultsAreRight' /\ HandlesAreKnown'
  BY <1>1, PlainAnswer DEF NoAnswer
<1> QED BY <1>4, <1>5, <1>6, <1>7, <1>8, <1>9 DEF BackendIsConsistent

\* Steps that leave the call idle and forget the last answer.
LEMMA IdleStep ==
  ASSUME BackendIsConsistent, call.at = "idle", call' = call, answer' = NoAnswer,
         file' \in [Paths -> Modules], cache' = cache, result' = result,
         UNCHANGED worker \/ Started \/ Lost
  PROVE  BackendIsConsistent'
<1>0. /\ BackendTypeOK /\ CacheIsDistinct /\ GenerationsHaveBegun /\ CallIsConsistent /\ Balanced
  BY DEF BackendIsConsistent
<1>1. call' = NoCall /\ call'.at = "idle"
  BY <1>0 DEF CallIsConsistent, CallIsAsked, CallIsUnderWay, CallIsCaching
<1>2. NoAnswer \in Answers /\ NoAnswer.kind = "none"
  BY BackendAssumption DEF NoAnswer, Answers
<1>3. ProcessIsKept
  BY <1>0, ProcessKept, StartedIs
<1>4. IsCall(call') /\ CallIsConsistent' /\ DeathsAreTorn' /\ HandleIsHeld'
  BY <1>1, EndedCall
<1>5. BackendTypeOK' /\ CacheIsDistinct' /\ GenerationsHaveBegun'
  BY <1>0, <1>2, <1>3, <1>4, TypesKept, ResultsKept, CacheKept
<1>6. Balanced'
  <2>1. CASE Lost
    <3>1. ~ alive'
      BY <2>1 DEF Lost
    <3> QED BY <1>1, <1>5, <3>1, LostBalance
  <2>2. CASE UNCHANGED worker \/ Started
    <3>1. Generation' = Generation /\ torn' = torn /\ Stranded' = Stranded /\ References' = References
      BY <1>0, <2>2, StartedIs
    <3>2. \A h \in Modules : Pending(h)' = Pending(h)
      BY <1>1 DEF Pending
    <3> QED BY <1>0, <3>1, <3>2, SameBalance
  <2> QED BY <2>1, <2>2
<1>7. ResultsAreRight' /\ HandlesAreKnown'
  BY <1>2, PlainAnswer
<1> QED BY <1>4, <1>5, <1>6, <1>7 DEF BackendIsConsistent

\* A file is rewritten.
LEMMA RewriteConsistent == BackendIsConsistent /\ Rewrite => BackendIsConsistent'
<1> SUFFICES ASSUME BackendIsConsistent, Rewrite PROVE BackendIsConsistent'
  OBVIOUS
<1>1. file' \in [Paths -> Modules]
  BY DEF BackendIsConsistent, BackendTypeOK, Rewrite
<1> QED BY <1>1, IdleStep DEF Rewrite

\* compare_paths.
LEMMA ComparePathsConsistent == BackendIsConsistent /\ ComparePaths => BackendIsConsistent'
<1> SUFFICES ASSUME BackendIsConsistent, ComparePaths PROVE BackendIsConsistent'
  OBVIOUS
<1>1. file' \in [Paths -> Modules]
  BY DEF BackendIsConsistent, BackendTypeOK, ComparePaths
<1> QED BY <1>1, IdleStep DEF ComparePaths

\* A call that begins drops only what owned nothing.
LEMMA BegunIs ==
  ASSUME BackendTypeOK, NEW c, Begin(c), c.target \in Results \cup {None},
         c.target # None => ~ result[c.target].owned
  PROVE  /\ c.target = None => result' = result
         /\ c.target # None => ~ result'[c.target].owned
         /\ \A r \in Results : \/ result'[r] = result[r]
                              \/ (~ result[r].owned /\ result'[r] = NoResult)
         /\ result' \in [Results -> [handle : Modules \cup {None}, generation : 0..MaxStarts,
                                    owned : BOOLEAN]]
<1>1. CASE c.target = None
  BY <1>1 DEF Begin, BackendTypeOK
<1>2. CASE c.target # None
  <2>1. c.target \in Results /\ result' = [result EXCEPT ![c.target] = NoResult]
    BY <1>2 DEF Begin
  <2>2. NoResult \in [handle : Modules \cup {None}, generation : 0..MaxStarts, owned : BOOLEAN]
        /\ ~ NoResult.owned
    BY BackendAssumption DEF NoResult
  <2>3. DOMAIN result = Results
    BY DEF BackendTypeOK
  <2>4. result'[c.target] = NoResult /\ \A r \in Results : r # c.target => result'[r] = result[r]
    BY <2>1, <2>3
  <2>5. result' \in [Results -> [handle : Modules \cup {None}, generation : 0..MaxStarts,
                                owned : BOOLEAN]]
    BY <2>1, <2>2 DEF BackendTypeOK
  <2> QED BY <1>2, <2>2, <2>4, <2>5
<1> QED BY <1>1, <1>2

\* A call begins, and has not done anything yet.
LEMMA BeginKeeps ==
  ASSUME BackendIsConsistent, NEW c, Begin(c), IsCall(c), CallIsConsistent',
         c.at \in {"load", "check"}, c.target # None => ~ result[c.target].owned
  PROVE  BackendIsConsistent'
<1>0. /\ BackendTypeOK /\ CacheIsDistinct /\ GenerationsHaveBegun /\ CallIsConsistent /\ Balanced
  BY DEF BackendIsConsistent
<1>1. /\ call.at = "idle" /\ call' = c /\ answer' = NoAnswer /\ UNCHANGED worker
      /\ file' = file /\ cache' = cache
  BY DEF Begin
<1>2. NoAnswer \in Answers /\ NoAnswer.kind = "none"
  BY BackendAssumption DEF NoAnswer, Answers
<1>3. /\ \A r \in Results : \/ result'[r] = result[r]
                           \/ (~ result[r].owned /\ result'[r] = NoResult)
      /\ result' \in [Results -> [handle : Modules \cup {None}, generation : 0..MaxStarts,
                                 owned : BOOLEAN]]
  BY <1>0, BegunIs DEF IsCall
<1>4. NoResult.generation = 0 /\ NoResult.owned = FALSE /\ 0 <= generation
  BY <1>0 DEF NoResult, BackendTypeOK
<1>5. ResultsAreKept
  BY <1>0, <1>3, <1>4 DEF ResultsAreKept, GenerationsHaveBegun
<1>6. BackendTypeOK' /\ CacheIsDistinct' /\ GenerationsHaveBegun'
  <2>1. file' \in [Paths -> Modules]
    BY <1>0, <1>1 DEF BackendTypeOK
  <2>2. ProcessIsKept
    BY <1>0, <1>1, ProcessKept
  <2> QED BY <1>0, <1>1, <1>2, <1>5, <2>1, <2>2, TypesKept, CacheKept
<1>7. DeathsAreTorn' /\ HandleIsHeld'
  BY <1>1 DEF DeathsAreTorn, HandleIsHeld
<1>8. ASSUME NEW h \in Modules PROVE IsBalanced(h)'
  <2>1. /\ Generation' = Generation /\ torn' = torn /\ Stranded' = Stranded
        /\ References' = References
    BY <1>0, <1>1, StartedIs
  <2>2. Owning(h)' = Owning(h)
    BY <1>3, <1>4, <2>1 DEF Owning
  <2>3. Pending(h)' = Pending(h) + 0
    BY <1>1 DEF Pending
  <2>4. References[h] \in Nat
    BY <1>0, CountsMove
  <2>5. References'[h] = IF References[h] + 0 >= 0 THEN References[h] + 0 ELSE 0
    <3> HIDE DEF References
    <3> QED BY <2>1, <2>4
  <2> QED BY <1>0, <1>1, <2>1, <2>2, <2>3, <2>5, PendingMoves
<1>9. Balanced'
  BY <1>8 DEF Balanced
<1>10. ResultsAreRight' /\ HandlesAreKnown'
  BY <1>1, <1>2, PlainAnswer
<1> QED BY <1>6, <1>7, <1>9, <1>10 DEF BackendIsConsistent

\* run_opt begins.
LEMMA CallRunConsistent == BackendIsConsistent /\ CallRun => BackendIsConsistent'
<1> SUFFICES ASSUME BackendIsConsistent, CallRun PROVE BackendIsConsistent'
  OBVIOUS
<1>0. BackendTypeOK /\ None \notin Modules \cup Paths \cup Results \cup Passes
  BY BackendAssumption DEF BackendIsConsistent
<1>1. PICK p \in Paths, out \in Paths, f \in Passes, m \in BOOLEAN, r \in Results :
        /\ p # out /\ ~ result[r].owned
        /\ Begin([NoCall EXCEPT !.at = "load", !.op = "run", !.path = p, !.out = out,
                   !.pass = f, !.materialize = m, !.target = r, !.source = file[p]])
  BY DEF CallRun
<1> DEFINE c == [NoCall EXCEPT !.at = "load", !.op = "run", !.path = p, !.out = out,
                   !.pass = f, !.materialize = m, !.target = r, !.source = file[p]]
<1>2. /\ c.at = "load" /\ c.op = "run" /\ c.path = p /\ c.out = out /\ c.pass = f
      /\ c.target = r /\ c.source = file[p] /\ DOMAIN c = DOMAIN NoCall
      /\ c.parent = None /\ c.handle = None /\ c.attempt = 0 /\ c.materialize = m
      /\ c.onto = None /\ c.drop = None /\ c.loss = "none"
  BY DEF NoCall
<1> HIDE DEF c
<1>3. file[p] \in Modules
  BY <1>0 DEF BackendTypeOK
<1>4. IsCall(c)
  BY <1>2, <1>3 DEF IsCall
<1>5. call' = c /\ answer' = NoAnswer /\ file' = file /\ Begin(c)
  BY <1>1 DEF Begin, c
<1>6. ~ result'[r].owned
  BY <1>0, <1>1, <1>2, <1>5, BegunIs
<1>7. CallIsConsistent'
  <2>1. call' # NoCall
    BY <1>2, <1>5 DEF NoCall
  <2> QED BY <1>0, <1>1, <1>2, <1>3, <1>5, <1>6, <2>1 DEF CallIsConsistent, CallIsAsked,
       CallIsUnderWay, CallIsCaching
<1> QED BY <1>1, <1>2, <1>4, <1>5, <1>7, BeginKeeps

\* run_opt_from_result begins.
LEMMA CallRunFromConsistent == BackendIsConsistent /\ CallRunFrom => BackendIsConsistent'
<1> SUFFICES ASSUME BackendIsConsistent, CallRunFrom PROVE BackendIsConsistent'
  OBVIOUS
<1>0. /\ BackendTypeOK /\ GenerationsHaveBegun
      /\ None \notin Modules \cup Paths \cup Results \cup Passes
  BY BackendAssumption DEF BackendIsConsistent
<1>1. PICK parent \in Results, r \in Results, out \in Paths, f \in Passes, m \in BOOLEAN :
        /\ result[parent].owned /\ ~ result[r].owned
        /\ Begin([NoCall EXCEPT !.at = "check", !.op = "from", !.parent = parent, !.out = out,
                    !.pass = f, !.materialize = m, !.target = r,
                    !.source = result[parent].handle])
  BY DEF CallRunFrom
<1> DEFINE c == [NoCall EXCEPT !.at = "check", !.op = "from", !.parent = parent, !.out = out,
                   !.pass = f, !.materialize = m, !.target = r,
                   !.source = result[parent].handle]
<1>2. /\ c.at = "check" /\ c.op = "from" /\ c.path = None /\ c.out = out /\ c.pass = f
      /\ c.target = r /\ c.source = result[parent].handle /\ DOMAIN c = DOMAIN NoCall
      /\ c.parent = parent /\ c.handle = None /\ c.attempt = 0 /\ c.materialize = m
      /\ c.onto = None /\ c.drop = None /\ c.loss = "none"
  BY DEF NoCall
<1> HIDE DEF c
<1>3. result[parent].handle \in Modules
  BY <1>0, <1>1 DEF BackendTypeOK, GenerationsHaveBegun
<1>4. IsCall(c)
  BY <1>2, <1>3 DEF IsCall
<1>5. call' = c /\ answer' = NoAnswer /\ file' = file /\ Begin(c)
  BY <1>1 DEF Begin, c
<1>6. ~ result'[r].owned /\ result'[parent] = result[parent]
  BY <1>0, <1>1, <1>2, <1>5, BegunIs
<1>7. CallIsConsistent'
  <2>1. call' # NoCall
    BY <1>2, <1>5 DEF NoCall
  <2> QED BY <1>0, <1>1, <1>2, <1>3, <1>5, <1>6, <2>1 DEF CallIsConsistent, CallIsAsked,
       CallIsUnderWay, CallIsCaching
<1> QED BY <1>1, <1>2, <1>4, <1>5, <1>7, BeginKeeps

\* materialize_result begins.
LEMMA CallMaterializeConsistent == BackendIsConsistent /\ CallMaterialize => BackendIsConsistent'
<1> SUFFICES ASSUME BackendIsConsistent, CallMaterialize PROVE BackendIsConsistent'
  OBVIOUS
<1>0. BackendTypeOK /\ None \notin Modules \cup Paths \cup Results \cup Passes
  BY BackendAssumption DEF BackendIsConsistent
<1>1. PICK r \in Results, out \in Paths :
        /\ result[r].handle # None
        /\ Begin([NoCall EXCEPT !.at = "check", !.op = "materialize", !.parent = r,
                    !.out = out, !.source = result[r].handle])
  BY DEF CallMaterialize
<1> DEFINE c == [NoCall EXCEPT !.at = "check", !.op = "materialize", !.parent = r,
                    !.out = out, !.source = result[r].handle]
<1>2. /\ c.at = "check" /\ c.op = "materialize" /\ c.path = None /\ c.out = out /\ c.pass = None
      /\ c.target = None /\ c.source = result[r].handle /\ DOMAIN c = DOMAIN NoCall
      /\ c.parent = r /\ c.handle = None /\ c.attempt = 0 /\ c.materialize = FALSE
      /\ c.onto = None /\ c.drop = None /\ c.loss = "none"
  BY DEF NoCall
<1> HIDE DEF c
<1>3. result[r].handle \in Modules
  BY <1>0, <1>1 DEF BackendTypeOK
<1>4. IsCall(c)
  BY <1>2, <1>3 DEF IsCall
<1>5. call' = c /\ answer' = NoAnswer /\ file' = file /\ Begin(c)
  BY <1>1 DEF Begin, c
<1>6. result' = result
  BY <1>0, <1>2, <1>5, BegunIs
<1>7. CallIsConsistent'
  <2>1. call' # NoCall
    BY <1>2, <1>5 DEF NoCall
  <2> QED BY <1>0, <1>1, <1>2, <1>3, <1>5, <1>6, <2>1 DEF CallIsConsistent, CallIsAsked,
       CallIsUnderWay, CallIsCaching
<1> QED BY <1>1, <1>2, <1>4, <1>5, <1>7, BeginKeeps

\* release_result begins.
LEMMA CallReleaseConsistent == BackendIsConsistent /\ CallRelease => BackendIsConsistent'
<1> SUFFICES ASSUME BackendIsConsistent, CallRelease PROVE BackendIsConsistent'
  OBVIOUS
<1>0. /\ BackendTypeOK /\ GenerationsHaveBegun
      /\ None \notin Modules \cup Paths \cup Results \cup Passes
  BY BackendAssumption DEF BackendIsConsistent
<1>1. PICK r \in Results :
        /\ result[r].owned
        /\ Begin([NoCall EXCEPT !.at = "check", !.op = "release", !.parent = r,
                    !.source = result[r].handle])
  BY DEF CallRelease
<1> DEFINE c == [NoCall EXCEPT !.at = "check", !.op = "release", !.parent = r,
                    !.source = result[r].handle]
<1>2. /\ c.at = "check" /\ c.op = "release" /\ c.path = None /\ c.out = None /\ c.pass = None
      /\ c.target = None /\ c.source = result[r].handle /\ DOMAIN c = DOMAIN NoCall
      /\ c.parent = r /\ c.handle = None /\ c.attempt = 0 /\ c.materialize = FALSE
      /\ c.onto = None /\ c.drop = None /\ c.loss = "none"
  BY DEF NoCall
<1> HIDE DEF c
<1>3. result[r].handle \in Modules
  BY <1>0, <1>1 DEF BackendTypeOK, GenerationsHaveBegun
<1>4. IsCall(c)
  BY <1>2, <1>3 DEF IsCall
<1>5. call' = c /\ answer' = NoAnswer /\ file' = file /\ Begin(c)
  BY <1>1 DEF Begin, c
<1>6. result' = result
  BY <1>0, <1>2, <1>5, BegunIs
<1>7. CallIsConsistent'
  <2>1. call' # NoCall
    BY <1>2, <1>5 DEF NoCall
  <2> QED BY <1>0, <1>1, <1>2, <1>3, <1>5, <1>6, <2>1 DEF CallIsConsistent, CallIsAsked,
       CallIsUnderWay, CallIsCaching
<1> QED BY <1>1, <1>2, <1>4, <1>5, <1>7, BeginKeeps

-----------------------------------------------------------------------------
(* Loading an input.                                                       *)

\* The call goes on: what it says to the caller can wait.
LEMMA GoesOn ==
  ASSUME BackendIsConsistent, call.at # "idle", answer' = answer, IsCall(call'),
         ProcessIsKept, CacheIsKept, ResultsAreKept, file' \in [Paths -> Modules],
         CallIsConsistent', DeathsAreTorn', Balanced', HandleIsHeld'
  PROVE  BackendIsConsistent'
<1>1. answer' \in Answers /\ ResultsAreRight' /\ HandlesAreKnown'
  BY NoAnswerYet
<1>2. BackendTypeOK' /\ CacheIsDistinct' /\ GenerationsHaveBegun'
  BY <1>1, TypesKept DEF BackendIsConsistent
<1> QED BY <1>1, <1>2 DEF BackendIsConsistent

\* The input is cached.
LEMMA LoadCachedConsistent == BackendIsConsistent /\ LoadCached => BackendIsConsistent'
<1> SUFFICES ASSUME BackendIsConsistent, LoadCached PROVE BackendIsConsistent'
  OBVIOUS
<1>0. /\ BackendTypeOK /\ CacheIsDistinct /\ GenerationsHaveBegun /\ CallIsConsistent /\ Balanced
  BY DEF BackendIsConsistent
<1>1. PICK e \in Hits(call.path) :
        call' = [call EXCEPT !.at = "apply", !.handle = e.handle]
  BY DEF LoadCached
<1>2. /\ call.at = "load" /\ Started /\ cache' = Touched(call.path)
      /\ file' = file /\ result' = result /\ answer' = answer
  BY DEF LoadCached
<1>3. CacheIsKept /\ ToSet(cache') = ToSet(cache)
  BY <1>0, <1>2, CacheKept
<1>4. /\ Generation' = Generation /\ torn' = torn /\ Stranded' = Stranded /\ References' = References /\ ProcessIsKept
      /\ alive' = TRUE /\ generation' = Generation
  BY <1>0, <1>2, StartedIs
<1>5. /\ e \in ToSet(cache) /\ e.signature = file[call.path] /\ e.generation = Generation
      /\ e.handle = e.signature
  BY <1>0 DEF Hits, EntriesOf, GenerationsHaveBegun
<1>6. /\ call.op = "run" /\ call.path # None /\ call.source = file[call.path] /\ call.source # None
      /\ answer = NoAnswer
  BY <1>0, <1>2 DEF CallIsConsistent, CallIsAsked, CallIsUnderWay, CallIsCaching
<1>7. e.handle = call.source
  BY <1>5, <1>6
<1>8. /\ call'.at = "apply" /\ call'.handle = call.source /\ call'.op = "run"
      /\ call'.path = call.path /\ call'.out = call.out /\ call'.pass = call.pass
      /\ call'.target = call.target /\ call'.source = call.source /\ call'.parent = call.parent
  BY <1>0, <1>1, <1>6, <1>7, CallFields DEF BackendTypeOK, IsCall
<1>9. IsCall(call')
  <2>1. call.source \in Modules \cup {None}
    BY <1>0 DEF BackendTypeOK, IsCall
  <2> QED BY <1>0, <1>1, <1>7, <2>1, CallFields DEF BackendTypeOK, IsCall
<1>10. CallIsConsistent'
  <2>1. call' # NoCall
    BY <1>8 DEF NoCall
  <2>2. generation' >= 1
    BY <1>4 DEF ProcessIsKept
  <2> QED BY <1>0, <1>2, <1>6, <1>8, <2>1, <2>2 DEF CallIsConsistent, CallIsAsked,
       CallIsUnderWay, CallIsCaching
<1>11. DeathsAreTorn'
  BY <1>4 DEF DeathsAreTorn
<1>12. Balanced'
  <2>1. \A h \in Modules : Pending(h)' = Pending(h)
    BY <1>2, <1>8 DEF Pending
  <2> QED BY <1>0, <1>2, <1>3, <1>4, <2>1, SameBalance
<1>13. HandleIsHeld'
  <2>1. e \in Holding(call.source)
    BY <1>5, <1>7 DEF Holding, CountingFor
  <2>2. Holding(call.source)' = Holding(call.source)
    <3>1. call'.source = call.source
      BY <1>8
    <3>2. CountingFor(ToSet(cache'), call.source, Generation') = Holding(call.source)
      BY <1>3, <1>4 DEF Holding
    <3> QED BY <3>1, <3>2 DEF Holding
  <2>3. Holding(call.handle)' # {}
    BY <1>8, <2>1, <2>2 DEF Holding
  <2> QED BY <1>8, <2>3 DEF HandleIsHeld
<1>14. file' \in [Paths -> Modules] /\ ResultsAreKept
  BY <1>0, <1>2, ResultsKept DEF BackendTypeOK
<1> QED BY <1>2, <1>3, <1>4, <1>9, <1>10, <1>11, <1>12, <1>13, <1>14, GoesOn

\* The input is loaded.
LEMMA LoadInputConsistent == BackendIsConsistent /\ LoadInput => BackendIsConsistent'
<1> SUFFICES ASSUME BackendIsConsistent, LoadInput PROVE BackendIsConsistent'
  OBVIOUS
<1>0. /\ BackendTypeOK /\ CacheIsDistinct /\ GenerationsHaveBegun /\ CallIsConsistent /\ Balanced
  BY DEF BackendIsConsistent
<1>2. /\ call.at = "load" /\ cache' = Touched(call.path)
      /\ file' = file /\ result' = result
  BY DEF LoadInput
<1>3. CacheIsKept /\ ToSet(cache') = ToSet(cache)
  BY <1>0, <1>2, CacheKept
<1>4. /\ call.op = "run" /\ call.path # None /\ call.source = file[call.path] /\ call.source # None
      /\ answer = NoAnswer /\ call.path \in Paths
  BY <1>0, <1>2 DEF CallIsConsistent, CallIsAsked, CallIsUnderWay, CallIsCaching,
       BackendTypeOK, IsCall
<1>5. file' \in [Paths -> Modules] /\ ResultsAreKept
  BY <1>0, <1>2, ResultsKept DEF BackendTypeOK
<1>6. CASE Replied(Interned(file[call.path])) /\ answer' = answer
           /\ call' = [call EXCEPT !.at = "remember", !.handle = file[call.path],
                                   !.onto = call.path]
  <2> DEFINE g == file[call.path]
  <2>0. g \in Modules /\ g = call.source
    BY <1>0, <1>4 DEF BackendTypeOK
  <2> HIDE DEF g
  <2>1. /\ alive' = TRUE /\ torn' = torn /\ Stranded' = Stranded /\ References' = Interned(g)
        /\ generation' = Generation /\ Generation' = Generation /\ Generation \in 1..MaxStarts
    BY <1>0, <1>6, RepliedIs DEF g
  <2>2. ProcessIsKept
    BY <1>0, <1>6, <2>0, CountsAre, ProcessKept DEF g
  <2>3. /\ call'.at = "remember" /\ call'.handle = g /\ call'.op = "run" /\ call'.onto = call.path
        /\ call'.path = call.path /\ call'.out = call.out /\ call'.pass = call.pass
        /\ call'.target = call.target /\ call'.source = call.source /\ call'.parent = call.parent
    BY <1>0, <1>4, <1>6, CallFields DEF BackendTypeOK, IsCall, g
  <2>4. IsCall(call')
    BY <1>0, <1>4, <1>6, <2>0, CallFields DEF BackendTypeOK, IsCall, g
  <2>5. CallIsConsistent'
    <3>1. call' # NoCall
      BY <2>3 DEF NoCall
    <3>2. generation' >= 1 /\ file'[call.path] = g /\ g # None
      BY <1>2, <1>4, <2>0, <2>1 DEF g
    <3>3. call.path # call.out
      BY <1>0, <1>4 DEF CallIsConsistent, CallIsAsked, CallIsUnderWay, CallIsCaching
    <3> QED BY <1>0, <1>2, <1>4, <1>6, <2>0, <2>3, <3>1, <3>2, <3>3 DEF CallIsConsistent,
         CallIsAsked, CallIsUnderWay, CallIsCaching
  <2>6. DeathsAreTorn' /\ HandleIsHeld'
    BY <2>1, <2>3 DEF DeathsAreTorn, HandleIsHeld
  <2>7. Balanced'
    <3> SUFFICES ASSUME NEW h \in Modules PROVE IsBalanced(h)'
      BY DEF Balanced
    <3>1. IsBalanced(h) /\ IsFiniteSet(Owning(h))
      BY <1>0 DEF Balanced, IsBalanced
    <3>2. Holding(h)' = Holding(h) /\ Owning(h)' = Owning(h)
      BY <1>2, <1>3, <2>1, SameHolders
    <3>3. Pending(h) = 0 /\ Pending(h)' = IF h = g THEN 1 ELSE 0
      BY <1>2, <2>3 DEF Pending, ReferenceOwned
    <3>4. All(h)' = All(h) + (IF h = g THEN 1 ELSE 0) /\ All(h) \in Nat
      <4>1. Cardinality(Holding(h)) \in Nat /\ Cardinality(Owning(h)) \in Nat /\ All(h) \in Nat
        BY <1>0, <3>1, AllIs
      <4>2. All(h)' = Cardinality(Holding(h)) + Cardinality(Owning(h)) + (IF h = g THEN 1 ELSE 0)
        BY <3>2, <3>3 DEF All
      <4>3. All(h) = Cardinality(Holding(h)) + Cardinality(Owning(h)) + 0
        BY <3>3 DEF All
      <4> QED BY <4>1, <4>2, <4>3
    <3>5. References'[h] = (IF h = g THEN References[h] + 1 ELSE References[h])
          /\ References[h] \in Nat
      BY <1>0, <2>0, <2>1, CountsMove
    <3>6. IsFiniteSet(Owning(h)')
      BY <3>1, <3>2
    <3> DEFINE x == IF h = g THEN 1 ELSE 0
    <3>7. x \in {-1, 0, 1} /\ All(h)' = All(h) + x /\ All(h)' >= 0
          /\ References'[h] = IF References[h] + x >= 0 THEN References[h] + x ELSE 0
      <4> HIDE DEF References, Owning, All
      <4> QED BY <3>4, <3>5
    <3> HIDE DEF x
    <3> QED BY <1>0, <2>1, <3>1, <3>6, <3>7, BalanceMoves
  <2> QED BY <1>2, <1>3, <1>5, <1>6, <2>2, <2>4, <2>5, <2>6, <2>7, GoesOn
<1>7. CASE Started /\ Return("error")
  BY <1>2, <1>3, <1>5, <1>7, ErrorKeeps
<1>8. ASSUME Lost, NEW loss \in Losses, Raise(loss) PROVE BackendIsConsistent'
  BY <1>2, <1>3, <1>5, <1>8, LossKeeps
<1> QED BY <1>6, <1>7, <1>8 DEF LoadInput

-----------------------------------------------------------------------------
(* Caching a module.                                                       *)

\* A process that is not there counts nothing, and if the call is past its first
\* request its successor is torn.
LEMMA DeadIs ==
  ASSUME BackendIsConsistent, ~ alive
  PROVE  /\ Generation = generation + 1 /\ \A h \in Modules : References[h] = 0
         /\ call.at \in {"remember", "discard", "apply", "materialize", "release"}
              => Generation \in torn
BY DEF BackendIsConsistent, DeathsAreTorn, Generation, References, Empty

\* A process that runs is the one its generation names.
LEMMA AliveIs ==
  ASSUME alive
  PROVE  Generation = generation /\ References = refs /\ Stranded = stranded
BY DEF Generation, References, Stranded

\* An entry that is added is well formed.
LEMMA NewEntry ==
  ASSUME BackendIsConsistent, call.at = "remember", NEW g \in 1..MaxStarts
  PROVE  /\ Entry(call.onto, call.handle, g) \in Entries
         /\ Entry(call.onto, call.handle, g).path = call.onto
         /\ Entry(call.onto, call.handle, g).handle = call.handle
         /\ Entry(call.onto, call.handle, g).generation = g
         /\ Entry(call.onto, call.handle, g).signature = call.handle
         /\ call.handle \in Modules /\ call.onto \in Paths
<1>1. call.handle \in Modules /\ call.onto \in Paths /\ file[call.onto] = call.handle
  BY DEF BackendIsConsistent, BackendTypeOK, IsCall, CallIsConsistent, CallIsAsked,
       CallIsUnderWay, CallIsCaching
<1> QED BY <1>1 DEF Entry, Entries

\* What caching a module does to the call and to the results.
LEMMA CachedIs ==
  ASSUME BackendIsConsistent, call.at \in {"remember", "discard"}, NEW g, Cached(g)
  PROVE  /\ call'.at \in {"idle", "apply"} /\ IsCall(call')
         /\ \A h \in Modules : Pending(h)' = 0
         /\ \A r \in Results : result'[r].owned <=> result[r].owned
         /\ \A r \in Results : result[r].owned => result'[r] = result[r]
         /\ call.onto # call.out => result' = result
<1>0. BackendTypeOK /\ CallIsConsistent
  BY DEF BackendIsConsistent
<1>1. CASE call.onto = call.out
  <2>1. Finish(g) /\ call' = NoCall
    BY <1>1 DEF Cached, Finish
  <2>2. call'.at = "idle" /\ IsCall(call')
    BY <2>1 DEF NoCall, IsCall
  <2>3. \A h \in Modules : Pending(h)' = 0
    BY <2>2 DEF Pending
  <2>4. CASE call.op = "materialize"
    BY <1>1, <2>1, <2>2, <2>3, <2>4 DEF Finish
  <2>5. CASE call.op # "materialize"
    <3>1. call.op \in {"run", "from"} /\ ~ result[call.target].owned /\ call.target \in Results
      BY <1>0, <2>5 DEF CallIsConsistent, CallIsAsked, CallIsUnderWay, CallIsCaching,
           BackendTypeOK, IsCall
    <3>2. result' = [result EXCEPT ![call.target] =
                       [handle |-> call.handle, generation |-> g, owned |-> FALSE]]
      BY <2>1, <2>5 DEF Finish
    <3>3. DOMAIN result = Results
      BY <1>0 DEF BackendTypeOK
    <3>4. \A r \in Results : /\ result'[r].owned <=> result[r].owned
                             /\ result[r].owned => result'[r] = result[r]
      BY <3>1, <3>2, <3>3
    <3> QED BY <1>1, <2>2, <2>3, <3>4
  <2> QED BY <2>4, <2>5
<1>2. CASE call.onto # call.out
  <2>1. Goto("apply") /\ result' = result
    BY <1>2 DEF Cached
  <2>2. call'.at = "apply" /\ IsCall(call')
    BY <1>0, <2>1, CallFields DEF Goto, BackendTypeOK, IsCall
  <2>3. \A h \in Modules : Pending(h)' = 0
    BY <2>2 DEF Pending
  <2> QED BY <2>1, <2>2, <2>3
<1> QED BY <1>1, <1>2

\* Caching a module changes no owner.
LEMMA CachedOwning ==
  ASSUME BackendIsConsistent, call.at \in {"remember", "discard"}, NEW g, Cached(g),
         Generation' = Generation, NEW h \in Modules
  PROVE  Owning(h)' = Owning(h)
<1>1. \A r \in Results : /\ result'[r].owned <=> result[r].owned
                         /\ result[r].owned => result'[r] = result[r]
  BY CachedIs
<1> QED BY <1>1 DEF Owning

\* The call goes on with its module cached, or returns its result.
LEMMA CachedKeeps ==
  ASSUME BackendIsConsistent, call.at \in {"remember", "discard"}, NEW g \in 1..MaxStarts,
         g <= generation', Cached(g), file' = file, Generation' = Generation, torn' = torn,
         ProcessIsKept, CacheIsKept, alive' = TRUE \/ UNCHANGED worker, Balanced',
         call.onto # call.out /\ Generation \notin torn =>
           CountingFor(ToSet(cache'), call.handle, Generation) # {}
  PROVE  BackendIsConsistent'
<1>0. /\ BackendTypeOK /\ CacheIsDistinct /\ GenerationsHaveBegun /\ CallIsConsistent
      /\ answer = NoAnswer /\ call.handle \in Modules /\ file' \in [Paths -> Modules]
      /\ DeathsAreTorn
  BY DEF BackendIsConsistent, CallIsConsistent, CallIsAsked, CallIsUnderWay, CallIsCaching,
       BackendTypeOK, IsCall
<1>1. CASE call.onto = call.out
  <2>1. Finish(g)
    BY <1>1 DEF Cached
  <2>2. /\ call' = NoCall
        /\ answer' = [kind |-> "result", pass |-> call.pass, source |-> call.source,
                      handle |-> call.handle]
    BY <2>1 DEF Finish
  <2>3. IsCall(call') /\ CallIsConsistent' /\ DeathsAreTorn' /\ HandleIsHeld'
    BY <2>2, EndedCall
  <2>4. answer' \in Answers
    BY <1>0, <2>2 DEF BackendTypeOK, IsCall, Answers
  <2>5. ResultsAreRight'
    <3>1. call.pass # None => call.handle = call.pass[call.source]
      BY <1>0, <1>1 DEF CallIsConsistent, CallIsAsked, CallIsUnderWay, CallIsCaching
    <3> QED BY <2>2, <3>1 DEF ResultsAreRight
  <2>6. HandlesAreKnown'
    BY <2>2 DEF HandlesAreKnown
  <2>7. ResultsAreKept
    <3>1. CASE call.op = "materialize"
      BY <1>0, <2>1, <3>1, ResultsKept DEF Finish
    <3>2. CASE call.op # "materialize"
      <4>1. call.target \in Results
        BY <1>0, <3>2 DEF CallIsConsistent, CallIsAsked, CallIsUnderWay, CallIsCaching,
             BackendTypeOK, IsCall
      <4>2. result' = [result EXCEPT ![call.target] =
                         [handle |-> call.handle, generation |-> g, owned |-> FALSE]]
        BY <2>1, <3>2 DEF Finish
      <4>3. [handle |-> call.handle, generation |-> g, owned |-> FALSE] \in
              [handle : Modules \cup {None}, generation : 0..MaxStarts, owned : BOOLEAN]
        BY <1>0, BackendAssumption
      <4>4. result' \in [Results -> [handle : Modules \cup {None}, generation : 0..MaxStarts,
                                     owned : BOOLEAN]]
        BY <1>0, <4>2, <4>3 DEF BackendTypeOK
      <4>5. ASSUME NEW r \in Results
            PROVE  /\ result'[r].generation <= generation \/ result'[r].generation <= generation'
                   /\ result'[r].owned => result'[r].handle # None
        <5>1. DOMAIN result = Results
          BY <1>0 DEF BackendTypeOK
        <5>2. CASE r = call.target
          BY <4>1, <4>2, <5>1, <5>2
        <5>3. CASE r # call.target
          BY <1>0, <4>1, <4>2, <5>1, <5>3 DEF GenerationsHaveBegun
        <5> QED BY <5>2, <5>3
      <4> QED BY <4>4, <4>5 DEF ResultsAreKept
    <3> QED BY <3>1, <3>2
  <2> QED BY <1>0, <2>3, <2>4, <2>5, <2>6, <2>7, TypesKept DEF BackendIsConsistent
<1>2. CASE call.onto # call.out
  <2>1. /\ call' = [call EXCEPT !.at = "apply"] /\ answer' = answer /\ result' = result
    BY <1>2 DEF Cached, Goto
  <2>2. IsCall(call')
    BY CachedIs
  <2>3. /\ call'.at = "apply" /\ call'.handle = call.handle /\ call'.op = call.op
        /\ call'.path = call.path /\ call'.out = call.out /\ call'.pass = call.pass
        /\ call'.target = call.target /\ call'.source = call.source /\ call'.parent = call.parent
    BY <1>0, <2>1, CallFields DEF BackendTypeOK, IsCall
  <2>4. call.op = "run" /\ call.handle = call.source
    BY <1>0, <1>2 DEF CallIsConsistent, CallIsAsked, CallIsUnderWay, CallIsCaching
  <2>5. CallIsConsistent'
    <3>1. call' # NoCall
      BY <2>3 DEF NoCall
    <3>2. generation' >= 1
      BY <1>0, BackendAssumption DEF ProcessIsKept, CallIsConsistent, CallIsAsked,
           CallIsUnderWay, CallIsCaching, BackendTypeOK
    <3> QED BY <1>0, <2>1, <2>3, <2>4, <3>1, <3>2 DEF CallIsConsistent, CallIsAsked,
         CallIsUnderWay, CallIsCaching
  <2>6. DeathsAreTorn'
    BY <1>0, <2>3 DEF DeathsAreTorn, worker
  <2>7. HandleIsHeld'
    <3>1. Generation' \notin torn' => Holding(call.handle)' # {}
      BY <1>2, <2>3 DEF Holding
    <3> HIDE DEF Generation, Holding
    <3>2. Holding(call.handle)' = (Holding(call.handle))'
      OBVIOUS
    <3> QED BY <2>3, <2>4, <3>1 DEF HandleIsHeld
  <2>8. ResultsAreKept
    BY <1>0, <2>1, ResultsKept
  <2> QED BY <1>0, <2>1, <2>2, <2>5, <2>6, <2>7, <2>8, GoesOn
<1> QED BY <1>1, <1>2

\* A call that raises while it caches a result gives its handle back first.
LEMMA RollsBack ==
  ASSUME BackendIsConsistent, call.at \in {"remember", "discard"}, call.onto = call.out,
         call.op # "materialize", NEW loss \in Losses, RaiseCaching(loss),
         ProcessIsKept, CacheIsKept, result' = result, file' = file, Balanced'
  PROVE  BackendIsConsistent'
<1>0. /\ BackendTypeOK /\ CacheIsDistinct /\ GenerationsHaveBegun /\ CallIsConsistent
      /\ file' \in [Paths -> Modules]
  BY DEF BackendIsConsistent, BackendTypeOK
<1>1. call' = [call EXCEPT !.at = "rollback", !.loss = loss] /\ answer' = answer
  BY DEF RaiseCaching
<1>2. IsCall(call')
  BY <1>0, <1>1, CallFields DEF BackendTypeOK, IsCall
<1>3. /\ call'.at = "rollback" /\ call'.handle = call.handle /\ call'.op = call.op
      /\ call'.path = call.path /\ call'.out = call.out /\ call'.pass = call.pass
      /\ call'.target = call.target /\ call'.source = call.source /\ call'.parent = call.parent
      /\ call'.loss = loss
  BY <1>0, <1>1, CallFields DEF BackendTypeOK, IsCall
<1>4. CallIsConsistent'
  <2>1. call' # NoCall
    BY <1>3 DEF NoCall
  <2>2. generation' >= 1
    BY <1>0, BackendAssumption DEF ProcessIsKept, CallIsConsistent, CallIsAsked,
         CallIsUnderWay, CallIsCaching, BackendTypeOK
  <2>3. loss # "none" /\ call.op \in {"run", "from"} /\ answer = NoAnswer
    BY <1>0 DEF CallIsConsistent, CallIsAsked, CallIsUnderWay, CallIsCaching, Losses
  <2> QED BY <1>0, <1>1, <1>3, <2>1, <2>2, <2>3 DEF CallIsConsistent, CallIsAsked,
       CallIsUnderWay, CallIsCaching
<1>5. DeathsAreTorn' /\ HandleIsHeld'
  BY <1>3 DEF DeathsAreTorn, HandleIsHeld
<1> QED BY <1>0, <1>1, <1>2, <1>4, <1>5, ResultsKept, GoesOn

\* A request is lost while a module is cached.
LEMMA LossCachingKeeps ==
  ASSUME BackendIsConsistent, call.at \in {"remember", "discard"}, Lost,
         NEW loss \in Losses, RaiseCaching(loss), cache' = cache, result' = result, file' = file
  PROVE  BackendIsConsistent'
<1>0. /\ BackendTypeOK /\ CacheIsDistinct /\ GenerationsHaveBegun /\ CallIsConsistent
      /\ file' \in [Paths -> Modules] /\ CacheIsKept /\ ResultsAreKept /\ ProcessIsKept
  BY CacheKept, ResultsKept, ProcessKept DEF BackendIsConsistent, BackendTypeOK
<1>1. CASE call.onto = call.out /\ call.op # "materialize"
  <2>1. call' = [call EXCEPT !.at = "rollback", !.loss = loss] /\ answer' = answer
    BY <1>1 DEF RaiseCaching
  <2>2. call'.at = "rollback" /\ IsCall(call')
    BY <1>0, <2>1, CallFields DEF BackendTypeOK, IsCall
  <2>3. answer' \in Answers
    BY <1>0, <2>1 DEF BackendTypeOK
  <2>4. BackendTypeOK' /\ GenerationsHaveBegun'
    BY <1>0, <2>2, <2>3, TypesKept
  <2>5. ~ alive'
    BY DEF Lost
  <2>6. Balanced'
    BY <2>2, <2>4, <2>5, LostBalance
  <2> QED BY <1>0, <1>1, <2>6, RollsBack
<1>2. CASE ~ (call.onto = call.out /\ call.op # "materialize")
  BY <1>0, <1>2, LossKeeps DEF RaiseCaching
<1> QED BY <1>1, <1>2

\* An entry of the module replaces one of the same module: it is held as before.
LEMMA KnownHolding ==
  ASSUME BackendIsConsistent, call.at = "remember", IsKnown, alive,
         cache' = Append(Without(call.onto), Entry(call.onto, call.handle, Generation)),
         Generation' = Generation, NEW h \in Modules
  PROVE  Cardinality(Holding(h)') = Cardinality(Holding(h))
<1>0. BackendTypeOK /\ CacheIsDistinct /\ cache \in Seq(Entries) /\ Generation = generation
      /\ Generation \in 1..MaxStarts
  BY AliveIs, BackendAssumption DEF BackendIsConsistent, BackendTypeOK, GenerationsHaveBegun
<1> DEFINE e == Entry(call.onto, call.handle, Generation)
<1>1. e \in Entries /\ e.path = call.onto /\ e.handle = call.handle /\ e.generation = Generation
  BY <1>0, NewEntry
<1> HIDE DEF e
<1>2. ToSet(cache') = Exchanged(ToSet(cache), EntriesOf(call.onto), e)
  BY <1>0, <1>1, Replaced DEF e, Exchanged
<1>3. /\ EntriesOf(call.onto) \subseteq ToSet(cache)
      /\ \A x, y \in EntriesOf(call.onto) : x = y
  BY <1>0, OneEntry
<1>4. e \notin ToSet(cache) \ EntriesOf(call.onto)
  BY <1>1 DEF EntriesOf
<1>5. PICK k \in EntriesOf(call.onto) : k.generation = Generation /\ k.handle = call.handle
  BY <1>0 DEF IsKnown
<1>6. CountingFor(EntriesOf(call.onto), h, Generation) # {} <=> h = call.handle
  BY <1>3, <1>5 DEF CountingFor
<1>7. IsFiniteSet(ToSet(cache))
  BY <1>0, CacheIsFinite
<1>8. Cardinality(CountingFor(ToSet(cache'), h, Generation)) =
        Cardinality(CountingFor(ToSet(cache), h, Generation))
          - (IF CountingFor(EntriesOf(call.onto), h, Generation) # {} THEN 1 ELSE 0)
          + (IF e.handle = h /\ e.generation = Generation THEN 1 ELSE 0)
      /\ Cardinality(CountingFor(ToSet(cache), h, Generation)) \in Nat
  BY <1>2, <1>3, <1>4, <1>7, ReplacedCount
<1>9. Holding(h)' = CountingFor(ToSet(cache'), h, Generation)
  BY DEF Holding
<1>10. Holding(h) = CountingFor(ToSet(cache), h, Generation)
  BY DEF Holding
<1> QED BY <1>1, <1>6, <1>8, <1>9, <1>10

\* The cache after a replacement.
LEMMA ReplacedKept ==
  ASSUME BackendIsConsistent, call.at = "remember", IsKnown, NEW g \in 1..MaxStarts,
         g <= generation',
         cache' = Append(Without(call.onto), Entry(call.onto, call.handle, g))
  PROVE  /\ CacheIsKept
         /\ CountingFor(ToSet(cache'), call.handle, g) # {}
<1>0. /\ cache \in Seq(Entries) /\ CacheIsDistinct /\ Len(cache) <= MaxCached
      /\ Len(cache) \in Nat
  BY DEF BackendIsConsistent, BackendTypeOK
<1> DEFINE e == Entry(call.onto, call.handle, g)
<1>1. e \in Entries /\ e.path = call.onto /\ e.handle = call.handle /\ e.generation = g
      /\ e.signature = call.handle
  BY NewEntry
<1> HIDE DEF e
<1>2. /\ cache' \in Seq(Entries) /\ PathsDiffer(cache')
      /\ ToSet(cache') = (ToSet(cache) \ EntriesOf(call.onto)) \cup {e}
      /\ Len(cache') = IF EntriesOf(call.onto) = {} THEN Len(cache) + 1 ELSE Len(cache)
  BY <1>0, <1>1, Replaced DEF e
<1>3. EntriesOf(call.onto) # {}
  BY DEF IsKnown
<1>4. CacheIsKept
  BY <1>0, <1>1, <1>2, <1>3 DEF CacheIsKept
<1>5. e \in CountingFor(ToSet(cache'), call.handle, g)
  BY <1>1, <1>2 DEF CountingFor
<1> QED BY <1>4, <1>5

\* _remember_signature, of a path cached with that module.
LEMMA RememberKnownConsistent == BackendIsConsistent /\ RememberKnown => BackendIsConsistent'
<1> SUFFICES ASSUME BackendIsConsistent, RememberKnown PROVE BackendIsConsistent'
  OBVIOUS
<1>0. /\ BackendTypeOK /\ GenerationsHaveBegun /\ CallIsConsistent /\ Balanced
      /\ call.at = "remember" /\ IsKnown /\ file' = file
      /\ call.handle \in Modules
  BY DEF BackendIsConsistent, RememberKnown, BackendTypeOK, IsCall, CallIsConsistent,
       CallIsAsked, CallIsUnderWay, CallIsCaching
<1>1. CASE /\ ReferenceOwned /\ Replied(Dropped(call.handle)) /\ Cached(Generation)
           /\ cache' = Append(Without(call.onto), Entry(call.onto, call.handle, Generation))
  <2>1. /\ alive' = TRUE /\ torn' = torn /\ Stranded' = Stranded /\ References' = Dropped(call.handle)
        /\ generation' = Generation /\ Generation' = Generation /\ Generation \in 1..MaxStarts
    BY <1>0, <1>1, RepliedIs
  <2>2. ProcessIsKept
    BY <1>0, <1>1, CountsAre, ProcessKept
  <2>3. CacheIsKept /\ CountingFor(ToSet(cache'), call.handle, Generation) # {}
    BY <1>0, <1>1, <2>1, ReplacedKept
  <2>4. Balanced'
    <3> SUFFICES ASSUME NEW h \in Modules PROVE IsBalanced(h)'
      BY DEF Balanced
    <3>1. IsBalanced(h) /\ IsFiniteSet(Owning(h))
      BY <1>0 DEF Balanced, IsBalanced
    <3>2. Owning(h)' = Owning(h) /\ Pending(h)' = 0
      BY <1>0, <1>1, <2>1, CachedOwning, CachedIs
    <3>3. IsFiniteSet(Owning(h)')
      BY <3>1, <3>2
    <3>4. References'[h] = (IF h # call.handle THEN References[h]
                            ELSE IF References[h] - 1 >= 0 THEN References[h] - 1 ELSE 0)
          /\ References[h] \in Nat
      BY <1>0, <2>1, CountsMove
    <3>5. CASE alive
      <4>1. Cardinality(Holding(h)') = Cardinality(Holding(h))
        BY <1>0, <1>1, <2>1, <3>5, KnownHolding
      <4>2. Pending(h) = IF h = call.handle THEN 1 ELSE 0
        BY <1>0, <1>1 DEF Pending
      <4>3. Cardinality(Holding(h)) \in Nat /\ Cardinality(Owning(h)) \in Nat /\ All(h) \in Nat
        BY <1>0, <3>1, AllIs
      <4>4. All(h)' = Cardinality(Holding(h)) + Cardinality(Owning(h))
        BY <3>2, <4>1, <4>3 DEF All
      <4>5. All(h) = Cardinality(Holding(h)) + Cardinality(Owning(h))
                       + (IF h = call.handle THEN 1 ELSE 0)
        BY <4>2 DEF All
      <4> DEFINE x == IF h = call.handle THEN -1 ELSE 0
      <4>6. x \in {-1, 0, 1} /\ All(h)' = All(h) + x /\ All(h)' >= 0
        BY <4>3, <4>4, <4>5
      <4>7. References'[h] = IF References[h] + x >= 0 THEN References[h] + x ELSE 0
        BY <3>4
      <4> HIDE DEF x
      <4> QED BY <1>0, <2>1, <3>1, <3>3, <4>6, <4>7, BalanceMoves
    <3>6. CASE ~ alive
      <4>1. References[h] = 0 /\ Generation \in torn
        BY <1>0, <3>6, DeadIs
      <4>2. References'[h] = 0 /\ Generation' \in torn' /\ Stranded'[h] \in Nat
        BY <1>0, <2>1, <3>4, <4>1, CountsMove
      <4> QED BY <2>3, <3>3, <4>2, TornBalance
    <3> QED BY <3>5, <3>6
  <2> QED BY <1>0, <1>1, <2>1, <2>2, <2>3, <2>4, CachedKeeps
<1>2. CASE /\ ~ ReferenceOwned /\ Cached(generation) /\ UNCHANGED worker
           /\ cache' = Append(Without(call.onto), Entry(call.onto, call.handle, generation))
  <2>1. /\ Generation' = Generation /\ torn' = torn /\ Stranded' = Stranded /\ References' = References
        /\ ProcessIsKept /\ generation' = generation
    BY <1>0, <1>2, StartedIs DEF worker
  <2>2. generation \in 1..MaxStarts
    BY <1>0, BackendAssumption DEF BackendTypeOK, CallIsConsistent, CallIsAsked,
         CallIsUnderWay, CallIsCaching
  <2>3. CacheIsKept /\ CountingFor(ToSet(cache'), call.handle, generation) # {}
    BY <1>0, <1>2, <2>1, <2>2, ReplacedKept
  <2>4. Balanced'
    <3> SUFFICES ASSUME NEW h \in Modules PROVE IsBalanced(h)'
      BY DEF Balanced
    <3>1. IsBalanced(h) /\ IsFiniteSet(Owning(h))
      BY <1>0 DEF Balanced, IsBalanced
    <3>2. Owning(h)' = Owning(h) /\ Pending(h)' = 0
      BY <1>0, <1>2, <2>1, CachedOwning, CachedIs
    <3>3. IsFiniteSet(Owning(h)')
      BY <3>1, <3>2
    <3>4. Pending(h) = 0
      BY <1>0, <1>2 DEF Pending
    <3>5. CASE alive
      <4>1. Cardinality(Holding(h)') = Cardinality(Holding(h))
        BY <1>0, <1>2, <2>1, <3>5, KnownHolding, AliveIs
      <4>2. All(h)' = All(h)
        BY <3>2, <3>4, <4>1 DEF All
      <4> HIDE DEF References, Stranded, Generation, Owning, All
      <4> QED BY <2>1, <3>1, <3>3, <4>2 DEF IsBalanced
    <3>6. CASE ~ alive
      <4>1. References[h] = 0 /\ Generation \in torn
        BY <1>0, <3>6, DeadIs
      <4>2. References'[h] = 0 /\ Generation' \in torn' /\ Stranded'[h] \in Nat
        BY <1>0, <2>1, <4>1, CountsMove
      <4> QED BY <2>3, <3>3, <4>2, TornBalance
    <3> QED BY <3>5, <3>6
  <2>5. call.onto = call.out
    BY <1>0, <1>2 DEF CallIsConsistent, CallIsAsked, CallIsUnderWay, CallIsCaching,
         ReferenceOwned
  <2> QED BY <1>0, <1>2, <2>1, <2>2, <2>3, <2>4, <2>5, CachedKeeps, BackendAssumption
<1>3. ASSUME Lost, NEW loss \in Losses, RaiseCaching(loss), cache' = cache, result' = result
      PROVE  BackendIsConsistent'
  BY <1>0, <1>3, LossCachingKeeps
<1> QED BY <1>1, <1>2, <1>3 DEF RememberKnown

\* What putting a new entry does: the cache is kept, one reference moves to it, and the
\* one of the entry that has gone is given back next, if the process still has it.
LEMMA PutIs ==
  ASSUME BackendIsConsistent, call.at = "remember", ~ IsKnown, NEW g \in 1..MaxStarts,
         g <= generation', Put(g)
  PROVE  /\ CacheIsKept /\ CountingFor(ToSet(cache'), call.handle, g) # {}
         /\ \/ /\ Cached(g)
               /\ \A h : Cardinality(CountingFor(ToSet(cache'), h, g)) =
                           Cardinality(CountingFor(ToSet(cache), h, g))
                             + (IF h = call.handle THEN 1 ELSE 0)
            \/ /\ result' = result /\ answer' = answer
               /\ \E e \in ToSet(cache) :
                    /\ e.generation = g
                    /\ call' = [call EXCEPT !.at = "discard", !.drop = e.handle]
                    /\ \A h : Cardinality(CountingFor(ToSet(cache'), h, g)) =
                                Cardinality(CountingFor(ToSet(cache), h, g))
                                  + (IF h = call.handle THEN 1 ELSE 0)
                                  - (IF h = e.handle THEN 1 ELSE 0)
<1>0. /\ cache \in Seq(Entries) /\ CacheIsDistinct /\ Len(cache) <= MaxCached
  BY DEF BackendIsConsistent, BackendTypeOK
<1> DEFINE n == Entry(call.onto, call.handle, g)
<1> DEFINE gone == Evicted(call.onto)
<1> DEFINE held == {e \in gone : e.generation = g}
<1>1. n \in Entries /\ n.path = call.onto /\ n.handle = call.handle /\ n.generation = g
      /\ n.signature = call.handle
  BY NewEntry
<1>2. cache' = Append(Remaining(n.path), n)
  BY <1>1 DEF Put
<1>3. \/ held = {} /\ Cached(g)
      \/ \E e \in held : /\ call' = [call EXCEPT !.at = "discard", !.drop = e.handle]
                         /\ UNCHANGED <<result, answer>>
  BY DEF Put
<1> HIDE DEF n
<1>4. /\ cache' \in Seq(Entries) /\ PathsDiffer(cache') /\ Len(cache') <= MaxCached
      /\ ToSet(cache') = Exchanged(ToSet(cache), gone, n)
      /\ gone \subseteq ToSet(cache) /\ \A x, y \in gone : x = y
      /\ \A x \in ToSet(cache) \ gone : x.path # n.path
  BY <1>0, <1>1, <1>2, PutEntry
<1> HIDE DEF gone
<1>5. CacheIsKept
  BY <1>1, <1>4 DEF CacheIsKept, Exchanged
<1>6. n \in CountingFor(ToSet(cache'), call.handle, g)
  BY <1>1, <1>4 DEF CountingFor, Exchanged
<1>7. ASSUME NEW h
      PROVE  /\ Cardinality(CountingFor(ToSet(cache), h, g)) \in Nat
             /\ Cardinality(CountingFor(ToSet(cache'), h, g)) =
                  Cardinality(CountingFor(ToSet(cache), h, g))
                    - (IF CountingFor(gone, h, g) # {} THEN 1 ELSE 0)
                    + (IF h = call.handle THEN 1 ELSE 0)
  <2>1. IsFiniteSet(ToSet(cache)) /\ n \notin ToSet(cache) \ gone
    BY <1>0, <1>4, CacheIsFinite
  <2>2. /\ Cardinality(CountingFor(ToSet(cache), h, g)) \in Nat
        /\ Cardinality(CountingFor(ToSet(cache'), h, g)) =
             Cardinality(CountingFor(ToSet(cache), h, g))
               - (IF CountingFor(gone, h, g) # {} THEN 1 ELSE 0)
               + (IF n.handle = h /\ n.generation = g THEN 1 ELSE 0)
    BY <1>4, <2>1, ReplacedCount
  <2> QED BY <1>1, <2>2
<1>8. CASE held = {} /\ Cached(g)
  <2>1. \A h : CountingFor(gone, h, g) = {}
    BY <1>8 DEF CountingFor
  <2>2. ASSUME NEW h
        PROVE  Cardinality(CountingFor(ToSet(cache'), h, g)) =
                 Cardinality(CountingFor(ToSet(cache), h, g)) + (IF h = call.handle THEN 1 ELSE 0)
    BY <1>7, <2>1
  <2> QED BY <1>5, <1>6, <1>8, <2>2
<1>9. ASSUME NEW e \in held, call' = [call EXCEPT !.at = "discard", !.drop = e.handle],
             UNCHANGED <<result, answer>>
      PROVE  /\ result' = result /\ answer' = answer /\ e \in ToSet(cache) /\ e.generation = g
             /\ call' = [call EXCEPT !.at = "discard", !.drop = e.handle]
             /\ \A h : Cardinality(CountingFor(ToSet(cache'), h, g)) =
                         Cardinality(CountingFor(ToSet(cache), h, g))
                           + (IF h = call.handle THEN 1 ELSE 0)
                           - (IF h = e.handle THEN 1 ELSE 0)
  <2>1. e \in gone /\ e \in ToSet(cache) /\ e.generation = g
    BY <1>4
  <2>2. ASSUME NEW h PROVE CountingFor(gone, h, g) # {} <=> h = e.handle
    BY <1>4, <2>1 DEF CountingFor
  <2>3. ASSUME NEW h
        PROVE  Cardinality(CountingFor(ToSet(cache'), h, g)) =
                 Cardinality(CountingFor(ToSet(cache), h, g))
                   + (IF h = call.handle THEN 1 ELSE 0) - (IF h = e.handle THEN 1 ELSE 0)
    BY <1>7, <2>2
  <2> QED BY <1>9, <2>1, <2>3
<1>10. \/ Cached(g) /\ held = {}
       \/ \E e \in ToSet(cache) :
            /\ e.generation = g /\ result' = result /\ answer' = answer
            /\ call' = [call EXCEPT !.at = "discard", !.drop = e.handle]
            /\ \A h : Cardinality(CountingFor(ToSet(cache'), h, g)) =
                        Cardinality(CountingFor(ToSet(cache), h, g))
                          + (IF h = call.handle THEN 1 ELSE 0)
                          - (IF h = e.handle THEN 1 ELSE 0)
  BY <1>3, <1>9
<1> HIDE DEF held
<1> QED BY <1>5, <1>6, <1>8, <1>10

\* The call gives the reference of the entry that has gone back next.
LEMMA DiscardNext ==
  ASSUME BackendIsConsistent, call.at = "remember", NEW e \in Entries,
         call' = [call EXCEPT !.at = "discard", !.drop = e.handle], answer' = answer,
         result' = result, file' = file, CacheIsKept, ProcessIsKept, Balanced',
         Generation' = Generation, torn' = torn, alive' = TRUE \/ UNCHANGED worker,
         call.onto # call.out /\ Generation \notin torn =>
           CountingFor(ToSet(cache'), call.handle, Generation) # {}
  PROVE  BackendIsConsistent'
<1>0. /\ BackendTypeOK /\ CacheIsDistinct /\ GenerationsHaveBegun /\ CallIsConsistent
      /\ file' \in [Paths -> Modules] /\ e.handle \in Modules /\ DeathsAreTorn
      /\ None \notin Modules
  BY BackendAssumption DEF BackendIsConsistent, BackendTypeOK, Entries
<1>2. IsCall(call')
  BY <1>0, CallFields DEF BackendTypeOK, IsCall
<1>3. /\ call'.at = "discard" /\ call'.handle = call.handle /\ call'.op = call.op
      /\ call'.path = call.path /\ call'.out = call.out /\ call'.pass = call.pass
      /\ call'.target = call.target /\ call'.source = call.source /\ call'.parent = call.parent
      /\ call'.drop = e.handle /\ call'.onto = call.onto
  BY <1>0, CallFields DEF BackendTypeOK, IsCall
<1>4. CallIsConsistent'
  <2>1. call' # NoCall
    BY <1>3 DEF NoCall
  <2>2. generation' >= 1
    BY <1>0, BackendAssumption DEF ProcessIsKept, CallIsConsistent, CallIsAsked,
         CallIsUnderWay, CallIsCaching, BackendTypeOK
  <2>3. e.handle # None /\ answer = NoAnswer
    BY <1>0 DEF CallIsConsistent, CallIsAsked, CallIsUnderWay, CallIsCaching
  <2> QED BY <1>0, <1>3, <2>1, <2>2, <2>3 DEF CallIsConsistent, CallIsAsked, CallIsUnderWay,
       CallIsCaching
<1>5. DeathsAreTorn'
  BY <1>0, <1>3 DEF DeathsAreTorn, worker
<1>6. HandleIsHeld'
  <2>1. Generation' \notin torn' /\ call'.onto # call'.out => Holding(call.handle)' # {}
    BY <1>3 DEF Holding
  <2> HIDE DEF Generation, Holding
  <2> QED BY <1>3, <2>1 DEF HandleIsHeld
<1> QED BY <1>0, <1>2, <1>4, <1>5, <1>6, ResultsKept, GoesOn

\* _remember_signature, of a path that is not.
LEMMA RememberNewConsistent == BackendIsConsistent /\ RememberNew => BackendIsConsistent'
<1> SUFFICES ASSUME BackendIsConsistent, RememberNew PROVE BackendIsConsistent'
  OBVIOUS
<1>0. /\ BackendTypeOK /\ GenerationsHaveBegun /\ CallIsConsistent /\ Balanced
      /\ call.at = "remember" /\ ~ IsKnown /\ file' = file /\ call.handle \in Modules
  BY DEF BackendIsConsistent, RememberNew, BackendTypeOK, IsCall, CallIsConsistent,
       CallIsAsked, CallIsUnderWay, CallIsCaching
\* A reference counted once more moves to the new entry, or the one that came with the module.
<1>1. ASSUME NEW g \in 1..MaxStarts, g <= generation', Put(g), Generation' = Generation,
             torn' = torn, Stranded' = Stranded, ProcessIsKept,
             alive' = TRUE \/ UNCHANGED worker,
             alive => g = Generation,
             \A h \in Modules :
               References'[h] = References[h]
                                  + (IF h = call.handle /\ ~ ReferenceOwned THEN 1 ELSE 0),
             ~ alive => UNCHANGED worker
      PROVE  BackendIsConsistent'
  <2>1. CacheIsKept /\ CountingFor(ToSet(cache'), call.handle, g) # {}
    BY <1>0, <1>1, PutIs
  <2>2. \A h \in Modules : Pending(h) = IF h = call.handle /\ ReferenceOwned THEN 1 ELSE 0
    BY <1>0 DEF Pending
  <2>3. call.onto # call.out /\ Generation \notin torn =>
          CountingFor(ToSet(cache'), call.handle, Generation) # {}
    <3>1. ~ alive => Generation \in torn
      BY <1>0, DeadIs
    <3> QED BY <1>1, <2>1, <3>1
  <2>4. ASSUME NEW h \in Modules, IsFiniteSet(Owning(h)'), ~ alive PROVE IsBalanced(h)'
    <3>1. References[h] = 0 /\ Generation \in torn
      BY <1>0, <2>4, DeadIs
    <3>2. References'[h] = References[h] /\ Stranded'[h] \in Nat
      BY <1>0, <1>1, <2>4, CountsMove DEF References, worker
    <3> QED BY <1>1, <2>1, <2>4, <3>1, <3>2, TornBalance
  <2>5. ASSUME NEW h \in Modules
        PROVE  /\ IsBalanced(h) /\ IsFiniteSet(Owning(h))
               /\ Cardinality(Holding(h)) \in Nat /\ Cardinality(Owning(h)) \in Nat
               /\ All(h) \in Nat /\ References[h] \in Nat
    <3>1. IsBalanced(h) /\ IsFiniteSet(Owning(h))
      BY <1>0 DEF Balanced, IsBalanced
    <3> QED BY <1>0, <3>1, AllIs
  <2>6. ASSUME Cached(g),
               \A h : Cardinality(CountingFor(ToSet(cache'), h, g)) =
                        Cardinality(CountingFor(ToSet(cache), h, g))
                          + (IF h = call.handle THEN 1 ELSE 0)
        PROVE  BackendIsConsistent'
    <3>1. ASSUME NEW h \in Modules PROVE IsBalanced(h)'
      <4>1. Owning(h)' = Owning(h) /\ Pending(h)' = 0
        BY <1>0, <1>1, <2>6, CachedOwning, CachedIs
      <4>2. IsFiniteSet(Owning(h)')
        BY <2>5, <4>1
      <4>3. CASE alive
        <5>1. Cardinality(Holding(h)') = Cardinality(Holding(h))
                + (IF h = call.handle THEN 1 ELSE 0)
          <6>1. Holding(h)' = CountingFor(ToSet(cache'), h, g)
            BY <1>1, <4>3 DEF Holding
          <6>2. Holding(h) = CountingFor(ToSet(cache), h, g)
            BY <1>1, <4>3 DEF Holding
          <6> QED BY <2>6, <6>1, <6>2
        <5> DEFINE x == IF h = call.handle /\ ~ ReferenceOwned THEN 1 ELSE 0
        <5>2. All(h)' = All(h) + x
          <6>1. All(h)' = Cardinality(Holding(h)) + (IF h = call.handle THEN 1 ELSE 0)
                            + Cardinality(Owning(h))
            BY <2>5, <4>1, <5>1 DEF All
          <6>2. All(h) = Cardinality(Holding(h)) + Cardinality(Owning(h))
                           + (IF h = call.handle /\ ReferenceOwned THEN 1 ELSE 0)
            BY <2>2 DEF All
          <6> QED BY <2>5, <6>1, <6>2
        <5>3. x \in {-1, 0, 1} /\ All(h)' >= 0
          BY <2>5, <5>2
        <5>4. References'[h] = IF References[h] + x >= 0 THEN References[h] + x ELSE 0
          <6>1. References'[h] = References[h] + x
            BY <1>1
          <6> QED BY <2>5, <6>1
        <5> HIDE DEF x
        <5> QED BY <1>0, <1>1, <2>5, <4>2, <5>2, <5>3, <5>4, BalanceMoves
      <4> QED BY <2>4, <4>2, <4>3
    <3>2. Balanced'
      BY <3>1 DEF Balanced
    <3> QED BY <1>0, <1>1, <2>1, <2>3, <2>6, <3>2, CachedKeeps
  <2>7. ASSUME NEW e \in ToSet(cache), e.generation = g, result' = result, answer' = answer,
               call' = [call EXCEPT !.at = "discard", !.drop = e.handle],
               \A h : Cardinality(CountingFor(ToSet(cache'), h, g)) =
                        Cardinality(CountingFor(ToSet(cache), h, g))
                          + (IF h = call.handle THEN 1 ELSE 0)
                          - (IF h = e.handle THEN 1 ELSE 0)
        PROVE  BackendIsConsistent'
    <3>0. e \in Entries
      BY <1>0, DistinctCache DEF BackendTypeOK
    <3>1. ASSUME NEW h \in Modules PROVE IsBalanced(h)'
      <4>1. Owning(h)' = Owning(h)
        BY <1>1, <2>7 DEF Owning
      <4>2. IsFiniteSet(Owning(h)')
        BY <2>5, <4>1
      <4>3. Pending(h)' = IF h = e.handle THEN 1 ELSE 0
        <5>1. call'.at = "discard" /\ call'.drop = e.handle
          BY <1>0, <2>7, CallFields DEF BackendTypeOK, IsCall
        <5> QED BY <5>1 DEF Pending
      <4>4. CASE alive
        <5>1. Cardinality(Holding(h)') = Cardinality(Holding(h))
                + (IF h = call.handle THEN 1 ELSE 0) - (IF h = e.handle THEN 1 ELSE 0)
          <6>1. Holding(h)' = CountingFor(ToSet(cache'), h, g)
            BY <1>1, <4>4 DEF Holding
          <6>2. Holding(h) = CountingFor(ToSet(cache), h, g)
            BY <1>1, <4>4 DEF Holding
          <6> QED BY <2>7, <6>1, <6>2
        <5> DEFINE x == IF h = call.handle /\ ~ ReferenceOwned THEN 1 ELSE 0
        <5>2. All(h)' = All(h) + x
          <6>1. All(h)' = (Cardinality(Holding(h)) + (IF h = call.handle THEN 1 ELSE 0)
                             - (IF h = e.handle THEN 1 ELSE 0))
                            + Cardinality(Owning(h)) + (IF h = e.handle THEN 1 ELSE 0)
            BY <4>1, <4>3, <5>1 DEF All
          <6>2. All(h) = Cardinality(Holding(h)) + Cardinality(Owning(h))
                           + (IF h = call.handle /\ ReferenceOwned THEN 1 ELSE 0)
            BY <2>2 DEF All
          <6> QED BY <2>5, <6>1, <6>2
        <5>3. x \in {-1, 0, 1} /\ All(h)' >= 0
          BY <2>5, <5>2
        <5>4. References'[h] = IF References[h] + x >= 0 THEN References[h] + x ELSE 0
          <6>1. References'[h] = References[h] + x
            BY <1>1
          <6> QED BY <2>5, <6>1
        <5> HIDE DEF x
        <5> QED BY <1>0, <1>1, <2>5, <4>2, <5>2, <5>3, <5>4, BalanceMoves
      <4> QED BY <2>4, <4>2, <4>4
    <3>2. Balanced'
      BY <3>1 DEF Balanced
    <3> QED BY <1>0, <1>1, <2>1, <2>3, <2>7, <3>0, <3>2, DiscardNext
  <2> QED BY <1>0, <1>1, <2>6, <2>7, PutIs
<1>2. CASE ReferenceOwned /\ Put(generation) /\ UNCHANGED worker
  <2>1. /\ Generation' = Generation /\ torn' = torn /\ Stranded' = Stranded /\ References' = References /\ ProcessIsKept
        /\ generation' = generation
    BY <1>0, <1>2, StartedIs DEF worker
  <2>2. generation \in 1..MaxStarts /\ (alive => generation = Generation)
        /\ generation <= generation
    BY <1>0, AliveIs, BackendAssumption DEF BackendTypeOK, CallIsConsistent, CallIsAsked,
         CallIsUnderWay, CallIsCaching
  <2>3. \A h \in Modules : References'[h] = References[h]
                             + (IF h = call.handle /\ ~ ReferenceOwned THEN 1 ELSE 0)
    <3>1. ASSUME NEW h \in Modules PROVE References[h] \in Nat
      BY <1>0, CountsAre
    <3> HIDE DEF References
    <3> QED BY <1>2, <2>1, <3>1
  <2> QED BY <1>1, <1>2, <2>1, <2>2, <2>3
<1>3. CASE /\ ~ ReferenceOwned /\ Holds(call.handle)
           /\ Replied(Interned(call.handle)) /\ Put(Generation)
  <2>1. /\ alive' = TRUE /\ torn' = torn /\ Stranded' = Stranded /\ References' = Interned(call.handle)
        /\ generation' = Generation /\ Generation' = Generation /\ Generation \in 1..MaxStarts
    BY <1>0, <1>3, RepliedIs
  <2>2. ProcessIsKept
    BY <1>0, <1>3, CountsAre, ProcessKept
  <2>3. alive
    BY <1>0, <1>3, DeadIs DEF Holds
  <2>4. \A h \in Modules : References'[h] = References[h]
                             + (IF h = call.handle /\ ~ ReferenceOwned THEN 1 ELSE 0)
    <3>1. ASSUME NEW h \in Modules
          PROVE  /\ Interned(call.handle)[h] =
                      IF h = call.handle THEN References[h] + 1 ELSE References[h]
                 /\ References[h] \in Nat
      BY <1>0, CountsMove
    <3> HIDE DEF References
    <3> QED BY <1>3, <2>1, <3>1
  <2>5. Generation <= generation'
    BY <2>1
  <2> QED BY <1>1, <1>3, <2>1, <2>2, <2>3, <2>4, <2>5
<1>4. CASE ~ ReferenceOwned /\ Started /\ Return("error") /\ UNCHANGED <<cache, result>>
  BY <1>0, <1>4, CacheKept, ErrorKeeps DEF BackendIsConsistent, BackendTypeOK
<1>5. CASE ~ ReferenceOwned /\ Lost /\ Return("error") /\ UNCHANGED <<cache, result>>
  <2>1. Raise("broken") /\ "broken" \in Losses
    BY <1>5 DEF Raise, Losses, ReferenceOwned
  <2>2. file' \in [Paths -> Modules]
    BY <1>0 DEF BackendTypeOK
  <2> QED BY <1>0, <1>5, <2>1, <2>2, CacheKept, LossKeeps DEF BackendIsConsistent
<1> QED BY <1>2, <1>3, <1>4, <1>5 DEF RememberNew

-----------------------------------------------------------------------------
(* Giving references back.                                                 *)

\* A call that gives back the reference it has, on a process that runs or on a new one.
LEMMA DroppedBalance ==
  ASSUME BackendIsConsistent, NEW g \in Modules, Replied(Dropped(g)),
         ToSet(cache') = ToSet(cache), \A h \in Modules : Owning(h)' = Owning(h),
         CacheIsKept,
         \A h \in Modules : /\ alive => Pending(h) = IF h = g THEN 1 ELSE 0
                            /\ Pending(h)' = 0,
         ~ alive => Generation \in torn \/ \A h \in Modules : Pending(h) = 0
  PROVE  Balanced'
<1>0. BackendTypeOK /\ GenerationsHaveBegun /\ Balanced
  BY DEF BackendIsConsistent
<1>1. torn' = torn /\ Stranded' = Stranded /\ References' = Dropped(g) /\ Generation' = Generation
  BY <1>0, RepliedIs
<1> SUFFICES ASSUME NEW h \in Modules PROVE IsBalanced(h)'
  BY DEF Balanced
<1>2. /\ References[h] \in Nat
      /\ Dropped(g)[h] = IF h # g THEN References[h]
                         ELSE IF References[h] - 1 >= 0 THEN References[h] - 1 ELSE 0
  BY <1>0, CountsMove
<1>3. CASE alive
  <2> DEFINE x == IF h = g THEN -1 ELSE 0
  <2>1. x \in {-1, 0, 1} /\ Pending(h)' = Pending(h) + x
    BY <1>3
  <2>2. References'[h] = IF References[h] + x >= 0 THEN References[h] + x ELSE 0
    <3> HIDE DEF References
    <3> QED BY <1>1, <1>2
  <2> HIDE DEF x
  <2> QED BY <1>0, <1>1, <2>1, <2>2, PendingMoves
<1>4. CASE ~ alive
  <2>1. References[h] = 0
    BY <1>4, DeadIs
  <2>2. References'[h] = 0 /\ Stranded'[h] \in Nat
    BY <1>0, <1>1, <1>2, <2>1, CountsMove
  <2>3. IsFiniteSet(Owning(h)')
    BY <1>0 DEF Balanced, IsBalanced
  <2>4. CASE Generation \in torn
    BY <1>1, <2>2, <2>3, <2>4, TornBalance
  <2>5. CASE Pending(h) = 0
    <3>1. Pending(h)' = Pending(h) + 0
      BY <2>5
    <3>2. References'[h] = IF References[h] + 0 >= 0 THEN References[h] + 0 ELSE 0
      BY <2>1, <2>2
    <3> QED BY <1>0, <1>1, <3>1, <3>2, PendingMoves
  <2> QED BY <1>4, <2>4, <2>5
<1> QED BY <1>3, <1>4

\* The reference of an evicted entry is given back.
LEMMA DiscardConsistent == BackendIsConsistent /\ Discard => BackendIsConsistent'
<1> SUFFICES ASSUME BackendIsConsistent, Discard PROVE BackendIsConsistent'
  OBVIOUS
<1>0. /\ BackendTypeOK /\ CacheIsDistinct /\ GenerationsHaveBegun /\ CallIsConsistent
      /\ HandleIsHeld
      /\ call.at = "discard" /\ file' = file /\ cache' = cache
      /\ call.drop \in Modules
  BY DEF BackendIsConsistent, Discard, BackendTypeOK, IsCall, CallIsConsistent, CallIsAsked,
       CallIsUnderWay, CallIsCaching
<1>1. CacheIsKept
  BY <1>0, CacheKept
<1>2. CASE Replied(Dropped(call.drop)) /\ Cached(Generation)
  <2>1. /\ alive' = TRUE /\ torn' = torn /\ generation' = Generation
        /\ Generation' = Generation /\ Generation \in 1..MaxStarts
    BY <1>0, <1>2, RepliedIs
  <2>2. ProcessIsKept
    BY <1>0, <1>2, CountsAre, ProcessKept
  <2>3. ASSUME NEW h \in Modules
        PROVE  /\ Owning(h)' = Owning(h) /\ Pending(h)' = 0
               /\ Pending(h) = IF h = call.drop THEN 1 ELSE 0
    <3>1. Owning(h)' = Owning(h)
      BY <1>0, <1>2, <2>1, CachedOwning
    <3>2. Pending(h)' = 0
      BY <1>0, <1>2, CachedIs
    <3>3. Pending(h) = IF h = call.drop THEN 1 ELSE 0
      BY <1>0 DEF Pending
    <3> QED BY <3>1, <3>2, <3>3
  <2>4. ~ alive => Generation \in torn
    BY <1>0, DeadIs
  <2>5. Balanced'
    BY <1>0, <1>1, <1>2, <2>3, <2>4, DroppedBalance
  <2>6. call.onto # call.out /\ Generation \notin torn =>
          CountingFor(ToSet(cache'), call.handle, Generation) # {}
    BY <1>0 DEF HandleIsHeld, Holding
  <2>7. Generation <= generation'
    BY <2>1
  <2> QED BY <1>0, <1>1, <1>2, <2>1, <2>2, <2>5, <2>6, <2>7, CachedKeeps
<1>3. ASSUME Lost, NEW loss \in Losses, RaiseCaching(loss), result' = result
      PROVE  BackendIsConsistent'
  BY <1>0, <1>3, LossCachingKeeps
<1> QED BY <1>2, <1>3 DEF Discard

\* The file just written is unreadable.
LEMMA WrittenUnreadable ==
  ASSUME BackendIsConsistent, call.at = "remember", call.onto = call.out, RaiseCaching("broken"),
         UNCHANGED worker, file' = file, cache' = cache, result' = result
  PROVE  BackendIsConsistent'
<1>0. /\ BackendTypeOK /\ CacheIsDistinct /\ GenerationsHaveBegun /\ CallIsConsistent /\ Balanced
      /\ "broken" \in Losses /\ file' \in [Paths -> Modules]
  BY DEF BackendIsConsistent, BackendTypeOK, Losses
<1>1. /\ CacheIsKept /\ ProcessIsKept /\ Generation' = Generation /\ torn' = torn /\ Stranded' = Stranded
      /\ References' = References
  BY <1>0, CacheKept, StartedIs
<1>2. CASE call.op # "materialize"
  <2>1. call'.at = "rollback" /\ call'.handle = call.handle
    BY <1>0, <1>2, CallFields DEF RaiseCaching, BackendTypeOK, IsCall
  <2>2. ASSUME NEW h \in Modules PROVE IsBalanced(h)'
    <3>1. Owning(h)' = Owning(h) /\ References'[h] = References[h]
      BY <1>0, <1>1 DEF Owning
    <3>2. CASE alive
      <4>1. Pending(h)' = Pending(h)
        BY <1>0, <1>2, <2>1, <3>2 DEF Pending, ReferenceOwned, worker
      <4>2. Pending(h) \in {0, 1}
        BY DEF Pending
      <4>3. References[h] \in Nat
        BY <1>0, CountsMove
      <4>4. /\ Pending(h)' = Pending(h) + 0
            /\ References'[h] = IF References[h] + 0 >= 0 THEN References[h] + 0 ELSE 0
        <5> HIDE DEF References
        <5> QED BY <3>1, <4>1, <4>2, <4>3
      <4> QED BY <1>0, <1>1, <3>1, <4>4, PendingMoves
    <3>3. CASE ~ alive
      <4>1. References'[h] = 0 /\ Generation' \in torn' /\ Stranded'[h] \in Nat
        BY <1>0, <1>1, <3>1, <3>3, DeadIs, CountsMove
      <4>2. IsFiniteSet(Owning(h)')
        BY <1>0, <3>1 DEF Balanced, IsBalanced
      <4> QED BY <1>1, <4>1, <4>2, TornBalance
    <3> QED BY <3>2, <3>3
  <2>3. Balanced'
    BY <2>2 DEF Balanced
  <2> QED BY <1>0, <1>1, <1>2, <2>3, RollsBack
<1>3. CASE call.op = "materialize"
  <2>1. Raise("broken")
    BY <1>0, <1>3 DEF RaiseCaching
  <2>2. call' = NoCall
    BY <1>3, <2>1 DEF Raise, Return
  <2>3. \A h \in Modules : Pending(h)' = Pending(h)
    <3>1. call'.at = "idle"
      BY <2>2 DEF NoCall
    <3> QED BY <1>0, <1>3, <3>1 DEF Pending, ReferenceOwned
  <2>4. Balanced'
    BY <1>0, <1>1, <2>3, SameBalance
  <2>5. call.op = "run" => file'[call.path] = file[call.path]
    BY <1>0
  <2> QED BY <1>0, <1>1, <2>1, <2>4, <2>5, RaiseKeeps
<1> QED BY <1>2, <1>3

\* A file is unreadable.
LEMMA SignatureFailsConsistent == BackendIsConsistent /\ SignatureFails => BackendIsConsistent'
<1> SUFFICES ASSUME BackendIsConsistent, SignatureFails PROVE BackendIsConsistent'
  OBVIOUS
<1>a. /\ BackendTypeOK /\ CacheIsDistinct /\ GenerationsHaveBegun /\ CallIsConsistent /\ Balanced
      /\ file' = file /\ cache' = cache /\ result' = result
      /\ "broken" \in Losses /\ file' \in [Paths -> Modules]
  BY DEF BackendIsConsistent, SignatureFails, BackendTypeOK, Losses
<1>b. CASE call.at = "load" /\ Started /\ Return("error")
  BY <1>a, <1>b, CacheKept, ErrorKeeps
<1>c. CASE /\ call.at = "remember" /\ call.onto = call.out
           /\ RaiseCaching("broken") /\ UNCHANGED worker
  BY <1>a, <1>c, WrittenUnreadable
<1> QED BY <1>b, <1>c DEF SignatureFails

\* The handle of a result that was not cached is given back.
LEMMA RollbackConsistent == BackendIsConsistent /\ Rollback => BackendIsConsistent'
<1> SUFFICES ASSUME BackendIsConsistent, Rollback PROVE BackendIsConsistent'
  OBVIOUS
<1>0. /\ BackendTypeOK /\ CacheIsDistinct /\ GenerationsHaveBegun /\ CallIsConsistent
      /\ call.at = "rollback" /\ file' = file /\ cache' = cache /\ result' = result
      /\ call.handle \in Modules /\ call.loss \in Losses /\ Raise(call.loss)
      /\ file' \in [Paths -> Modules]
  BY DEF BackendIsConsistent, Rollback, BackendTypeOK, IsCall, CallIsConsistent, CallIsAsked,
       CallIsUnderWay, CallIsCaching
<1>1. CacheIsKept
  BY <1>0, CacheKept
<1>2. CASE Replied(Dropped(call.handle))
  <2>1. ProcessIsKept /\ Generation' = Generation
    BY <1>0, <1>2, CountsAre, ProcessKept, RepliedIs
  <2>2. call'.at \in {"idle", "load"}
    <3>1. \/ call' = NoCall
          \/ call' = [call EXCEPT !.at = "load", !.attempt = 1, !.handle = None, !.onto = None,
                                    !.drop = None, !.loss = "none"]
      BY <1>0, RaisedIs
    <3>2. NoCall.at = "idle"
      BY DEF NoCall
    <3> QED BY <1>0, <3>1, <3>2, CallFields DEF BackendTypeOK, IsCall
  <2>3. ASSUME NEW h \in Modules
        PROVE /\ Owning(h)' = Owning(h) /\ Pending(h)' = 0
              /\ alive => Pending(h) = IF h = call.handle THEN 1 ELSE 0
              /\ ~ alive => Pending(h) = 0
    BY <1>0, <2>1, <2>2 DEF Pending, Owning
  <2>4. Balanced'
    BY <1>0, <1>1, <1>2, <2>3, DroppedBalance
  <2> QED BY <1>0, <1>1, <2>1, <2>4, RaiseKeeps
<1>3. CASE Lost
  BY <1>0, <1>1, <1>3, LossKeeps
<1> QED BY <1>2, <1>3 DEF Rollback

-----------------------------------------------------------------------------
(* Results: checked, written, released, and made.                          *)

\* A call that ends without a result.
LEMMA EndsPlainly ==
  ASSUME BackendIsConsistent, NEW k \in {"stale", "released", "unknown_handle", "materialize_failed"}, Return(k),
         k = "unknown_handle" => generation' \in torn',
         ProcessIsKept, CacheIsKept, ResultsAreKept, file' \in [Paths -> Modules], Balanced'
  PROVE  BackendIsConsistent'
<1>0. /\ BackendTypeOK /\ CacheIsDistinct /\ GenerationsHaveBegun
      /\ call' = NoCall
      /\ answer' = [kind |-> k, pass |-> None, source |-> None, handle |-> None]
  BY DEF BackendIsConsistent, Return, NoAnswer
<1>1. IsCall(call') /\ CallIsConsistent' /\ DeathsAreTorn' /\ HandleIsHeld'
  BY <1>0, EndedCall
<1>2. answer' \in Answers
  BY <1>0 DEF BackendTypeOK, IsCall, Answers
<1>3. ResultsAreRight' /\ HandlesAreKnown'
  BY <1>0 DEF ResultsAreRight, HandlesAreKnown
<1> QED BY <1>0, <1>1, <1>2, <1>3, TypesKept DEF BackendIsConsistent

\* A result that is changed in one place.
LEMMA ResultChanged ==
  ASSUME BackendTypeOK, GenerationsHaveBegun, NEW r \in Results,
         NEW v \in [handle : Modules \cup {None}, generation : 0..MaxStarts, owned : BOOLEAN],
         result' = [result EXCEPT ![r] = v], v.owned => v.handle # None,
         v.generation <= generation \/ v.generation <= generation'
  PROVE  ResultsAreKept /\ result'[r] = v /\ \A q \in Results : q # r => result'[q] = result[q]
<1>1. result'[r] = v /\ \A q \in Results : q # r => result'[q] = result[q]
  BY DEF BackendTypeOK
<1>2. result' \in [Results -> [handle : Modules \cup {None}, generation : 0..MaxStarts,
                               owned : BOOLEAN]]
  BY DEF BackendTypeOK
<1> QED BY <1>1, <1>2 DEF ResultsAreKept, GenerationsHaveBegun

\* The generation of a result is checked.
LEMMA CheckGenerationConsistent == BackendIsConsistent /\ CheckGeneration => BackendIsConsistent'
<1> SUFFICES ASSUME BackendIsConsistent, CheckGeneration PROVE BackendIsConsistent'
  OBVIOUS
<1>0. /\ BackendTypeOK /\ CacheIsDistinct /\ GenerationsHaveBegun /\ CallIsConsistent /\ Balanced
      /\ call.at = "check" /\ file' = file /\ cache' = cache /\ Started
      /\ call.parent \in Results /\ file' \in [Paths -> Modules]
      /\ call.op \in {"from", "materialize", "release"}
      /\ call.source = result[call.parent].handle /\ call.source \in Modules
  BY DEF BackendIsConsistent, CheckGeneration, BackendTypeOK, IsCall, CallIsConsistent,
       CallIsAsked, CallIsUnderWay, CallIsCaching
<1>1. /\ CacheIsKept /\ ProcessIsKept /\ Generation' = Generation /\ torn' = torn /\ Stranded' = Stranded
      /\ References' = References /\ alive' = TRUE /\ generation' = Generation
      /\ Generation \in 1..MaxStarts
  BY <1>0, CacheKept, StartedIs, RepliedIs DEF Started
<1>2. CASE /\ result[call.parent].generation = Generation
           /\ call' = [call EXCEPT !.at = IF call.op = "from" THEN "apply" ELSE call.op,
                                   !.handle = result[call.parent].handle]
           /\ UNCHANGED <<result, answer>>
  <2>1. /\ call'.at = (IF call.op = "from" THEN "apply" ELSE call.op)
        /\ call'.handle = call.source /\ call'.op = call.op
        /\ call'.path = call.path /\ call'.out = call.out /\ call'.pass = call.pass
        /\ call'.target = call.target /\ call'.source = call.source /\ call'.parent = call.parent
    BY <1>0, <1>2, CallFields DEF BackendTypeOK, IsCall
  <2>2. IsCall(call')
    BY <1>0, <1>2, CallFields DEF BackendTypeOK, IsCall
  <2>3. CallIsConsistent'
    <3>1. call' # NoCall
      BY <1>0, <2>1 DEF NoCall
    <3>2. generation' >= 1
      BY <1>1
    <3>3. result' = result /\ file' = file /\ answer' = answer
      BY <1>0, <1>2
    <3>4. CASE call.op = "from"
      BY <1>0, <2>1, <3>1, <3>2, <3>3, <3>4 DEF CallIsConsistent, CallIsAsked, CallIsUnderWay,
           CallIsCaching
    <3>5. CASE call.op \in {"materialize", "release"}
      BY <1>0, <2>1, <3>1, <3>2, <3>3, <3>5 DEF CallIsConsistent, CallIsAsked, CallIsUnderWay,
           CallIsCaching
    <3> QED BY <1>0, <3>4, <3>5
  <2>4. DeathsAreTorn'
    BY <1>1 DEF DeathsAreTorn
  <2>5. HandleIsHeld'
    <3>1. call.op \in {"from", "release"} => call.parent \in Owning(call.source)'
      BY <1>0, <1>1, <1>2 DEF Owning, CallIsConsistent, CallIsAsked, CallIsUnderWay,
           CallIsCaching
    <3> HIDE DEF Owning
    <3> QED BY <1>0, <2>1, <3>1 DEF HandleIsHeld
  <2>6. Balanced'
    <3>1. \A h \in Modules : Pending(h)' = Pending(h)
      BY <1>0, <2>1 DEF Pending
    <3> QED BY <1>0, <1>1, <1>2, <3>1, SameBalance
  <2> QED BY <1>0, <1>1, <1>2, <2>2, <2>3, <2>4, <2>5, <2>6, ResultsKept, GoesOn
<1>3. CASE /\ result[call.parent].generation # Generation
           /\ result' = [result EXCEPT ![call.parent].owned = FALSE]
           /\ Return("stale")
  <2> DEFINE v == [result[call.parent] EXCEPT !.owned = FALSE]
  <2>1. /\ v \in [handle : Modules \cup {None}, generation : 0..MaxStarts, owned : BOOLEAN]
        /\ v.generation = result[call.parent].generation /\ v.owned = FALSE
    BY <1>0 DEF BackendTypeOK
  <2>2. result' = [result EXCEPT ![call.parent] = v]
    BY <1>3
  <2>3. v.generation <= generation
    BY <1>0, <2>1 DEF GenerationsHaveBegun
  <2> HIDE DEF v
  <2>4. /\ ResultsAreKept /\ result'[call.parent] = v
        /\ \A q \in Results : q # call.parent => result'[q] = result[q]
    BY <1>0, <2>1, <2>2, <2>3, ResultChanged
  <2>5. ASSUME NEW h \in Modules PROVE IsBalanced(h)'
    <3>1. Owning(h)' = Owning(h)
      BY <1>0, <1>1, <1>3, <2>1, <2>4 DEF Owning
    <3>2. Pending(h) = 0 /\ Pending(h)' = 0
      <4>1. call'.at = "idle"
        BY <1>3 DEF Return, NoCall
      <4> QED BY <1>0, <4>1 DEF Pending
    <3>3. References[h] \in Nat /\ References'[h] = References[h]
      BY <1>0, <1>1, CountsMove
    <3>4. References'[h] = IF References[h] + 0 >= 0 THEN References[h] + 0 ELSE 0
      <4> HIDE DEF References
      <4> QED BY <3>3
    <3>5. Pending(h)' = Pending(h) + 0
      BY <3>2
    <3> QED BY <1>0, <1>1, <3>1, <3>4, <3>5, PendingMoves
  <2>6. Balanced'
    BY <2>5 DEF Balanced
  <2> QED BY <1>0, <1>1, <1>3, <2>4, <2>6, EndsPlainly
<1> QED BY <1>2, <1>3 DEF CheckGeneration

\* A result is written to a file.
LEMMA MaterializeConsistent == BackendIsConsistent /\ Materialize => BackendIsConsistent'
<1> SUFFICES ASSUME BackendIsConsistent, Materialize PROVE BackendIsConsistent'
  OBVIOUS
<1>0. /\ BackendTypeOK /\ CacheIsDistinct /\ GenerationsHaveBegun /\ CallIsConsistent /\ Balanced
      /\ call.at = "materialize" /\ cache' = cache /\ result' = result
      /\ call.op = "materialize" /\ call.handle = call.source /\ call.handle \in Modules
      /\ call.out \in Paths /\ file \in [Paths -> Modules]
  BY DEF BackendIsConsistent, Materialize, BackendTypeOK, IsCall, CallIsConsistent,
       CallIsAsked, CallIsUnderWay, CallIsCaching
<1>1. CacheIsKept
  BY <1>0, CacheKept
<1>2. CASE /\ Started
           /\ file' = [file EXCEPT ![call.out] = call.handle]
           /\ call' = [call EXCEPT !.at = "remember", !.onto = call.out]
           /\ answer' = answer
  <2>1. /\ ProcessIsKept /\ Generation' = Generation /\ torn' = torn /\ Stranded' = Stranded
        /\ References' = References /\ alive' = TRUE /\ generation' = Generation
        /\ Generation \in 1..MaxStarts
    BY <1>0, <1>2, StartedIs, RepliedIs DEF Started
  <2>2. /\ call'.at = "remember" /\ call'.onto = call.out
        /\ call'.handle = call.source /\ call'.op = call.op
        /\ call'.path = call.path /\ call'.out = call.out /\ call'.pass = call.pass
        /\ call'.target = call.target /\ call'.source = call.source /\ call'.parent = call.parent
    BY <1>0, <1>2, CallFields DEF BackendTypeOK, IsCall
  <2>3. IsCall(call')
    BY <1>0, <1>2, CallFields DEF BackendTypeOK, IsCall
  <2>4. file' \in [Paths -> Modules] /\ file'[call.out] = call.handle
    BY <1>0, <1>2
  <2>5. CallIsConsistent'
    <3>1. call' # NoCall
      BY <1>0, <2>2 DEF NoCall
    <3>2. generation' >= 1 /\ call.handle # None
      BY <1>0, <2>1, BackendAssumption
    <3> QED BY <1>0, <1>2, <2>2, <2>4, <3>1, <3>2 DEF CallIsConsistent, CallIsAsked,
         CallIsUnderWay, CallIsCaching
  <2>6. DeathsAreTorn' /\ HandleIsHeld'
    BY <2>1, <2>2 DEF DeathsAreTorn, HandleIsHeld
  <2>7. \A h \in Modules : Pending(h)' = Pending(h)
    BY <1>0, <2>2 DEF Pending, ReferenceOwned
  <2>8. Balanced'
    BY <1>0, <2>1, <2>7, SameBalance
  <2> QED BY <1>0, <1>1, <1>2, <2>1, <2>3, <2>4, <2>5, <2>6, <2>8, ResultsKept, GoesOn
<1>3. CASE Started /\ Return("error") /\ file' \in [Paths -> Modules]
  BY <1>0, <1>1, <1>3, ErrorKeeps
<1>4. CASE Lost /\ Return("error") /\ file' \in [Paths -> Modules]
  <2>1. Raise("broken") /\ "broken" \in Losses
    BY <1>0, <1>4 DEF Raise, Losses
  <2> QED BY <1>0, <1>1, <1>4, <2>1, LossKeeps
<1>5. [file EXCEPT ![call.out] = call.handle] \in [Paths -> Modules]
  BY <1>0
<1> QED BY <1>0, <1>2, <1>3, <1>4, <1>5 DEF Materialize

\* A result is released.
LEMMA ReleaseConsistent == BackendIsConsistent /\ ReleaseHandle => BackendIsConsistent'
<1> SUFFICES ASSUME BackendIsConsistent, ReleaseHandle PROVE BackendIsConsistent'
  OBVIOUS
<1>0. /\ BackendTypeOK /\ CacheIsDistinct /\ GenerationsHaveBegun /\ CallIsConsistent /\ Balanced
      /\ call.at = "release" /\ cache' = cache /\ file' = file /\ HandleIsHeld
      /\ call.op = "release" /\ call.handle = call.source /\ call.handle \in Modules
      /\ call.parent \in Results /\ file' \in [Paths -> Modules]
      /\ call.source = result[call.parent].handle
  BY DEF BackendIsConsistent, ReleaseHandle, BackendTypeOK, IsCall, CallIsConsistent,
       CallIsAsked, CallIsUnderWay, CallIsCaching
<1>1. CacheIsKept
  BY <1>0, CacheKept
<1>2. CASE /\ Holds(call.handle) /\ Replied(Dropped(call.handle))
           /\ result' = [result EXCEPT ![call.parent].owned = FALSE]
           /\ Return("released")
  <2>1. ProcessIsKept
    BY <1>0, <1>2, CountsAre, ProcessKept
  <2>2. Generation' = Generation /\ torn' = torn /\ Stranded' = Stranded /\ References' = Dropped(call.handle)
    BY <1>0, <1>2, RepliedIs
  <2> DEFINE v == [result[call.parent] EXCEPT !.owned = FALSE]
  <2>3. /\ v \in [handle : Modules \cup {None}, generation : 0..MaxStarts, owned : BOOLEAN]
        /\ v.generation = result[call.parent].generation /\ v.owned = FALSE
    BY <1>0 DEF BackendTypeOK
  <2>4. result' = [result EXCEPT ![call.parent] = v]
    BY <1>2
  <2>5. v.generation <= generation
    BY <1>0, <2>3 DEF GenerationsHaveBegun
  <2> HIDE DEF v
  <2>6. /\ ResultsAreKept /\ result'[call.parent] = v
        /\ \A q \in Results : q # call.parent => result'[q] = result[q]
    BY <1>0, <2>3, <2>4, <2>5, ResultChanged
  <2>7. ASSUME NEW h \in Modules PROVE IsBalanced(h)'
    <3>1. Owning(h)' = Owning(h) \ {call.parent}
      BY <1>0, <2>2, <2>3, <2>6 DEF Owning
    <3>2. call.parent \in Owning(h) => h = call.handle
      BY <1>0 DEF Owning
    <3>3. Pending(h) = 0 /\ Pending(h)' = 0 /\ Holding(h)' = Holding(h)
      <4>1. call'.at = "idle"
        BY <1>2 DEF Return, NoCall
      <4> QED BY <1>0, <2>2, <4>1 DEF Pending, Holding
    <3>4. /\ References[h] \in Nat
          /\ References'[h] = IF h # call.handle THEN References[h]
                              ELSE IF References[h] - 1 >= 0 THEN References[h] - 1 ELSE 0
          /\ h = call.handle => References[h] >= 1
      <4>1. References[h] \in Nat
        BY <1>0, CountsMove
      <4>2. h = call.handle => References[h] > 0
        BY <1>2 DEF Holds
      <4>3. References'[h] = IF h # call.handle THEN References[h]
                              ELSE IF References[h] - 1 >= 0 THEN References[h] - 1 ELSE 0
        BY <1>0, <2>2, CountsMove
      <4> HIDE DEF References
      <4> QED BY <4>1, <4>2, <4>3
    <3>5. IsBalanced(h) /\ IsFiniteSet(Owning(h))
      BY <1>0 DEF Balanced, IsBalanced
    <3>6. /\ Cardinality(Holding(h)) \in Nat /\ Cardinality(Owning(h)) \in Nat
          /\ Stranded[h] \in Nat
          /\ All(h) = Cardinality(Holding(h)) + Cardinality(Owning(h)) + Pending(h)
      BY <1>0, <3>5, AllIs
    <3>7. /\ IsFiniteSet(Owning(h)') /\ Cardinality(Owning(h)') \in Nat
          /\ Cardinality(Owning(h)') = Cardinality(Owning(h))
                - (IF call.parent \in Owning(h) THEN 1 ELSE 0)
      <4> HIDE DEF Owning
      <4>1. CASE call.parent \in Owning(h)
        BY <3>1, <3>5, <4>1, FS_RemoveElement, FS_CardinalityType
      <4>2. CASE call.parent \notin Owning(h)
        <5>1. Owning(h)' = Owning(h)
          BY <3>1, <4>2
        <5> QED BY <3>5, <3>6, <4>2, <5>1
      <4> QED BY <4>1, <4>2
    <3>8. All(h)' = Cardinality(Holding(h)) + Cardinality(Owning(h)')
      BY <3>3, <3>6, <3>7 DEF All
    <3>9. h = call.handle /\ Generation \notin torn => call.parent \in Owning(h)
      BY <1>0 DEF HandleIsHeld
    <3> HIDE DEF References, Stranded, Owning, Holding, Pending, All, Generation
    <3>10. /\ References[h] <= All(h) + Stranded[h]
           /\ Generation \notin torn => References[h] >= All(h) + Stranded[h]
      BY <3>5 DEF IsBalanced
    <3>11. References'[h] <= All(h)' + Stranded[h]
      BY <3>2, <3>3, <3>4, <3>6, <3>7, <3>8, <3>10
    <3>12. Generation \notin torn => References'[h] >= All(h)' + Stranded[h]
      BY <3>2, <3>3, <3>4, <3>6, <3>7, <3>8, <3>9, <3>10
    <3> QED BY <2>2, <3>7, <3>11, <3>12 DEF IsBalanced
  <2>8. Balanced'
    BY <2>7 DEF Balanced
  <2> QED BY <1>0, <1>1, <1>2, <2>1, <2>6, <2>8, EndsPlainly
<1>3. CASE Started /\ Return("error") /\ result' = result
  BY <1>0, <1>1, <1>3, ErrorKeeps
<1>4. CASE Lost /\ Return("error") /\ result' = result
  <2>1. Raise("broken") /\ "broken" \in Losses
    BY <1>0, <1>4 DEF Raise, Losses
  <2> QED BY <1>0, <1>1, <1>4, <2>1, LossKeeps
<1> QED BY <1>2, <1>3, <1>4 DEF ReleaseHandle

\* The cached entries that count are finitely many.
LEMMA HoldingIsFinite ==
  ASSUME BackendTypeOK, NEW h
  PROVE  IsFiniteSet(Holding(h)) /\ Cardinality(Holding(h)) \in Nat
<1>1. IsFiniteSet(ToSet(cache))
  BY CacheIsFinite DEF BackendTypeOK
<1>2. Holding(h) \in SUBSET ToSet(cache)
  BY DEF Holding, CountingFor
<1> QED BY <1>1, <1>2, FS_Subset, FS_CardinalityType

\* The process knows the module a pass is applied to, unless its predecessor died
\* within the call.
LEMMA ModuleIsHeld ==
  ASSUME BackendIsConsistent, call.at = "apply", Generation \notin torn
  PROVE  Holds(call.handle)
<1>0. BackendTypeOK /\ CallIsConsistent /\ Balanced /\ HandleIsHeld /\ call.handle \in Modules
  BY DEF BackendIsConsistent, BackendTypeOK, CallIsConsistent, CallIsAsked, CallIsUnderWay,
       CallIsCaching, IsCall
<1> DEFINE h == call.handle
<1>1. Holding(h) # {} \/ Owning(h) # {}
  BY <1>0 DEF HandleIsHeld, CallIsConsistent, CallIsAsked, CallIsUnderWay, CallIsCaching
<1>2. IsBalanced(h) /\ IsFiniteSet(Owning(h))
  BY <1>0 DEF Balanced, IsBalanced
<1>3. /\ Cardinality(Holding(h)) \in Nat /\ Cardinality(Owning(h)) \in Nat
      /\ Pending(h) \in {0, 1} /\ References[h] \in Nat /\ Stranded[h] \in Nat
      /\ All(h) = Cardinality(Holding(h)) + Cardinality(Owning(h)) + Pending(h)
  BY <1>0, <1>2, AllIs
<1>4. References[h] >= All(h) + Stranded[h]
  BY <1>2 DEF IsBalanced
<1>5. IsFiniteSet(Holding(h))
  BY <1>0, HoldingIsFinite
<1> HIDE DEF h, Holding, Owning, Pending, All, References, Stranded
<1>6. Cardinality(Holding(h)) > 0 \/ Cardinality(Owning(h)) > 0
  BY <1>1, <1>2, <1>3, <1>5, FS_EmptySet
<1>7. References[h] > 0
  BY <1>3, <1>4, <1>6
<1> QED BY <1>7 DEF Holds, h

\* The output of a pass is missing: its module is counted once more, for nobody.
LEMMA OutputIsMissing ==
  ASSUME BackendIsConsistent, call.at = "apply", NEW m \in Modules, MissingOutput(m),
         CacheIsKept, ToSet(cache') = ToSet(cache), result' = result,
         file' \in [Paths -> Modules]
  PROVE  BackendIsConsistent'
<1>0. BackendTypeOK /\ GenerationsHaveBegun /\ Balanced
  BY DEF BackendIsConsistent
<1> DEFINE unheld == [Stranded EXCEPT ![m] = @ + 1]
<1>1. Answered(Interned(m), unheld) /\ Return("materialize_failed")
  BY DEF MissingOutput
<1>2. Stranded \in [Modules -> Nat] /\ Interned(m) \in [Modules -> Nat]
  BY <1>0, CountsAre
<1>3. unheld \in [Modules -> Nat]
      /\ \A h \in Modules : unheld[h] = Stranded[h] + (IF h = m THEN 1 ELSE 0)
  <2> HIDE DEF Stranded
  <2> QED BY <1>2
<1> HIDE DEF unheld
<1>4. /\ torn' = torn /\ References' = Interned(m) /\ Stranded' = unheld
      /\ Generation' = Generation
  BY <1>0, <1>1, BackendAssumption
     DEF BackendTypeOK, GenerationsHaveBegun, Answered, Generation, References, Stranded
<1>5. ProcessIsKept
  BY <1>0, <1>1, <1>2, <1>3, ProcessKept
<1>6. call' = NoCall /\ NoCall.at = "idle"
  BY <1>1 DEF Return, NoCall
<1>7. ASSUME NEW h \in Modules PROVE IsBalanced(h)'
  <2>1. /\ IsFiniteSet(Owning(h))
        /\ References[h] <= All(h) + Stranded[h]
        /\ Generation \notin torn => References[h] >= All(h) + Stranded[h]
    BY <1>0 DEF Balanced, IsBalanced
  <2>2. All(h) \in Nat /\ References[h] \in Nat /\ Stranded[h] \in Nat
    BY <1>0, <2>1, AllIs
  <2>3. Holding(h)' = Holding(h) /\ Owning(h)' = Owning(h)
    BY <1>4, SameHolders
  <2>4. Pending(h) = 0 /\ Pending(h)' = 0
    BY <1>6 DEF Pending
  <2>5. All(h)' = All(h)
    BY <2>3, <2>4 DEF All
  <2>6. References'[h] = IF h = m THEN References[h] + 1 ELSE References[h]
    BY <1>0, <1>4, CountsMove
  <2>7. Stranded'[h] = Stranded[h] + (IF h = m THEN 1 ELSE 0)
    BY <1>3, <1>4
  <2> HIDE DEF References, Stranded, Generation, Owning, All
  <2>8. /\ References'[h] <= All(h)' + Stranded'[h]
        /\ Generation \notin torn => References'[h] >= All(h)' + Stranded'[h]
    BY <2>1, <2>2, <2>5, <2>6, <2>7
  <2> QED BY <1>4, <2>1, <2>3, <2>8 DEF IsBalanced
<1>8. Balanced'
  BY <1>7 DEF Balanced
<1> QED BY <1>0, <1>1, <1>5, <1>8, ResultsKept, EndsPlainly

\* A pass is applied.
LEMMA ApplyConsistent == BackendIsConsistent /\ Apply => BackendIsConsistent'
<1> SUFFICES ASSUME BackendIsConsistent, Apply PROVE BackendIsConsistent'
  OBVIOUS
<1> DEFINE child   == call.pass[call.handle]
<1> DEFINE written == IF call.materialize THEN [file EXCEPT ![call.out] = child] ELSE file
<1>0. /\ BackendTypeOK /\ CacheIsDistinct /\ GenerationsHaveBegun /\ CallIsConsistent /\ Balanced
      /\ call.at = "apply" /\ cache' = cache /\ call.op \in {"run", "from"}
      /\ call.handle = call.source /\ call.handle \in Modules /\ call.handle # None
      /\ call.out \in Paths /\ call.pass \in Passes /\ call.target \in Results
      /\ ~ result[call.target].owned /\ file \in [Paths -> Modules]
      /\ answer = NoAnswer
  BY BackendAssumption DEF BackendIsConsistent, Apply, BackendTypeOK, IsCall, CallIsConsistent,
       CallIsAsked, CallIsUnderWay, CallIsCaching
<1>1. CacheIsKept
  BY <1>0, CacheKept
<1>2. child \in Modules \cup {Fails}
  BY <1>0, BackendAssumption
<1>3. \/ ~ Holds(call.handle) /\ Started /\ Return("unknown_handle") /\ UNCHANGED <<file, result>>
      \/ /\ UNCHANGED <<file, result>> /\ Started
         /\ Return("opt_failed") \/ Return("materialize_failed")
      \/ child # Fails /\ MissingOutput(child) /\ file' = written /\ UNCHANGED result
      \/ /\ Holds(call.handle) /\ child # Fails /\ Replied(Interned(child)) /\ file' = written
         /\ \/ /\ call.materialize
               /\ call' = [call EXCEPT !.at = "remember", !.handle = child, !.onto = call.out]
               /\ UNCHANGED <<result, answer>>
            \/ /\ ~ call.materialize
               /\ result' = [result EXCEPT ![call.target] =
                    [handle |-> child, generation |-> Generation, owned |-> TRUE]]
               /\ call' = NoCall
               /\ answer' = [kind |-> "result", pass |-> call.pass,
                             source |-> call.source, handle |-> child]
      \/ /\ Lost /\ \E loss \in Losses : Raise(loss)
         /\ file' \in IF child # Fails /\ Holds(call.handle) THEN {file, written} ELSE {file}
         /\ UNCHANGED result
  BY DEF Apply
<1>4. child # Fails => written \in [Paths -> Modules]
  BY <1>0, <1>2
<1>5. call.op = "run" => written[call.path] = file[call.path]
  BY <1>0 DEF CallIsConsistent, CallIsAsked, CallIsUnderWay, CallIsCaching
<1>6. child = call.pass[call.source]
  BY <1>0
<1>7. call.materialize => written[call.out] = child
  BY <1>0
<1>8. ~ call.materialize => written = file
  OBVIOUS
<1> HIDE DEF child, written
<1>9. CASE ~ Holds(call.handle) /\ Started /\ Return("unknown_handle") /\ UNCHANGED <<file, result>>
  <2>1. Generation \in torn
    BY <1>0, <1>9, ModuleIsHeld
  <2>2. /\ ProcessIsKept /\ Generation' = Generation /\ torn' = torn /\ Stranded' = Stranded
        /\ References' = References /\ generation' = Generation
    BY <1>0, <1>9, StartedIs
  <2>3. \A h \in Modules : Pending(h)' = Pending(h)
    <3>1. call'.at = "idle"
      BY <1>9 DEF Return, NoCall
    <3> QED BY <1>0, <3>1 DEF Pending
  <2>4. Balanced'
    BY <1>0, <1>9, <2>2, <2>3, SameBalance
  <2>5. file' \in [Paths -> Modules] /\ ResultsAreKept
    BY <1>0, <1>9, ResultsKept
  <2> QED BY <1>1, <1>9, <2>1, <2>2, <2>4, <2>5, EndsPlainly
<1>10. CASE /\ UNCHANGED <<file, result>> /\ Started
            /\ Return("opt_failed") \/ Return("materialize_failed")
  BY <1>0, <1>1, <1>10, ErrorKeeps
<1>15. CASE child # Fails /\ MissingOutput(child) /\ file' = written /\ UNCHANGED result
  BY <1>0, <1>1, <1>2, <1>4, <1>15, OutputIsMissing
<1>11. ASSUME Lost, NEW loss \in Losses, Raise(loss), result' = result,
              file' \in IF child # Fails /\ Holds(call.handle) THEN {file, written} ELSE {file}
       PROVE  BackendIsConsistent'
  <2>1. file' \in [Paths -> Modules] /\ (call.op = "run" => file'[call.path] = file[call.path])
    BY <1>0, <1>4, <1>5, <1>11
  <2> QED BY <1>0, <1>1, <1>11, <2>1, LossKeeps
<1>12. ASSUME Holds(call.handle), child # Fails, Replied(Interned(child)), file' = written
       PROVE  /\ child \in Modules /\ child # None /\ file' \in [Paths -> Modules] /\ ProcessIsKept
              /\ alive' = TRUE /\ torn' = torn /\ Stranded' = Stranded /\ References' = Interned(child)
              /\ generation' = Generation /\ Generation' = Generation
              /\ Generation \in 1..MaxStarts
              /\ \A h \in Modules :
                   /\ References[h] \in Nat
                   /\ References'[h] = References[h] + (IF h = child THEN 1 ELSE 0)
  <2>1. child \in Modules /\ child # None /\ file' \in [Paths -> Modules]
    BY <1>2, <1>4, <1>12, BackendAssumption
  <2>2. ProcessIsKept
    BY <1>0, <1>12, <2>1, CountsAre, ProcessKept
  <2>3. /\ alive' = TRUE /\ torn' = torn /\ Stranded' = Stranded /\ References' = Interned(child)
        /\ generation' = Generation /\ Generation' = Generation /\ Generation \in 1..MaxStarts
    BY <1>0, <1>12, RepliedIs
  <2>4. ASSUME NEW h \in Modules
        PROVE References[h] \in Nat /\ References'[h] = References[h] + (IF h = child THEN 1 ELSE 0)
    <3>1. /\ References[h] \in Nat
          /\ References'[h] = IF h = child THEN References[h] + 1 ELSE References[h]
      BY <1>0, <2>1, <2>3, CountsMove
    <3> HIDE DEF References
    <3> QED BY <3>1
  <2> QED BY <2>1, <2>2, <2>3, <2>4
<1>13. CASE /\ Holds(call.handle) /\ child # Fails /\ Replied(Interned(child)) /\ file' = written
            /\ call.materialize
            /\ call' = [call EXCEPT !.at = "remember", !.handle = child, !.onto = call.out]
            /\ UNCHANGED <<result, answer>>
  <2>1. /\ call'.at = "remember" /\ call'.onto = call.out
        /\ call'.handle = child /\ call'.op = call.op
        /\ call'.path = call.path /\ call'.out = call.out /\ call'.pass = call.pass
        /\ call'.target = call.target /\ call'.source = call.source /\ call'.parent = call.parent
    BY <1>0, <1>13, CallFields DEF BackendTypeOK, IsCall
  <2>2. IsCall(call')
    BY <1>0, <1>12, <1>13, CallFields DEF BackendTypeOK, IsCall
  <2>3. CallIsConsistent'
    <3>1. call' # NoCall
      BY <2>1 DEF NoCall
    <3>2. generation' >= 1 /\ child # None /\ file'[call.out] = child
      BY <1>7, <1>12, <1>13
    <3>3. call.op = "run" => file'[call.path] = file[call.path]
      BY <1>5, <1>13
    <3>4. result' = result /\ answer' = answer
      BY <1>13
    <3>5. CASE call.op = "run"
      BY <1>0, <1>6, <2>1, <3>1, <3>2, <3>3, <3>4, <3>5 DEF CallIsConsistent, CallIsAsked,
           CallIsUnderWay, CallIsCaching
    <3>6. CASE call.op = "from"
      BY <1>0, <1>6, <2>1, <3>1, <3>2, <3>3, <3>4, <3>6 DEF CallIsConsistent, CallIsAsked,
           CallIsUnderWay, CallIsCaching
    <3> QED BY <1>0, <3>5, <3>6
  <2>4. DeathsAreTorn' /\ HandleIsHeld'
    BY <1>12, <1>13, <2>1 DEF DeathsAreTorn, HandleIsHeld
  <2>5. ASSUME NEW h \in Modules PROVE IsBalanced(h)'
    <3> DEFINE x == IF h = child THEN 1 ELSE 0
    <3>1. Owning(h)' = Owning(h)
      BY <1>12, <1>13 DEF Owning
    <3>2. Pending(h) = 0 /\ Pending(h)' = x
      BY <1>0, <2>1 DEF Pending, ReferenceOwned
    <3>3. x \in {-1, 0, 1} /\ Pending(h)' = Pending(h) + x
      BY <3>2
    <3>4. References'[h] = IF References[h] + x >= 0 THEN References[h] + x ELSE 0
      <4>1. References[h] \in Nat /\ References'[h] = References[h] + x
        BY <1>12, <1>13
      <4> HIDE DEF References
      <4> QED BY <3>3, <4>1
    <3> HIDE DEF x
    <3> QED BY <1>0, <1>12, <1>13, <3>1, <3>3, <3>4, PendingMoves
  <2>6. Balanced'
    BY <2>5 DEF Balanced
  <2> QED BY <1>0, <1>1, <1>12, <1>13, <2>2, <2>3, <2>4, <2>6, ResultsKept, GoesOn
<1>14. CASE /\ Holds(call.handle) /\ child # Fails /\ Replied(Interned(child)) /\ file' = written
            /\ ~ call.materialize
            /\ result' = [result EXCEPT ![call.target] =
                 [handle |-> child, generation |-> Generation, owned |-> TRUE]]
            /\ call' = NoCall
            /\ answer' = [kind |-> "result", pass |-> call.pass,
                          source |-> call.source, handle |-> child]
  <2> DEFINE v == [handle |-> child, generation |-> Generation, owned |-> TRUE]
  <2>1. /\ v \in [handle : Modules \cup {None}, generation : 0..MaxStarts, owned : BOOLEAN]
        /\ v.generation = Generation /\ v.owned = TRUE /\ v.handle = child
        /\ v.handle # None /\ v.generation <= generation'
    BY <1>12, <1>14, BackendAssumption
  <2>2. result' = [result EXCEPT ![call.target] = v]
    BY <1>14
  <2> HIDE DEF v
  <2>3. /\ ResultsAreKept /\ result'[call.target] = v
        /\ \A q \in Results : q # call.target => result'[q] = result[q]
    BY <1>0, <2>1, <2>2, ResultChanged
  <2>4. IsCall(call') /\ CallIsConsistent' /\ DeathsAreTorn' /\ HandleIsHeld'
    BY <1>14, EndedCall
  <2>5. answer' \in Answers
    BY <1>0, <1>12, <1>14 DEF BackendTypeOK, IsCall, Answers
  <2>6. ResultsAreRight' /\ HandlesAreKnown'
    BY <1>6, <1>14 DEF ResultsAreRight, HandlesAreKnown
  <2>7. ASSUME NEW h \in Modules PROVE IsBalanced(h)'
    <3> DEFINE x == IF h = child THEN 1 ELSE 0
    <3>1. /\ call.target \notin Owning(h)
          /\ Owning(h)' = IF h = child THEN Owning(h) \cup {call.target} ELSE Owning(h)
      BY <1>0, <1>12, <1>14, <2>1, <2>3 DEF Owning
    <3>2. Pending(h) = 0 /\ Pending(h)' = 0 /\ Holding(h)' = Holding(h)
      <4>1. call'.at = "idle"
        BY <1>14 DEF NoCall
      <4> QED BY <1>0, <1>12, <1>14, <4>1 DEF Pending, Holding
    <3>3. IsBalanced(h) /\ IsFiniteSet(Owning(h))
      BY <1>0 DEF Balanced, IsBalanced
    <3>4. /\ Cardinality(Holding(h)) \in Nat /\ Cardinality(Owning(h)) \in Nat
          /\ All(h) = Cardinality(Holding(h)) + Cardinality(Owning(h)) + Pending(h)
      BY <1>0, <3>3, AllIs
    <3>5. IsFiniteSet(Owning(h)') /\ Cardinality(Owning(h)') = Cardinality(Owning(h)) + x
      <4> HIDE DEF Owning
      <4>1. CASE h = child
        BY <3>1, <3>3, <4>1, FS_AddElement
      <4>2. CASE h # child
        <5>1. Owning(h)' = Owning(h)
          BY <3>1, <4>2
        <5> QED BY <3>3, <3>4, <4>2, <5>1
      <4> QED BY <4>1, <4>2
    <3>6. All(h)' = Cardinality(Holding(h)) + (Cardinality(Owning(h)) + x)
      <4>1. All(h)' = Cardinality(Holding(h)) + (Cardinality(Owning(h)) + x) + 0
        BY <3>2, <3>5 DEF All
      <4> QED BY <3>4, <4>1
    <3>7. x \in {-1, 0, 1} /\ All(h)' = All(h) + x /\ All(h)' >= 0
      <4> HIDE DEF Owning, Holding, All, Pending
      <4> QED BY <3>2, <3>4, <3>6
    <3>8. References'[h] = IF References[h] + x >= 0 THEN References[h] + x ELSE 0
      <4>1. References[h] \in Nat /\ References'[h] = References[h] + x
        BY <1>12, <1>14
      <4> HIDE DEF References
      <4> QED BY <4>1
    <3> HIDE DEF x
    <3> QED BY <1>0, <1>12, <1>14, <3>3, <3>5, <3>7, <3>8, BalanceMoves
  <2>8. Balanced'
    BY <2>7 DEF Balanced
  <2> QED BY <1>0, <1>1, <1>12, <1>14, <2>3, <2>4, <2>5, <2>6, <2>8,
       TypesKept DEF BackendIsConsistent
<1> QED BY <1>3, <1>9, <1>10, <1>11, <1>13, <1>14, <1>15

-----------------------------------------------------------------------------
(* The theorems.                                                           *)

\* A step of somebody else.
LEMMA BackendStutters == BackendIsConsistent /\ UNCHANGED backendVars => BackendIsConsistent'
<1> SUFFICES ASSUME BackendIsConsistent, UNCHANGED backendVars PROVE BackendIsConsistent'
  OBVIOUS
<1>1. /\ alive' = alive /\ generation' = generation /\ torn' = torn /\ refs' = refs
      /\ stranded' = stranded /\ file' = file /\ cache' = cache /\ result' = result /\ call' = call
      /\ answer' = answer
  BY DEF backendVars
<1>2. BackendTypeOK' /\ CacheIsDistinct' /\ GenerationsHaveBegun'
  BY <1>1 DEF BackendIsConsistent, BackendTypeOK, CacheIsDistinct, GenerationsHaveBegun
<1>3. CallIsConsistent' /\ DeathsAreTorn'
  BY <1>1 DEF BackendIsConsistent, CallIsConsistent, CallIsAsked, CallIsUnderWay,
       CallIsCaching, DeathsAreTorn
<1>4. Balanced'
  <2>1. UNCHANGED worker
    BY <1>1 DEF worker
  <2>2. Generation' = Generation /\ torn' = torn /\ Stranded' = Stranded /\ References' = References
    BY <1>1 DEF Generation, References, Stranded
  <2>3. \A h \in Modules : Pending(h)' = Pending(h)
    BY <1>1 DEF Pending, ReferenceOwned
  <2> QED BY <1>1, <2>2, <2>3, SameBalance DEF BackendIsConsistent
<1>5. HandleIsHeld'
  BY <1>1 DEF BackendIsConsistent, HandleIsHeld, Holding, Owning, CountingFor, Generation
<1>6. ResultsAreRight' /\ HandlesAreKnown'
  BY <1>1 DEF BackendIsConsistent, ResultsAreRight, HandlesAreKnown
<1> QED BY <1>2, <1>3, <1>4, <1>5, <1>6 DEF BackendIsConsistent

\* Every step keeps the invariant.
LEMMA BackendNextConsistent == BackendIsConsistent /\ BackendNext => BackendIsConsistent'
<1> SUFFICES ASSUME BackendIsConsistent, BackendNext PROVE BackendIsConsistent'
  OBVIOUS
<1>1. CASE Die
  BY <1>1, DieConsistent
<1>2. CASE Rewrite
  BY <1>2, RewriteConsistent
<1>3. CASE ComparePaths
  BY <1>3, ComparePathsConsistent
<1>4. CASE CallRun
  BY <1>4, CallRunConsistent
<1>5. CASE CallRunFrom
  BY <1>5, CallRunFromConsistent
<1>6. CASE CallMaterialize
  BY <1>6, CallMaterializeConsistent
<1>7. CASE CallRelease
  BY <1>7, CallReleaseConsistent
<1>8. CASE LoadCached
  BY <1>8, LoadCachedConsistent
<1>9. CASE LoadInput
  BY <1>9, LoadInputConsistent
<1>10. CASE RememberKnown
  BY <1>10, RememberKnownConsistent
<1>11. CASE RememberNew
  BY <1>11, RememberNewConsistent
<1>12. CASE Discard
  BY <1>12, DiscardConsistent
<1>13. CASE SignatureFails
  BY <1>13, SignatureFailsConsistent
<1>14. CASE Rollback
  BY <1>14, RollbackConsistent
<1>15. CASE CheckGeneration
  BY <1>15, CheckGenerationConsistent
<1>16. CASE Apply
  BY <1>16, ApplyConsistent
<1>17. CASE Materialize
  BY <1>17, MaterializeConsistent
<1>18. CASE ReleaseHandle
  BY <1>18, ReleaseConsistent
<1> QED BY <1>1, <1>2, <1>3, <1>4, <1>5, <1>6, <1>7, <1>8, <1>9, <1>10, <1>11, <1>12, <1>13,
           <1>14, <1>15, <1>16, <1>17, <1>18 DEF BackendNext, Step

\* In every state that one worker can come to with the calls on it, its counts are the
\* references that somebody has and those of the missing outputs, its cache has one entry per path, and the call under
\* way works on the module it was asked about: BackendIsConsistent is inductive.
THEOREM BackendInvariantHolds == BackendSpec => []BackendIsConsistent
<1>1. BackendInit => BackendIsConsistent
  BY InitConsistent
<1>2. BackendIsConsistent /\ [BackendNext]_backendVars => BackendIsConsistent'
  BY BackendStutters, BackendNextConsistent
<1> QED BY <1>1, <1>2, PTL DEF BackendSpec

\* The places of the cache that count are as many as the entries that do: no entry is
\* there twice.
LEMMA HoldersAreEntries ==
  ASSUME BackendTypeOK, CacheIsDistinct, alive, NEW h
  PROVE  Cardinality(CacheHolders(h)) = Cardinality(Holding(h))
<1>0. /\ cache \in Seq(Entries) /\ PathsDiffer(cache) /\ DOMAIN cache = 1..Len(cache)
      /\ \A e : e \in ToSet(cache) <=> \E i \in 1..Len(cache) : cache[i] = e
      /\ Generation = generation
  BY DistinctCache, AliveIs DEF BackendTypeOK
<1> DEFINE S == CacheHolders(h)
<1> DEFINE f == [i \in S |-> cache[i]]
<1>1. IsFiniteSet(S)
  <2>1. IsFiniteSet(1..Len(cache)) /\ S \in SUBSET (1..Len(cache))
    BY <1>0, FS_Interval DEF CacheHolders
  <2> QED BY <2>1, FS_Subset
<1>2. /\ \A i \in S : f[i] \in Holding(h)
      /\ \A e \in Holding(h) : \E i \in S : f[i] = e
      /\ \A i, j \in S : f[i] = f[j] => i = j
  BY <1>0 DEF CacheHolders, Holding, CountingFor, PathsDiffer
<1>3. f \in Bijection(S, Holding(h))
  <2>1. f \in [S -> Holding(h)]
    BY <1>2
  <2> QED BY <1>2, <2>1 DEF Bijection, Injection, Surjection, IsInjective
<1> QED BY <1>1, <1>3, FS_Bijection DEF ExistsBijection

\* The counts between two calls, from the invariant.
LEMMA CountsAreHeld == BackendIsConsistent => ReferencesAreCounted
<1> SUFFICES ASSUME BackendIsConsistent PROVE ReferencesAreCounted
  OBVIOUS
<1>0. BackendTypeOK /\ CacheIsDistinct /\ Balanced
  BY DEF BackendIsConsistent
<1>1. ASSUME Between, NEW h \in Modules
      PROVE  /\ refs[h] <= Holders(h) + stranded[h]
             /\ generation \notin torn => refs[h] >= Holders(h) + stranded[h]
  <2>1. /\ alive /\ call.at = "idle" /\ Generation = generation
        /\ References = refs /\ Stranded = stranded
    BY <1>1, AliveIs DEF Between
  <2>2. IsBalanced(h) /\ IsFiniteSet(Owning(h))
    BY <1>0 DEF Balanced, IsBalanced
  <2>3. /\ Cardinality(Holding(h)) \in Nat /\ Cardinality(Owning(h)) \in Nat
        /\ All(h) = Cardinality(Holding(h)) + Cardinality(Owning(h)) + Pending(h)
    BY <1>0, <2>2, AllIs
  <2>4. Pending(h) = 0
    BY <2>1 DEF Pending
  <2>5. Cardinality(CacheHolders(h)) = Cardinality(Holding(h))
    BY <1>0, <2>1, HoldersAreEntries
  <2>6. ResultHolders(h) = Owning(h)
    BY <2>1 DEF ResultHolders, Owning
  <2>7. Holders(h) = All(h)
    BY <2>3, <2>4, <2>5, <2>6 DEF Holders
  <2>8. /\ References[h] <= All(h) + Stranded[h]
        /\ Generation \notin torn => References[h] >= All(h) + Stranded[h]
    BY <2>2 DEF IsBalanced
  <2> QED BY <2>1, <2>7, <2>8
<1> QED BY <1>0, <1>1 DEF ReferencesAreCounted, OnlyMissingOutputsLeak, NothingIsFreedEarly

\* Between two calls the worker counts for a module exactly the cached paths and the
\* results that will give it back, and the outputs of it that were missing, which nobody
\* will give back, whatever was evicted, retried or rolled back; only in a process that
\* began within a call, it may count fewer, never more.
THEOREM ReferencesAlwaysCounted == BackendSpec => []ReferencesAreCounted
BY BackendInvariantHolds, CountsAreHeld, PTL

\* A result is the pass applied to the module asked about, whatever was cached, rewritten,
\* evicted, restarted or retried.
THEOREM ResultsAlwaysRight == BackendSpec => []ResultsAreRight
<1>1. BackendIsConsistent => ResultsAreRight
  BY DEF BackendIsConsistent
<1> QED BY <1>1, BackendInvariantHolds, PTL

\* The worker does not know a handle only if its process began within a call.
THEOREM HandlesAlwaysKnown == BackendSpec => []HandlesAreKnown
<1>1. BackendIsConsistent => HandlesAreKnown
  BY DEF BackendIsConsistent
<1> QED BY <1>1, BackendInvariantHolds, PTL
=============================================================================
