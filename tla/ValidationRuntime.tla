-------------------------- MODULE ValidationRuntime --------------------------
(***************************************************************************)
(* ValidationRuntime of phasebatch/validation_runtime.py: the slots and    *)
(* the two caches that the threads validating the batches of one state     *)
(* share, and the worker handles the transition cache owns until it is     *)
(* closed.  get_or_compute_transition and get_or_compute_equivalence are   *)
(* the same single-flight protocol; they differ in what a computation      *)
(* needs (a slot or not) and in what close does with the entries.          *)
(*                                                                         *)
(* A cached value is known by the thread that computed it.  The callers of *)
(* close (batcher.py, optimizer.py) have joined their threads, so it runs  *)
(* alone.                                                                  *)
(***************************************************************************)
EXTENDS Integers, FiniteSets

CONSTANTS
  Threads,       \* threads of the candidate, order and DAG pools
  Transitions,   \* keys of the transition cache
  Equivalences,  \* keys of the equivalence cache
  Profiles,      \* transitions that profiling has left a file for
  Slots,         \* max_workers
  FlakySeeds,    \* a profile file may fail to be copied once and not again
  Profile,       \* maker of a seeded transition
  NoOne,         \* no thread, no value
  Failed         \* a computation that raised, or a comparison of tier failed

ASSUME RuntimeAssumption ==
  /\ Transitions \cap Equivalences = {}
  /\ Profiles \subseteq Transitions
  /\ Slots \in Nat \ {0}
  /\ FlakySeeds \in BOOLEAN
  /\ IsFiniteSet(Threads)

ASSUME MarkerAssumption ==
  /\ Profile \notin Threads /\ NoOne \notin Threads /\ Failed \notin Threads
  /\ Profile # NoOne /\ Profile # Failed /\ NoOne # Failed
  /\ NoOne \notin Transitions \cup Equivalences

Keys   == Transitions \cup Equivalences
Makers == Threads \cup {Profile}

VARIABLES
  cache,     \* _transitions and _equivalences: who made the value of a key
  inflight,  \* _transition_inflight and _equivalence_inflight: owner of a flight
  pc,        \* where a thread is in its call
  job,       \* the key of its call; NoOne for a pipeline that is not cached
  flight,    \* the owner of the flight a waiting thread has joined
  outcome,   \* what a computing thread has made
  answer,    \* what its last call returned to a thread
  live,      \* handles the worker holds for transitions, by key and maker
  copied,    \* profile files that can be copied into the cache
  phase,     \* of the runtime as a whole
  pending    \* transitions that close has not tried to release yet

vars == <<cache, inflight, pc, job, flight, outcome, answer, live, copied, phase,
          pending>>
threadVars == <<pc, job, flight, outcome, answer>>

Init ==
  /\ cache = [k \in Keys |-> NoOne]
  /\ inflight = [k \in Keys |-> NoOne]
  /\ pc = [t \in Threads |-> "idle"]
  /\ job = [t \in Threads |-> NoOne]
  /\ flight = [t \in Threads |-> NoOne]
  /\ outcome = [t \in Threads |-> NoOne]
  /\ answer = [t \in Threads |-> NoOne]
  /\ live = {}
  /\ copied \in SUBSET Profiles
  /\ phase = "new"
  /\ pending = {}

AllIdle == \A t \in Threads : pc[t] = "idle"

-----------------------------------------------------------------------------
\* _seed_runtime_profile_transitions: each validation of candidates begins by
\* seeding the profiled transitions whose file can be copied; the first one is
\* the first use of the runtime.
Seed ==
  /\ phase \in {"new", "open"} /\ AllIdle
  /\ \E seeded \in SUBSET Profiles :
        /\ ~ FlakySeeds => seeded = copied
        /\ cache' = [k \in Keys |-> IF k \in seeded THEN Profile ELSE cache[k]]
  /\ phase' = "open"
  /\ UNCHANGED <<inflight, threadVars, live, copied, pending>>

\* A thread asks for k and finds it cached.
Hit(t, k) ==
  /\ phase = "open" /\ pc[t] = "idle"
  /\ cache[k] # NoOne
  /\ job' = [job EXCEPT ![t] = k]
  /\ answer' = [answer EXCEPT ![t] = cache[k]]
  /\ UNCHANGED <<cache, inflight, pc, flight, outcome, live, copied, phase, pending>>

\* A thread asks for k while another computes it.
Join(t, k) ==
  /\ phase = "open" /\ pc[t] = "idle"
  /\ cache[k] = NoOne /\ inflight[k] # NoOne
  /\ pc' = [pc EXCEPT ![t] = "wait"]
  /\ job' = [job EXCEPT ![t] = k]
  /\ flight' = [flight EXCEPT ![t] = inflight[k]]
  /\ answer' = [answer EXCEPT ![t] = NoOne]
  /\ UNCHANGED <<cache, inflight, outcome, live, copied, phase, pending>>

\* Faulty variant: the owner registers its flight only once it has a slot.
OwnUnregistered(t, k) ==
  /\ phase = "open" /\ pc[t] = "idle"
  /\ cache[k] = NoOne /\ inflight[k] = NoOne
  /\ pc' = [pc EXCEPT ![t] = IF k \in Transitions THEN "slot" ELSE "compute"]
  /\ job' = [job EXCEPT ![t] = k]
  /\ answer' = [answer EXCEPT ![t] = NoOne]
  /\ UNCHANGED <<cache, inflight, flight, outcome, live, copied, phase, pending>>

\* A thread asks for k, and computes it itself.
Own(t, k) ==
  /\ phase = "open" /\ pc[t] = "idle"
  /\ cache[k] = NoOne /\ inflight[k] = NoOne
  /\ inflight' = [inflight EXCEPT ![k] = t]
  /\ pc' = [pc EXCEPT ![t] = IF k \in Transitions THEN "slot" ELSE "compute"]
  /\ job' = [job EXCEPT ![t] = k]
  /\ answer' = [answer EXCEPT ![t] = NoOne]
  /\ UNCHANGED <<cache, flight, outcome, live, copied, phase, pending>>

\* A thread runs an order, which takes a slot but is not cached.
RunPipeline(t) ==
  /\ phase = "open" /\ pc[t] = "idle"
  /\ pc' = [pc EXCEPT ![t] = "slot"]
  /\ job' = [job EXCEPT ![t] = NoOne]
  /\ answer' = [answer EXCEPT ![t] = NoOne]
  /\ UNCHANGED <<cache, inflight, flight, outcome, live, copied, phase, pending>>

InSlot == {t \in Threads : pc[t] = "run"}

\* run_with_opt_slot
TakeSlot(t) ==
  /\ pc[t] = "slot"
  /\ Cardinality(InSlot) < Slots
  /\ pc' = [pc EXCEPT ![t] = "run"]
  /\ UNCHANGED <<cache, inflight, job, flight, outcome, answer, live, copied, phase,
                 pending>>

\* The order has run, and the slot is free again.
EndPipeline(t) ==
  /\ pc[t] = "run" /\ job[t] = NoOne
  /\ pc' = [pc EXCEPT ![t] = "idle"]
  /\ UNCHANGED <<cache, inflight, job, flight, outcome, answer, live, copied, phase,
                 pending>>

\* opt has run, or llvm-diff has.  A transition made by the worker comes with a
\* handle, one made by the external opt does not.
EndComputation(t) ==
  /\ pc[t] \in {"run", "compute"} /\ job[t] # NoOne
  /\ pc' = [pc EXCEPT ![t] = "store"]
  /\ \/ /\ outcome' = [outcome EXCEPT ![t] = Failed]
        /\ UNCHANGED live
     \/ /\ outcome' = [outcome EXCEPT ![t] = t]
        /\ \/ UNCHANGED live
           \/ job[t] \in Transitions /\ live' = live \cup {<<job[t], t>>}
  /\ UNCHANGED <<cache, inflight, job, flight, answer, copied, phase, pending>>

\* Faulty variant: a failure leaves its flight registered.
StoreSuccess(t) ==
  /\ pc[t] = "store"
  /\ cache' = [cache EXCEPT ![job[t]] = IF outcome[t] = Failed THEN @ ELSE t]
  /\ inflight' = [inflight EXCEPT ![job[t]] = IF outcome[t] = Failed THEN @ ELSE NoOne]
  /\ pc' = [pc EXCEPT ![t] = "publish"]
  /\ UNCHANGED <<job, flight, outcome, answer, live, copied, phase, pending>>

\* Under the lock: the value, if there is one, enters the cache as the flight
\* leaves.
Store(t) ==
  /\ pc[t] = "store"
  /\ cache' = [cache EXCEPT ![job[t]] = IF outcome[t] = Failed THEN @ ELSE t]
  /\ inflight' = [inflight EXCEPT ![job[t]] = NoOne]
  /\ pc' = [pc EXCEPT ![t] = "publish"]
  /\ UNCHANGED <<job, flight, outcome, answer, live, copied, phase, pending>>

\* The owner of a flight and those that joined it.
Party(t) == {t} \cup {u \in Threads : pc[u] = "wait" /\ flight[u] = t}

\* Faulty variant: a failure is raised to the owner only.
PublishSuccess(t) ==
  /\ pc[t] = "publish"
  /\ LET party == IF outcome[t] = Failed THEN {t} ELSE Party(t)
     IN  /\ answer' = [u \in Threads |-> IF u \in party THEN outcome[t] ELSE answer[u]]
         /\ pc' = [u \in Threads |-> IF u \in party THEN "idle" ELSE pc[u]]
         /\ flight' = [u \in Threads |-> IF u \in party THEN NoOne ELSE flight[u]]
  /\ outcome' = [outcome EXCEPT ![t] = NoOne]
  /\ UNCHANGED <<cache, inflight, job, live, copied, phase, pending>>

\* After the lock: set_result or set_exception.
Publish(t) ==
  /\ pc[t] = "publish"
  /\ answer' = [u \in Threads |-> IF u \in Party(t) THEN outcome[t] ELSE answer[u]]
  /\ pc' = [u \in Threads |-> IF u \in Party(t) THEN "idle" ELSE pc[u]]
  /\ flight' = [u \in Threads |-> IF u \in Party(t) THEN NoOne ELSE flight[u]]
  /\ outcome' = [outcome EXCEPT ![t] = NoOne]
  /\ UNCHANGED <<cache, inflight, job, live, copied, phase, pending>>

-----------------------------------------------------------------------------
Cached == {k \in Transitions : cache[k] # NoOne}

\* close forgets the comparisons and goes through the transitions; after an
\* error it may be called again.
BeginClose ==
  /\ phase \in {"new", "open", "failed"} /\ AllIdle
  /\ phase' = "closing"
  /\ pending' = Cached
  /\ cache' = [k \in Keys |-> IF k \in Equivalences THEN NoOne ELSE cache[k]]
  /\ UNCHANGED <<inflight, threadVars, live, copied>>

HandleOf(k) == <<k, cache[k]>>

\* Faulty variant: an entry is forgotten although its handle was not released.
ReleaseAndForget(k) ==
  /\ phase = "closing" /\ k \in pending
  /\ pending' = pending \ {k}
  /\ live' \in {live, live \ {HandleOf(k)}}
  /\ cache' = [cache EXCEPT ![k] = NoOne]
  /\ UNCHANGED <<inflight, threadVars, copied, phase>>

\* One transition: without a handle it is done at once; a handle is released, or
\* found to be gone with its worker, or stays because the release failed.
\* Finished entries leave the cache.
Release(k) ==
  /\ phase = "closing" /\ k \in pending
  /\ pending' = pending \ {k}
  /\ \/ /\ live' = live \ {HandleOf(k)}
        /\ cache' = [cache EXCEPT ![k] = NoOne]
     \/ HandleOf(k) \in live /\ UNCHANGED <<live, cache>>
  /\ UNCHANGED <<inflight, threadVars, copied, phase>>

EndClose ==
  /\ phase = "closing" /\ pending = {}
  /\ phase' = IF Cached = {} THEN "closed" ELSE "failed"
  /\ UNCHANGED <<cache, inflight, threadVars, live, copied, pending>>

\* A further close returns at once.
CloseAgain == phase = "closed" /\ UNCHANGED vars

Proceed(t) == EndPipeline(t) \/ EndComputation(t) \/ Store(t) \/ Publish(t)

Next ==
  \/ Seed
  \/ \E t \in Threads :
        \/ \E k \in Keys : Hit(t, k) \/ Join(t, k) \/ Own(t, k)
        \/ RunPipeline(t)
        \/ TakeSlot(t)
        \/ Proceed(t)
  \/ BeginClose
  \/ \E k \in Transitions : Release(k)
  \/ EndClose
  \/ CloseAgain

Spec == Init /\ [][Next]_vars

\* opt runs under a timeout and a thread is not stopped in between.  A free slot
\* goes to a waiting thread in the end, but in no given order.
Fairness ==
  \A t \in Threads : WF_vars(Proceed(t)) /\ SF_vars(TakeSlot(t))

FairSpec == Spec /\ Fairness

-----------------------------------------------------------------------------
(***************************************************************************)
(* Properties.                                                             *)
(***************************************************************************)

\* Types of the variables.
TypeOK ==
  /\ cache \in [Keys -> Makers \cup {NoOne}]
  /\ inflight \in [Keys -> Threads \cup {NoOne}]
  /\ pc \in [Threads -> {"idle", "wait", "slot", "run", "compute", "store", "publish"}]
  /\ job \in [Threads -> Keys \cup {NoOne}]
  /\ flight \in [Threads -> Threads \cup {NoOne}]
  /\ outcome \in [Threads -> Threads \cup {Failed, NoOne}]
  /\ answer \in [Threads -> Makers \cup {Failed, NoOne}]
  /\ live \subseteq Transitions \X Threads
  /\ copied \subseteq Profiles
  /\ phase \in {"new", "open", "closing", "failed", "closed"}
  /\ pending \subseteq Transitions

Computes(t, k) == job[t] = k /\ pc[t] \in {"slot", "run", "compute", "store"}

\* A key is computed by the owner of its flight alone, and only while it is not
\* cached (get_or_compute_transition): two opt processes never write one file of
\* the cache directory.
SingleFlight ==
  \A t \in Threads, k \in Keys :
     Computes(t, k) => inflight[k] = t /\ cache[k] = NoOne

\* A thread waits only for one that is still going to publish a value of its key:
\* nobody joins a flight that has landed.
WaitersAreServed ==
  \A t \in Threads : pc[t] = "wait" =>
    /\ flight[t] # NoOne
    /\ job[flight[t]] = job[t]
    /\ pc[flight[t]] \in {"slot", "run", "compute", "store", "publish"}

\* Threads that were given a computed transition of one key were given the same
\* one, so they share its file and its handle.
OneTransition ==
  \A t, u \in Threads :
     /\ job[t] = job[u] /\ job[t] \in Transitions
     /\ answer[t] \in Threads /\ answer[u] \in Threads
     => answer[t] = answer[u]

\* Threads share the computation of a key and what it came to, so that no two of
\* them write one file or hold two handles of it.
FlightsAreShared == SingleFlight /\ OneTransition

\* A handle belongs to a cached transition, where close will find it, or to the
\* thread that is about to cache it.
HandlesAreTracked ==
  \A h \in live :
     \/ cache[h[1]] = h[2]
     \/ job[h[2]] = h[1] /\ pc[h[2]] = "store" /\ outcome[h[2]] = h[2]

\* A runtime that closed without an error has left no handle in the worker.
ClosedHoldsNothing == phase = "closed" => live = {}

\* No handle escapes the close of its runtime: until then close can find it, and
\* afterwards it is gone.
HandlesAreClosed == HandlesAreTracked /\ ClosedHoldsNothing

\* Every call returns, whatever the computations of other threads come to.
EveryCallReturns == \A t \in Threads : pc[t] # "idle" ~> pc[t] = "idle"
=============================================================================
