----------------------------- MODULE WorkerPool -----------------------------
(***************************************************************************)
(* WorkerPool and the locks of WorkerProcess, of phasebatch/opt_worker.py: *)
(* threads check workers out, any one or the one that owns a handle, under *)
(* a deadline, and send them requests, while the pool may be closed.       *)
(***************************************************************************)
EXTENDS Integers, Sequences, FiniteSets, SequencesExt

CONSTANTS
  Threads,  \* threads that use the pool
  Size,     \* number of workers
  AnyWorker, \* what a thread wants that takes any worker
  NoOne     \* no worker, no thread

Workers == 1 .. Size

ASSUME PoolAssumption ==
  /\ Size \in Nat \ {0}
  /\ AnyWorker \notin Workers /\ NoOne \notin Workers \cup Threads /\ AnyWorker # NoOne

VARIABLES
  available,  \* _available
  closed,     \* _closed of the pool
  pc,         \* where a thread is
  wants,      \* what a thread has asked for
  has,        \* the worker a thread has checked out
  lock,       \* _request_lock of each worker
  process,    \* whether each worker has a process, and whether it runs
  shut,       \* _closed of each worker
  toClose     \* workers that close has not closed yet

vars == <<available, closed, pc, wants, has, lock, process, shut, toClose>>
workers == <<lock, process, shut>>

InOrder == [w \in Workers |-> w]

Init ==
  /\ available = InOrder
  /\ closed = FALSE
  /\ pc = [t \in Threads |-> "idle"]
  /\ wants = [t \in Threads |-> NoOne]
  /\ has = [t \in Threads |-> NoOne]
  /\ lock = [w \in Workers |-> NoOne]
  /\ process = [w \in Workers |-> "none"]
  /\ shut = [w \in Workers |-> FALSE]
  /\ toClose = {}

-----------------------------------------------------------------------------
(***************************************************************************)
(* _acquire_worker.  A thread that finds no worker sleeps on the condition *)
(* until it is notified or its deadline has passed, and looks again.       *)
(***************************************************************************)
Ask(t) ==
  /\ pc[t] = "idle"
  /\ pc' = [pc EXCEPT ![t] = "looking"]
  /\ \E w \in Workers \cup {AnyWorker} : wants' = [wants EXCEPT ![t] = w]
  /\ UNCHANGED <<available, closed, has, workers, toClose>>

\* Where the worker that is there for t is in the queue: at its head, or, if t wants
\* a worker of its own, at the first place that holds it.
Found(t) ==
  {i \in DOMAIN available :
     IF wants[t] = AnyWorker THEN i = 1
     ELSE available[i] = wants[t] /\ \A j \in 1..(i - 1) : available[j] # wants[t]}

\* Faulty variant: whatever is wanted, the first worker leaves the queue.
AcquireFirst(t) ==
  /\ pc[t] \in {"looking", "late"} /\ ~ closed
  /\ \E i \in Found(t) : has' = [has EXCEPT ![t] = available[i]]
  /\ available' = Tail(available)
  /\ pc' = [pc EXCEPT ![t] = "holding"]
  /\ wants' = [wants EXCEPT ![t] = NoOne]
  /\ UNCHANGED <<closed, workers, toClose>>

Acquire(t) ==
  /\ pc[t] \in {"looking", "late"} /\ ~ closed
  /\ \E i \in Found(t) :
        /\ has' = [has EXCEPT ![t] = available[i]]
        /\ available' = RemoveAt(available, i)
  /\ pc' = [pc EXCEPT ![t] = "holding"]
  /\ wants' = [wants EXCEPT ![t] = NoOne]
  /\ UNCHANGED <<closed, workers, toClose>>

Sleep(t) ==
  /\ pc[t] = "looking" /\ ~ closed /\ Found(t) = {}
  /\ pc' = [pc EXCEPT ![t] = "asleep"]
  /\ UNCHANGED <<available, closed, wants, has, workers, toClose>>

\* The deadline passes.
Expire(t) ==
  /\ pc[t] \in {"looking", "asleep"}
  /\ pc' = [pc EXCEPT ![t] = "late"]
  /\ UNCHANGED <<available, closed, wants, has, workers, toClose>>

\* WorkerError of a closed pool, or WorkerTimeoutError.
GiveUp(t) ==
  /\ \/ pc[t] \in {"looking", "late"} /\ closed
     \/ pc[t] = "late" /\ Found(t) = {}
  /\ pc' = [pc EXCEPT ![t] = "idle"]
  /\ wants' = [wants EXCEPT ![t] = NoOne]
  /\ UNCHANGED <<available, closed, has, workers, toClose>>

\* notify_all
Awake(state) == [t \in Threads |-> IF state[t] = "asleep" THEN "looking" ELSE state[t]]

\* Faulty variant: only one of those that sleep is notified.
ReleaseWakingOne(t) ==
  /\ pc[t] \in {"holding", "raised"}
  /\ available' = IF closed THEN available ELSE Append(available, has[t])
  /\ has' = [has EXCEPT ![t] = NoOne]
  /\ LET left == [pc EXCEPT ![t] = "idle"]
     IN  IF \A u \in Threads : pc[u] # "asleep" THEN pc' = left
         ELSE \E u \in Threads : pc[u] = "asleep" /\ pc' = [left EXCEPT ![u] = "looking"]
  /\ UNCHANGED <<closed, wants, workers, toClose>>

\* _release_worker, when the checkout is left, with an error or without.
Release(t) ==
  /\ pc[t] \in {"holding", "raised"}
  /\ available' = IF closed THEN available ELSE Append(available, has[t])
  /\ has' = [has EXCEPT ![t] = NoOne]
  /\ pc' = Awake([pc EXCEPT ![t] = "idle"])
  /\ UNCHANGED <<closed, wants, workers, toClose>>

-----------------------------------------------------------------------------
(***************************************************************************)
(* WorkerProcess, by the thread that has checked it out.                   *)
(***************************************************************************)
\* start(): raises if the worker is shut, and else leaves it with a process.
Start(w) == ~ shut[w] /\ process' = [process EXCEPT ![w] = "running"]

\* The backend starts the worker to look at its generation.
StartWorker(t) ==
  /\ pc[t] = "holding"
  /\ \/ Start(has[t]) /\ UNCHANGED pc
     \/ /\ shut[has[t]]
        /\ pc' = [pc EXCEPT ![t] = "raised"]
        /\ UNCHANGED process
  /\ UNCHANGED <<available, closed, wants, has, lock, shut, toClose>>

\* A request takes the lock of the worker, starts it, and waits for the answer.
BeginRequest(t) ==
  /\ pc[t] = "holding" /\ lock[has[t]] = NoOne
  /\ \/ /\ Start(has[t])
        /\ lock' = [lock EXCEPT ![has[t]] = t]
        /\ pc' = [pc EXCEPT ![t] = "requesting"]
     \/ /\ shut[has[t]]
        /\ pc' = [pc EXCEPT ![t] = "raised"]
        /\ UNCHANGED <<lock, process>>
  /\ UNCHANGED <<available, closed, wants, has, shut, toClose>>

\* Faulty variant: a request that fails keeps the lock.
EndRequestLocked(t) ==
  /\ pc[t] = "requesting"
  /\ \/ /\ pc' = [pc EXCEPT ![t] = "holding"]
        /\ lock' = [lock EXCEPT ![has[t]] = NoOne]
        /\ UNCHANGED process
     \/ /\ pc' = [pc EXCEPT ![t] = "raised"]
        /\ process' = [process EXCEPT ![has[t]] = "none"]
        /\ UNCHANGED lock
  /\ UNCHANGED <<available, closed, wants, has, shut, toClose>>

\* The answer has come, or the request failed and the process was stopped.
EndRequest(t) ==
  /\ pc[t] = "requesting"
  /\ lock' = [lock EXCEPT ![has[t]] = NoOne]
  /\ \/ pc' = [pc EXCEPT ![t] = "holding"] /\ UNCHANGED process
     \/ /\ pc' = [pc EXCEPT ![t] = "raised"]
        /\ process' = [process EXCEPT ![has[t]] = "none"]
  /\ UNCHANGED <<available, closed, wants, has, shut, toClose>>

Exit(w) ==
  /\ process[w] = "running"
  /\ process' = [process EXCEPT ![w] = "exited"]
  /\ UNCHANGED <<available, closed, pc, wants, has, lock, shut, toClose>>

-----------------------------------------------------------------------------
\* close of the pool: nobody gets a worker any more.
Close ==
  /\ ~ closed
  /\ closed' = TRUE
  /\ toClose' = Workers
  /\ pc' = Awake(pc)
  /\ UNCHANGED <<available, wants, has, workers>>

\* close of the next worker, as soon as no request is under way.
CloseWorker(w) ==
  /\ w \in toClose /\ \A v \in toClose : w <= v
  /\ lock[w] = NoOne
  /\ shut' = [shut EXCEPT ![w] = TRUE]
  /\ process' = [process EXCEPT ![w] = "none"]
  /\ toClose' = toClose \ {w}
  /\ UNCHANGED <<available, closed, pc, wants, has, lock>>

Look(t) == Acquire(t) \/ Sleep(t) \/ GiveUp(t)

Next ==
  \/ \E t \in Threads :
        \/ Ask(t) \/ Look(t) \/ Expire(t) \/ Release(t)
        \/ StartWorker(t) \/ BeginRequest(t) \/ EndRequest(t)
  \/ \E w \in Workers : Exit(w) \/ CloseWorker(w)
  \/ Close

Spec == Init /\ [][Next]_vars

\* Deadlines pass, an awake thread looks, a request is answered or times out, and
\* close goes on when it has the lock.  That a thread leaves its worker is not
\* assumed.
FairSpec ==
  /\ Spec
  /\ \A t \in Threads : WF_vars(Look(t)) /\ WF_vars(Expire(t)) /\ WF_vars(EndRequest(t))
  /\ \A w \in Workers : SF_vars(CloseWorker(w))

-----------------------------------------------------------------------------
(***************************************************************************)
(* Properties.                                                             *)
(***************************************************************************)

\* Types of the variables.
TypeOK ==
  /\ available \in Seq(Workers)
  /\ closed \in BOOLEAN
  /\ pc \in [Threads -> {"idle", "looking", "asleep", "late", "holding", "requesting",
                         "raised"}]
  /\ wants \in [Threads -> Workers \cup {AnyWorker, NoOne}]
  /\ has \in [Threads -> Workers \cup {NoOne}]
  /\ lock \in [Workers -> Threads \cup {NoOne}]
  /\ process \in [Workers -> {"none", "running", "exited"}]
  /\ shut \in [Workers -> BOOLEAN]
  /\ toClose \subseteq Workers

Held == {w \in Workers : \E t \in Threads : has[t] = w}

\* Until the pool is closed, every worker is either in the queue once or checked out
\* by one thread (_acquire_worker, _release_worker): errors lose no worker, and no
\* two threads write to one process.
WorkersAreAccountedFor ==
  /\ \A t, u \in Threads : has[t] = has[u] /\ has[t] # NoOne => t = u
  /\ ~ closed => /\ ToSet(available) = Workers \ Held
                 /\ Len(available) = Cardinality(Workers \ Held)

\* Nobody sleeps although the worker it waits for is there or the pool is closed.
NobodyOversleeps ==
  \A t \in Threads : pc[t] = "asleep" => ~ closed /\ Found(t) = {}

\* A worker that was shut has no process, and will have none: close leaves no
\* process behind, whatever the threads are doing.
ShutWorkersAreQuiet == \A w \in Workers : shut[w] => process[w] = "none"

\* No worker is lost, shared or left behind.
PoolInvariant == TypeOK /\ WorkersAreAccountedFor /\ ShutWorkersAreQuiet

\* A checkout gets a worker or gives up.
CheckoutsEnd ==
  \A t \in Threads :
     pc[t] \in {"looking", "asleep", "late"} ~> pc[t] \in {"idle", "holding"}

\* Closing the pool ends.
CloseEnds == closed ~> toClose = {}

\* Neither a checkout nor close blocks for ever, although a thread may keep its
\* worker and another may always come first (checkout_worker, close).
CallsEnd == CheckoutsEnd /\ CloseEnds
=============================================================================
