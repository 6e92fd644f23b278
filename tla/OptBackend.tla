----------------------------- MODULE OptBackend -----------------------------
(***************************************************************************)
(* WorkerOptBackend of phasebatch/opt_backend.py on one worker of the pool *)
(* (opt_worker.py, worker/phasebatch_worker.cpp): the modules the worker   *)
(* process holds with their reference counts, the cache of input paths,    *)
(* the results of which callers own a handle, and a process that dies and  *)
(* is started again.  The pool gives a worker to one call at a time, so    *)
(* the calls on one worker follow each other; what another worker or a     *)
(* caller does to the files comes between them.                            *)
(*                                                                         *)
(* Handles are content addresses: a module stands for its handle, for its  *)
(* canonical hash and for the content part of a file's signature.          *)
(***************************************************************************)
EXTENDS Integers, Sequences, FiniteSets, SequencesExt

CONSTANTS
  Modules,      \* what a file or a handle can be
  Passes,       \* functions from modules to modules, or to Fails
  Fails,        \* opt reports an error
  Paths,        \* files that are inputs and outputs of opt
  Results,      \* results that callers keep
  MaxCached,    \* max_cached_paths_per_worker
  MaxStarts,    \* bound: how often the process is started
  MaxStranded,  \* bound: how many outputs of one module are missing, per process
  None          \* no value

ASSUME BackendAssumption ==
  /\ Passes \subseteq [Modules -> Modules \cup {Fails}]
  /\ Fails \notin Modules /\ None \notin Modules \cup Paths \cup Results \cup Passes
  /\ MaxCached \in Nat \ {0}
  /\ MaxStarts \in Nat \ {0}
  /\ MaxStranded \in Nat

VARIABLES
  alive,       \* the process runs
  generation,  \* how often it was started
  torn,        \* history: generations that begin after a death within a call
  refs,        \* References: counts of the modules the process holds
  stranded,    \* history: of these, the ones that nobody was given
  file,        \* module in each path
  cache,       \* _path_handles of this worker, least recently used first
  result,      \* RunResult of each result that a caller keeps
  call,        \* the call on this worker
  answer       \* what the last call came to

worker == <<alive, generation, torn, refs, stranded>>
backendVars ==
  <<alive, generation, torn, refs, stranded, file, cache, result, call, answer>>

Empty    == [m \in Modules |-> 0]
NoResult == [handle |-> None, generation |-> 0, owned |-> FALSE]
NoAnswer == [kind |-> "none", pass |-> None, source |-> None, handle |-> None]

\* A call: where it is, what it was asked, and its local variables. handle is the
\* module it works on, onto the path it caches that module for, source the
\* module it was asked about.
NoCall ==
  [at |-> "idle", op |-> "none", attempt |-> 0, path |-> None, out |-> None,
   pass |-> None, materialize |-> FALSE, target |-> None, parent |-> None,
   source |-> None, handle |-> None, onto |-> None, drop |-> None, loss |-> "none"]

BackendInit ==
  /\ alive = FALSE
  /\ generation = 0
  /\ torn = {}
  /\ refs = Empty /\ stranded = Empty
  /\ file \in [Paths -> Modules]
  /\ cache = << >>
  /\ result = [r \in Results |-> NoResult]
  /\ call = NoCall
  /\ answer = NoAnswer

-----------------------------------------------------------------------------
(***************************************************************************)
(* WorkerProcess.  start() runs at the beginning of every request, so a    *)
(* process that has died is replaced by an empty one without a word.       *)
(***************************************************************************)
Generation == IF alive THEN generation ELSE generation + 1
References == IF alive THEN refs ELSE Empty
Stranded   == IF alive THEN stranded ELSE Empty

Holds(h)    == References[h] > 0
Interned(h) == [References EXCEPT ![h] = @ + 1]
Dropped(h)  == [References EXCEPT ![h] = IF @ > 0 THEN @ - 1 ELSE 0]

\* A request is answered, and leaves the process with counts, and of these with
\* unheld that nobody was given.
Answered(counts, unheld) ==
  /\ alive' = TRUE /\ generation' = Generation /\ UNCHANGED torn
  /\ refs' = counts /\ stranded' = unheld

Replied(counts) == Answered(counts, Stranded)

\* start() alone.
Started == Replied(References)

\* A request is not answered: the process exited without a word, or with an LLVM
\* error on stderr, or was stopped after a timeout or a malformed answer.
Losses == {"silent", "fatal", "broken"}
Lost ==
  /\ Generation < MaxStarts
  /\ alive' = FALSE /\ generation' = Generation /\ UNCHANGED torn
  /\ refs' = Empty /\ stranded' = Empty

\* The process exits by itself, between two calls or two requests of one call.
Die ==
  /\ alive /\ generation < MaxStarts
  /\ alive' = FALSE /\ refs' = Empty /\ stranded' = Empty
  /\ torn' = IF call.at = "idle" THEN torn ELSE torn \cup {generation + 1}
  /\ answer' = NoAnswer
  /\ UNCHANGED <<generation, file, cache, result, call>>

-----------------------------------------------------------------------------
(***************************************************************************)
(* The calls, and what the rest of the program does in between.            *)
(***************************************************************************)
\* A file is rewritten by another worker or by a caller.
Rewrite ==
  /\ call.at = "idle"
  /\ \E p \in Paths, m \in Modules : m # file[p] /\ file' = [file EXCEPT ![p] = m]
  /\ answer' = NoAnswer
  /\ UNCHANGED <<worker, cache, result, call>>

\* compare_paths: the worker compares two files and keeps nothing.
ComparePaths ==
  /\ call.at = "idle"
  /\ Started \/ Lost
  /\ answer' = NoAnswer
  /\ UNCHANGED <<file, cache, result, call>>

\* What the caller kept where the result of the call will be, which owned nothing, is
\* dropped.
Begin(c) ==
  /\ call.at = "idle"
  /\ call' = c
  /\ answer' = NoAnswer
  /\ result' = IF c.target = None THEN result ELSE [result EXCEPT ![c.target] = NoResult]
  /\ UNCHANGED <<worker, file, cache>>

\* run_opt; so is run_opt_from_result on a result that was materialized.
CallRun ==
  \E p, out \in Paths, f \in Passes, m \in BOOLEAN, r \in Results :
     /\ p # out /\ ~ result[r].owned
     /\ Begin([NoCall EXCEPT !.at = "load", !.op = "run", !.path = p, !.out = out,
                 !.pass = f, !.materialize = m, !.target = r, !.source = file[p]])

\* run_opt_from_result on a result that owns its handle.
CallRunFrom ==
  \E parent, r \in Results, out \in Paths, f \in Passes, m \in BOOLEAN :
     /\ result[parent].owned /\ ~ result[r].owned
     /\ Begin([NoCall EXCEPT !.at = "check", !.op = "from", !.parent = parent, !.out = out,
                 !.pass = f, !.materialize = m, !.target = r,
                 !.source = result[parent].handle])

\* materialize_result, of a handle owned or borrowed from the path cache.
CallMaterialize ==
  \E r \in Results, out \in Paths :
     /\ result[r].handle # None
     /\ Begin([NoCall EXCEPT !.at = "check", !.op = "materialize", !.parent = r,
                 !.out = out, !.source = result[r].handle])

\* release_result of a result that owns its handle.
CallRelease ==
  \E r \in Results :
     /\ result[r].owned
     /\ Begin([NoCall EXCEPT !.at = "check", !.op = "release", !.parent = r,
                 !.source = result[r].handle])

Return(kind) ==
  /\ call' = NoCall
  /\ answer' = [NoAnswer EXCEPT !.kind = kind]

Goto(at) == call' = [call EXCEPT !.at = at] /\ UNCHANGED answer

\* A request of the call was lost. run_opt turns an LLVM error into a failed result
\* and tries again once after a silent exit; else a WorkerError is raised.
Raise(loss) ==
  \/ call.op = "run" /\ loss = "fatal" /\ Return("llvm_fatal")
  \/ /\ call.op = "run" /\ loss = "silent" /\ call.attempt = 0
     /\ call' = [call EXCEPT !.at = "load", !.attempt = 1, !.handle = None, !.onto = None,
                             !.drop = None, !.loss = "none"]
     /\ UNCHANGED answer
  \/ /\ ~ (call.op = "run" /\ (loss = "fatal" \/ (loss = "silent" /\ call.attempt = 0)))
     /\ Return("error")

-----------------------------------------------------------------------------
(***************************************************************************)
(* The path cache.                                                         *)
(***************************************************************************)
Entry(p, h, g) == [path |-> p, signature |-> file[p], generation |-> g, handle |-> h]
EntriesOf(p)   == {e \in ToSet(cache) : e.path = p}
Place(p)       == CHOOSE i \in DOMAIN cache : cache[i].path = p
Without(p)     == IF EntriesOf(p) = {} THEN cache ELSE RemoveAt(cache, Place(p))
Touched(p)     == IF EntriesOf(p) = {} THEN cache ELSE Append(Without(p), cache[Place(p)])

\* Faulty variant: a path is not read again.
HitsByPath(p) == {e \in EntriesOf(p) : e.generation = Generation}

\* Faulty variant: a handle outlives its process.
HitsOfAnyGeneration(p) == {e \in EntriesOf(p) : e.signature = file[p]}

Hits(p) == {e \in EntriesOf(p) : e.signature = file[p] /\ e.generation = Generation}

\* _load_input, from the cache.
LoadCached ==
  /\ call.at = "load"
  /\ \E e \in Hits(call.path) :
        call' = [call EXCEPT !.at = "apply", !.handle = e.handle]
  /\ Started
  /\ cache' = Touched(call.path)
  /\ UNCHANGED <<file, result, answer>>

\* _load_input, from the file, also where the cached module is still the one it
\* holds: a signature tells that the file was written again, too. An unreadable file is
\* an error.
LoadInput ==
  /\ call.at = "load"
  /\ \/ /\ Replied(Interned(file[call.path]))
        /\ call' = [call EXCEPT !.at = "remember", !.handle = file[call.path],
                                !.onto = call.path]
        /\ UNCHANGED answer
     \/ Started /\ Return("error")
     \/ Lost /\ \E loss \in Losses : Raise(loss)
  /\ cache' = Touched(call.path)
  /\ UNCHANGED <<file, result>>

\* What follows once the module of call.onto is cached: apply for an input, the end
\* of the call for an output.
Finish(g) ==
  /\ result' = IF call.op = "materialize" THEN result
               ELSE [result EXCEPT ![call.target] =
                       [handle |-> call.handle, generation |-> g, owned |-> FALSE]]
  /\ call' = NoCall
  /\ answer' = [kind |-> "result", pass |-> call.pass, source |-> call.source,
                handle |-> call.handle]

Cached(g) ==
  IF call.onto = call.out THEN Finish(g) ELSE Goto("apply") /\ UNCHANGED result

\* Faulty variant: the handle of a result that cannot be cached is forgotten.
RaiseUncached(loss) == Raise(loss)

\* An error while a result is being cached first gives back its handle.
RaiseCaching(loss) ==
  IF call.onto = call.out /\ call.op # "materialize"
    THEN call' = [call EXCEPT !.at = "rollback", !.loss = loss] /\ UNCHANGED answer
    ELSE Raise(loss)

IsKnown == \E e \in EntriesOf(call.onto) : e.generation = generation /\ e.handle = call.handle

\* The reference that comes with the module belongs to the cache, except for a
\* module that materialize_result has written.
ReferenceOwned == call.op # "materialize"

\* Faulty variant: the reference that came with the module is kept as well.
RememberKnownTwice ==
  /\ call.at = "remember" /\ IsKnown
  /\ cache' = Append(Without(call.onto), Entry(call.onto, call.handle, generation))
  /\ Cached(generation)
  /\ UNCHANGED <<worker, file>>

\* _remember_signature, of a path that is cached with that module already: one of
\* the two references is given back.
RememberKnown ==
  /\ call.at = "remember" /\ IsKnown
  /\ \/ /\ ReferenceOwned
        /\ Replied(Dropped(call.handle))
        /\ cache' = Append(Without(call.onto), Entry(call.onto, call.handle, Generation))
        /\ Cached(Generation)
     \/ /\ ~ ReferenceOwned
        /\ cache' = Append(Without(call.onto), Entry(call.onto, call.handle, generation))
        /\ Cached(generation)
        /\ UNCHANGED worker
     \/ /\ ReferenceOwned
        /\ Lost /\ \E loss \in Losses : RaiseCaching(loss)
        /\ UNCHANGED <<cache, result>>
  /\ UNCHANGED file

IsFull(entries) == Len(entries) = MaxCached

\* A new entry of p replaces that of its path, or the least recently used one if the
\* cache is full.
Evicted(p)   == EntriesOf(p) \cup (IF IsFull(Without(p)) THEN {Head(Without(p))} ELSE {})
Remaining(p) == IF IsFull(Without(p)) THEN Tail(Without(p)) ELSE Without(p)

\* The reference of the entry that goes, if the process still has it, goes with it.
Put(g) ==
  LET held == {e \in Evicted(call.onto) : e.generation = g}
  IN  /\ cache' = Append(Remaining(call.onto), Entry(call.onto, call.handle, g))
      /\ \/ held = {} /\ Cached(g)
         \/ \E e \in held :
              /\ call' = [call EXCEPT !.at = "discard", !.drop = e.handle]
              /\ UNCHANGED <<result, answer>>

\* _remember_signature, of a path that is not cached with that module.
RememberNew ==
  /\ call.at = "remember" /\ ~ IsKnown
  /\ \/ ReferenceOwned /\ Put(generation) /\ UNCHANGED worker
     \/ ~ ReferenceOwned /\ Holds(call.handle)
        /\ Replied(Interned(call.handle)) /\ Put(Generation)
     \/ ~ ReferenceOwned /\ ~ Holds(call.handle)
        /\ Started /\ Return("error") /\ UNCHANGED <<cache, result>>
     \/ ~ ReferenceOwned
        /\ Lost /\ Return("error") /\ UNCHANGED <<cache, result>>
  /\ UNCHANGED file

\* _release_cache_reference of the entry that has gone.
Discard ==
  /\ call.at = "discard"
  /\ \/ Replied(Dropped(call.drop)) /\ Cached(Generation)
     \/ Lost /\ (\E loss \in Losses : RaiseCaching(loss)) /\ UNCHANGED result
  /\ UNCHANGED <<file, cache>>

\* A file that is missing or unreadable is not kept as such: a read may fail. Here it
\* is that of _path_signature, for _load_input, which looks at the file before the
\* cache, or for _remember_path and the file that was just written.
SignatureFails ==
  /\ \/ call.at = "load" /\ Started /\ Return("error")
     \/ /\ call.at = "remember" /\ call.onto = call.out
        /\ RaiseCaching("broken") /\ UNCHANGED worker
  /\ UNCHANGED <<file, cache, result>>

\* _rollback_untracked_handle; its own failure is ignored.
Rollback ==
  /\ call.at = "rollback"
  /\ \/ Replied(Dropped(call.handle))
     \/ Lost
  /\ Raise(call.loss)
  /\ UNCHANGED <<file, cache, result>>

-----------------------------------------------------------------------------
\* The handle of a result is good as long as its process runs.
CheckGeneration ==
  /\ call.at = "check"
  /\ Started
  /\ \/ /\ result[call.parent].generation = Generation
        /\ call' = [call EXCEPT !.at = IF call.op = "from" THEN "apply" ELSE call.op,
                                !.handle = result[call.parent].handle]
        /\ UNCHANGED <<result, answer>>
     \/ /\ result[call.parent].generation # Generation
        /\ result' = [result EXCEPT ![call.parent].owned = FALSE]
        /\ Return("stale")
  /\ UNCHANGED <<file, cache>>

\* The output of m is missing although the process has written it and counted m: the
\* call ends without the handle, which no cached path and no result holds either.
MissingOutput(m) ==
  /\ Stranded[m] < MaxStranded
  /\ Answered(Interned(m), [Stranded EXCEPT ![m] = @ + 1])
  /\ Return("materialize_failed")

\* apply: the process runs the pass on a copy of the parent, writes the child if it
\* is to be materialized, which may fail as well, and keeps it. A request that is
\* lost may have written.
Apply ==
  LET child   == call.pass[call.handle]
      written == IF call.materialize THEN [file EXCEPT ![call.out] = child] ELSE file
  IN  /\ call.at = "apply"
      /\ \/ /\ ~ Holds(call.handle)
            /\ Started /\ Return("unknown_handle") /\ UNCHANGED <<file, result>>
         \/ /\ Holds(call.handle) /\ child = Fails
            /\ Started /\ Return("opt_failed") /\ UNCHANGED <<file, result>>
         \/ /\ Holds(call.handle) /\ child # Fails /\ call.materialize
            /\ Started /\ Return("materialize_failed") /\ UNCHANGED <<file, result>>
         \/ /\ Holds(call.handle) /\ child # Fails /\ call.materialize
            /\ MissingOutput(child) /\ file' = written /\ UNCHANGED result
         \/ /\ Holds(call.handle) /\ child # Fails
            /\ Replied(Interned(child))
            /\ file' = written
            /\ \/ /\ call.materialize
                  /\ call' = [call EXCEPT !.at = "remember", !.handle = child,
                                          !.onto = call.out]
                  /\ UNCHANGED <<result, answer>>
               \/ /\ ~ call.materialize
                  /\ result' = [result EXCEPT ![call.target] =
                       [handle |-> child, generation |-> Generation, owned |-> TRUE]]
                  /\ call' = NoCall
                  /\ answer' = [kind |-> "result", pass |-> call.pass,
                                source |-> call.source, handle |-> child]
         \/ /\ Lost /\ \E loss \in Losses : Raise(loss)
            /\ file' \in IF child # Fails /\ Holds(call.handle) THEN {file, written} ELSE {file}
            /\ UNCHANGED result
      /\ UNCHANGED cache

\* materialize: the process writes a module that it keeps for somebody else. One that
\* is lost may have written, and an output that was written may be missing.
Materialize ==
  LET written == [file EXCEPT ![call.out] = call.handle]
  IN  /\ call.at = "materialize"
      /\ \/ /\ Holds(call.handle) /\ Started
            /\ file' = written
            /\ call' = [call EXCEPT !.at = "remember", !.onto = call.out]
            /\ UNCHANGED answer
         \/ /\ Started \/ Lost
            /\ Return("error")
            /\ file' \in IF Holds(call.handle) THEN {file, written} ELSE {file}
      /\ UNCHANGED <<cache, result>>

\* release
ReleaseHandle ==
  /\ call.at = "release"
  /\ \/ /\ Holds(call.handle) /\ Replied(Dropped(call.handle))
        /\ result' = [result EXCEPT ![call.parent].owned = FALSE]
        /\ Return("released")
     \/ /\ (~ Holds(call.handle) /\ Started) \/ Lost
        /\ Return("error") /\ UNCHANGED result
  /\ UNCHANGED <<file, cache>>

Step ==
  \/ LoadCached \/ LoadInput
  \/ RememberKnown \/ RememberNew \/ Discard \/ SignatureFails \/ Rollback
  \/ CheckGeneration \/ Apply \/ Materialize \/ ReleaseHandle

BackendNext ==
  \/ Die \/ Rewrite \/ ComparePaths
  \/ CallRun \/ CallRunFrom \/ CallMaterialize \/ CallRelease
  \/ Step

BackendSpec == BackendInit /\ [][BackendNext]_backendVars

-----------------------------------------------------------------------------
(***************************************************************************)
(* Properties.                                                             *)
(***************************************************************************)
Entries == [path : Paths, signature : Modules, generation : 1 .. MaxStarts, handle : Modules]

IsCall(c) ==
  /\ DOMAIN c = DOMAIN NoCall
  /\ c.at \in {"idle", "load", "remember", "discard", "rollback", "check", "apply",
              "materialize", "release"}
  /\ c.op \in {"none", "run", "from", "materialize", "release"} /\ c.attempt \in {0, 1}
  /\ {c.path, c.out, c.onto} \subseteq Paths \cup {None}
  /\ c.pass \in Passes \cup {None} /\ c.materialize \in BOOLEAN
  /\ {c.target, c.parent} \subseteq Results \cup {None}
  /\ {c.source, c.handle, c.drop} \subseteq Modules \cup {None}
  /\ c.loss \in Losses \cup {"none"}

Answers ==
  [kind : {"none", "result", "error", "llvm_fatal", "opt_failed", "materialize_failed",
           "unknown_handle", "stale", "released"},
   pass : Passes \cup {None}, source : Modules \cup {None}, handle : Modules \cup {None}]

\* Types of the variables.
BackendTypeOK ==
  /\ alive \in BOOLEAN
  /\ generation \in 0 .. MaxStarts /\ torn \subseteq 1 .. MaxStarts
  /\ refs \in [Modules -> Nat] /\ stranded \in [Modules -> Nat]
  /\ file \in [Paths -> Modules]
  /\ cache \in Seq(Entries) /\ Len(cache) <= MaxCached
  /\ result \in [Results -> [handle : Modules \cup {None}, generation : 0 .. MaxStarts,
                             owned : BOOLEAN]]
  /\ IsCall(call) /\ answer \in Answers

CacheHolders(h) ==
  {i \in DOMAIN cache : cache[i].handle = h /\ cache[i].generation = generation}
ResultHolders(h) ==
  {r \in Results : result[r].owned /\ result[r].handle = h
                                   /\ result[r].generation = generation}
Holders(h) == Cardinality(CacheHolders(h)) + Cardinality(ResultHolders(h))

Between == alive /\ call.at = "idle"

\* Between calls, every reference the process counts is held by a cached path or by
\* a result, where an eviction or a release will find it, or came with an output that
\* was missing: nothing else makes the process grow with the length of a run.
OnlyMissingOutputsLeak ==
  Between => \A h \in Modules : refs[h] <= Holders(h) + stranded[h]

\* Between calls, every cached path and every owned result of this process is
\* counted, and every missing output besides, unless the process began in the middle
\* of a call: giving back one never takes the module from another.
NothingIsFreedEarly ==
  Between /\ generation \notin torn =>
    \A h \in Modules : refs[h] >= Holders(h) + stranded[h]

\* The reference counts of the process are what the cache and the results of the
\* client account for (_remember_signature, _rollback_untracked_handle), except for
\* the outputs that _run_opt_once and run_opt_from_result find missing, each of which
\* stays counted until the process ends; and the state is well typed: the cache has no
\* entry too many.
ReferencesAreCounted == BackendTypeOK /\ OnlyMissingOutputsLeak /\ NothingIsFreedEarly

\* A result is the pass applied to the module that was asked about, whatever was
\* cached, evicted, rewritten, restarted or retried.
ResultsAreRight ==
  answer.kind = "result" /\ answer.pass # None =>
    answer.handle = answer.pass[answer.source]

\* A handle is unknown to the worker only if a process died in the middle of a call:
\* a pass is not held to have failed because of an eviction, a retry or a restart.
HandlesAreKnown == answer.kind = "unknown_handle" => generation \in torn

=============================================================================
