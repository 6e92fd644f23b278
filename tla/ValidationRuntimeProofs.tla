----------------------- MODULE ValidationRuntimeProofs -----------------------
(***************************************************************************)
(* Proofs about ValidationRuntime, for any number of threads, slots and    *)
(* keys.                                                                   *)
(***************************************************************************)
EXTENDS ValidationRuntime, TLAPS

\* The initial state has the types of TypeOK.
THEOREM TypeInit == Init => TypeOK
  BY RuntimeAssumption, MarkerAssumption DEF Init, TypeOK, Keys, Makers

\* Every step keeps the types of TypeOK.
THEOREM TypeNext == TypeOK /\ [Next]_vars => TypeOK'
<1> SUFFICES ASSUME TypeOK, [Next]_vars PROVE TypeOK'
  OBVIOUS
<1> USE RuntimeAssumption, MarkerAssumption DEF TypeOK, Keys, Makers, threadVars
<1>1. CASE Seed
  BY <1>1 DEF Seed
<1>2. ASSUME NEW t \in Threads, NEW k \in Keys, Hit(t, k) PROVE TypeOK'
  BY <1>2 DEF Hit
<1>3. ASSUME NEW t \in Threads, NEW k \in Keys, Join(t, k) PROVE TypeOK'
  BY <1>3 DEF Join
<1>4. ASSUME NEW t \in Threads, NEW k \in Keys, Own(t, k) PROVE TypeOK'
  BY <1>4 DEF Own
<1>5. ASSUME NEW t \in Threads, RunPipeline(t) PROVE TypeOK'
  BY <1>5 DEF RunPipeline
<1>6. ASSUME NEW t \in Threads, TakeSlot(t) PROVE TypeOK'
  BY <1>6 DEF TakeSlot
<1>7. ASSUME NEW t \in Threads, EndPipeline(t) PROVE TypeOK'
  BY <1>7 DEF EndPipeline
<1>8. ASSUME NEW t \in Threads, EndComputation(t) PROVE TypeOK'
  BY <1>8 DEF EndComputation
<1>9. ASSUME NEW t \in Threads, Store(t) PROVE TypeOK'
  BY <1>9 DEF Store
<1>10. ASSUME NEW t \in Threads, Publish(t) PROVE TypeOK'
  BY <1>10 DEF Publish
<1>11. CASE BeginClose
  BY <1>11 DEF BeginClose, Cached
<1>12. ASSUME NEW k \in Transitions, Release(k) PROVE TypeOK'
  BY <1>12 DEF Release
<1>13. CASE EndClose
  BY <1>13 DEF EndClose
<1>14. CASE CloseAgain
  BY <1>14 DEF CloseAgain, vars
<1>15. CASE UNCHANGED vars
  BY <1>15 DEF vars
<1> QED
  BY <1>1, <1>2, <1>3, <1>4, <1>5, <1>6, <1>7, <1>8, <1>9, <1>10, <1>11, <1>12,
     <1>13, <1>14, <1>15 DEF Next, Proceed

-----------------------------------------------------------------------------
\* Nobody is in a call before the runtime is used and once it is being closed.
QuietOutsideOpen == phase # "open" => AllIdle

\* A registered flight belongs to a thread that computes its key.
FlightsHaveOwners ==
  \A k \in Keys : inflight[k] # NoOne =>
     job[inflight[k]] = k /\ pc[inflight[k]] \in {"slot", "run", "compute", "store"}

\* Only a thread that runs an order has no key.
CallsHaveKeys ==
  \A t \in Threads : pc[t] \in {"wait", "compute", "store", "publish"} => job[t] \in Keys

\* The inductive invariant of the single-flight protocol.
FlightInv ==
  /\ TypeOK
  /\ QuietOutsideOpen
  /\ FlightsHaveOwners
  /\ SingleFlight
  /\ CallsHaveKeys
  /\ WaitersAreServed

\* The flight invariant holds of a runtime that was just created.
THEOREM FlightInit == Init => FlightInv
  BY TypeInit, RuntimeAssumption, MarkerAssumption
  DEF Init, FlightInv, QuietOutsideOpen, AllIdle, FlightsHaveOwners, SingleFlight,
      Computes, CallsHaveKeys, WaitersAreServed, Keys

\* Every step keeps the flight invariant: lookups, computations, both critical
\* sections of an owner, seeding and closing.
THEOREM FlightNext == FlightInv /\ [Next]_vars => FlightInv'
<1> SUFFICES ASSUME FlightInv, [Next]_vars PROVE FlightInv'
  OBVIOUS
<1> TypeOK'
  BY TypeNext DEF FlightInv
<1> USE RuntimeAssumption, MarkerAssumption
    DEF FlightInv, TypeOK, Keys, Makers, threadVars
<1>1. CASE Seed
  <2>1. QuietOutsideOpen'
    BY <1>1 DEF Seed, AllIdle, QuietOutsideOpen, AllIdle
  <2>2. FlightsHaveOwners'
    BY <1>1 DEF Seed, AllIdle, FlightsHaveOwners
  <2>3. SingleFlight'
    BY <1>1 DEF Seed, AllIdle, SingleFlight, Computes
  <2>4. CallsHaveKeys'
    BY <1>1 DEF Seed, AllIdle, CallsHaveKeys
  <2>5. WaitersAreServed'
    BY <1>1 DEF Seed, AllIdle, WaitersAreServed
  <2> QED
    BY <2>1, <2>2, <2>3, <2>4, <2>5, TypeNext DEF FlightInv
<1>2. ASSUME NEW t \in Threads, NEW k \in Keys, Hit(t, k) PROVE FlightInv'
  <2>1. QuietOutsideOpen'
    BY <1>2 DEF Hit, QuietOutsideOpen, AllIdle
  <2>2. FlightsHaveOwners'
    BY <1>2 DEF Hit, FlightsHaveOwners
  <2>3. SingleFlight'
    BY <1>2 DEF Hit, SingleFlight, Computes
  <2>4. CallsHaveKeys'
    BY <1>2 DEF Hit, CallsHaveKeys
  <2>5. WaitersAreServed'
    BY <1>2 DEF Hit, WaitersAreServed
  <2> QED
    BY <2>1, <2>2, <2>3, <2>4, <2>5, TypeNext DEF FlightInv
<1>3. ASSUME NEW t \in Threads, NEW k \in Keys, Join(t, k) PROVE FlightInv'
  <2>1. QuietOutsideOpen'
    BY <1>3 DEF Join, QuietOutsideOpen, AllIdle
  <2>2. FlightsHaveOwners'
    BY <1>3 DEF Join, FlightsHaveOwners
  <2>3. SingleFlight'
    BY <1>3 DEF Join, SingleFlight, Computes
  <2>4. CallsHaveKeys'
    BY <1>3 DEF Join, CallsHaveKeys
  <2>5. WaitersAreServed'
    BY <1>3 DEF Join, WaitersAreServed, FlightsHaveOwners
  <2> QED
    BY <2>1, <2>2, <2>3, <2>4, <2>5, TypeNext DEF FlightInv
<1>4. ASSUME NEW t \in Threads, NEW k \in Keys, Own(t, k) PROVE FlightInv'
  <2>1. QuietOutsideOpen'
    BY <1>4 DEF Own, QuietOutsideOpen, AllIdle
  <2>2. FlightsHaveOwners'
    BY <1>4 DEF Own, FlightsHaveOwners
  <2>3. SingleFlight'
    BY <1>4 DEF Own, SingleFlight, Computes
  <2>4. CallsHaveKeys'
    BY <1>4 DEF Own, CallsHaveKeys
  <2>5. WaitersAreServed'
    BY <1>4 DEF Own, WaitersAreServed
  <2> QED
    BY <2>1, <2>2, <2>3, <2>4, <2>5, TypeNext DEF FlightInv
<1>5. ASSUME NEW t \in Threads, RunPipeline(t) PROVE FlightInv'
  <2>1. QuietOutsideOpen'
    BY <1>5 DEF RunPipeline, QuietOutsideOpen, AllIdle
  <2>2. FlightsHaveOwners'
    BY <1>5 DEF RunPipeline, FlightsHaveOwners
  <2>3. SingleFlight'
    BY <1>5 DEF RunPipeline, SingleFlight, Computes
  <2>4. CallsHaveKeys'
    BY <1>5 DEF RunPipeline, CallsHaveKeys
  <2>5. WaitersAreServed'
    BY <1>5 DEF RunPipeline, WaitersAreServed
  <2> QED
    BY <2>1, <2>2, <2>3, <2>4, <2>5, TypeNext DEF FlightInv
<1>6. ASSUME NEW t \in Threads, TakeSlot(t) PROVE FlightInv'
  <2>1. QuietOutsideOpen'
    BY <1>6 DEF TakeSlot, QuietOutsideOpen, AllIdle
  <2>2. FlightsHaveOwners'
    BY <1>6 DEF TakeSlot, FlightsHaveOwners
  <2>3. SingleFlight'
    BY <1>6 DEF TakeSlot, SingleFlight, Computes
  <2>4. CallsHaveKeys'
    BY <1>6 DEF TakeSlot, CallsHaveKeys
  <2>5. WaitersAreServed'
    BY <1>6 DEF TakeSlot, WaitersAreServed
  <2> QED
    BY <2>1, <2>2, <2>3, <2>4, <2>5, TypeNext DEF FlightInv
<1>7. ASSUME NEW t \in Threads, EndPipeline(t) PROVE FlightInv'
  <2>1. QuietOutsideOpen'
    BY <1>7 DEF EndPipeline, QuietOutsideOpen, AllIdle
  <2>2. FlightsHaveOwners'
    BY <1>7 DEF EndPipeline, FlightsHaveOwners
  <2>3. SingleFlight'
    BY <1>7 DEF EndPipeline, SingleFlight, Computes
  <2>4. CallsHaveKeys'
    BY <1>7 DEF EndPipeline, CallsHaveKeys
  <2>5. WaitersAreServed'
    BY <1>7 DEF EndPipeline, WaitersAreServed, CallsHaveKeys
  <2> QED
    BY <2>1, <2>2, <2>3, <2>4, <2>5, TypeNext DEF FlightInv
<1>8. ASSUME NEW t \in Threads, EndComputation(t) PROVE FlightInv'
  <2>1. QuietOutsideOpen'
    BY <1>8 DEF EndComputation, QuietOutsideOpen, AllIdle
  <2>2. FlightsHaveOwners'
    BY <1>8 DEF EndComputation, FlightsHaveOwners
  <2>3. SingleFlight'
    BY <1>8 DEF EndComputation, SingleFlight, Computes
  <2>4. CallsHaveKeys'
    BY <1>8 DEF EndComputation, CallsHaveKeys
  <2>5. WaitersAreServed'
    BY <1>8 DEF EndComputation, WaitersAreServed
  <2> QED
    BY <2>1, <2>2, <2>3, <2>4, <2>5, TypeNext DEF FlightInv
<1>9. ASSUME NEW t \in Threads, Store(t) PROVE FlightInv'
  <2>1. QuietOutsideOpen'
    BY <1>9 DEF Store, QuietOutsideOpen, AllIdle
  <2>2. FlightsHaveOwners'
    BY <1>9 DEF Store, FlightsHaveOwners
  <2>3. SingleFlight'
    BY <1>9 DEF Store, SingleFlight, Computes
  <2>4. CallsHaveKeys'
    BY <1>9 DEF Store, CallsHaveKeys
  <2>5. WaitersAreServed'
    BY <1>9 DEF Store, WaitersAreServed
  <2> QED
    BY <2>1, <2>2, <2>3, <2>4, <2>5, TypeNext DEF FlightInv
<1>10. ASSUME NEW t \in Threads, Publish(t) PROVE FlightInv'
  <2>1. QuietOutsideOpen'
    BY <1>10 DEF Publish, Party, QuietOutsideOpen, AllIdle
  <2>2. FlightsHaveOwners'
    BY <1>10 DEF Publish, Party, FlightsHaveOwners
  <2>3. SingleFlight'
    BY <1>10 DEF Publish, Party, SingleFlight, Computes
  <2>4. CallsHaveKeys'
    BY <1>10 DEF Publish, Party, CallsHaveKeys
  <2>5. WaitersAreServed'
    BY <1>10 DEF Publish, Party, WaitersAreServed
  <2> QED
    BY <2>1, <2>2, <2>3, <2>4, <2>5, TypeNext DEF FlightInv
<1>11. CASE BeginClose
  <2>1. QuietOutsideOpen'
    BY <1>11 DEF BeginClose, Cached, AllIdle, QuietOutsideOpen, AllIdle
  <2>2. FlightsHaveOwners'
    BY <1>11 DEF BeginClose, Cached, AllIdle, FlightsHaveOwners
  <2>3. SingleFlight'
    BY <1>11 DEF BeginClose, Cached, AllIdle, SingleFlight, Computes
  <2>4. CallsHaveKeys'
    BY <1>11 DEF BeginClose, Cached, AllIdle, CallsHaveKeys
  <2>5. WaitersAreServed'
    BY <1>11 DEF BeginClose, Cached, AllIdle, WaitersAreServed
  <2> QED
    BY <2>1, <2>2, <2>3, <2>4, <2>5, TypeNext DEF FlightInv
<1>12. ASSUME NEW k \in Transitions, Release(k) PROVE FlightInv'
  <2>1. QuietOutsideOpen'
    BY <1>12 DEF Release, HandleOf, QuietOutsideOpen, AllIdle
  <2>2. FlightsHaveOwners'
    BY <1>12 DEF Release, HandleOf, FlightsHaveOwners
  <2>3. SingleFlight'
    BY <1>12 DEF Release, HandleOf, SingleFlight, Computes
  <2>4. CallsHaveKeys'
    BY <1>12 DEF Release, HandleOf, CallsHaveKeys
  <2>5. WaitersAreServed'
    BY <1>12 DEF Release, HandleOf, WaitersAreServed
  <2> QED
    BY <2>1, <2>2, <2>3, <2>4, <2>5, TypeNext DEF FlightInv
<1>13. CASE EndClose
  <2>1. QuietOutsideOpen'
    BY <1>13 DEF EndClose, Cached, QuietOutsideOpen, AllIdle
  <2>2. FlightsHaveOwners'
    BY <1>13 DEF EndClose, Cached, FlightsHaveOwners
  <2>3. SingleFlight'
    BY <1>13 DEF EndClose, Cached, SingleFlight, Computes
  <2>4. CallsHaveKeys'
    BY <1>13 DEF EndClose, Cached, CallsHaveKeys
  <2>5. WaitersAreServed'
    BY <1>13 DEF EndClose, Cached, WaitersAreServed
  <2> QED
    BY <2>1, <2>2, <2>3, <2>4, <2>5, TypeNext DEF FlightInv
<1>14. CASE CloseAgain
  <2>1. QuietOutsideOpen'
    BY <1>14 DEF CloseAgain, vars, QuietOutsideOpen, AllIdle
  <2>2. FlightsHaveOwners'
    BY <1>14 DEF CloseAgain, vars, FlightsHaveOwners
  <2>3. SingleFlight'
    BY <1>14 DEF CloseAgain, vars, SingleFlight, Computes
  <2>4. CallsHaveKeys'
    BY <1>14 DEF CloseAgain, vars, CallsHaveKeys
  <2>5. WaitersAreServed'
    BY <1>14 DEF CloseAgain, vars, WaitersAreServed
  <2> QED
    BY <2>1, <2>2, <2>3, <2>4, <2>5, TypeNext DEF FlightInv
<1>15. CASE UNCHANGED vars
  BY <1>15, TypeNext DEF vars, FlightInv, QuietOutsideOpen, FlightsHaveOwners, SingleFlight, CallsHaveKeys, WaitersAreServed, AllIdle, Computes
<1> QED
  BY <1>1, <1>2, <1>3, <1>4, <1>5, <1>6, <1>7, <1>8, <1>9, <1>10, <1>11, <1>12, <1>13, <1>14, <1>15 DEF Next, Proceed

-----------------------------------------------------------------------------
\* A runtime that was not used yet is empty.
NewIsEmpty ==
  phase = "new" => /\ \A k \in Keys : cache[k] = NoOne
                   /\ \A t \in Threads : answer[t] = NoOne

\* Once the runtime is in use, a profiled transition is never computed.
ProfilesAreCached == phase = "open" => \A k \in copied : cache[k] = Profile

\* A thread makes what carries its name, or fails.
OutcomesAreOwn ==
  \A t \in Threads : pc[t] \in {"store", "publish"} => outcome[t] \in {t, Failed}

\* What a thread is about to publish is cached.
PublishedIsCached ==
  \A t \in Threads : pc[t] = "publish" /\ outcome[t] = t => cache[job[t]] = t

\* A computed transition stays in the cache for as long as there are calls.
AnswersAreCached ==
  phase = "open" =>
    \A t \in Threads :
       job[t] \in Transitions /\ answer[t] \in Threads => cache[job[t]] = answer[t]

\* The inductive invariant of the handles.
HandleInv ==
  /\ FlightInv
  /\ NewIsEmpty
  /\ ProfilesAreCached
  /\ OutcomesAreOwn
  /\ PublishedIsCached
  /\ AnswersAreCached
  /\ OneTransition
  /\ HandlesAreTracked
  /\ ClosedHoldsNothing

\* The handle invariant holds of a runtime that was just created.
THEOREM HandleInit == Init => HandleInv
  BY FlightInit, RuntimeAssumption, MarkerAssumption
  DEF Init, HandleInv, NewIsEmpty, ProfilesAreCached, OutcomesAreOwn, PublishedIsCached,
      AnswersAreCached, OneTransition, HandlesAreTracked, ClosedHoldsNothing

\* Every step keeps the handle invariant, if seeding is not flaky.
THEOREM HandleNext ==
  ASSUME ~ FlakySeeds, HandleInv, [Next]_vars
  PROVE  HandleInv'
<1> FlightInv'
  BY FlightNext DEF HandleInv
<1> USE RuntimeAssumption, MarkerAssumption
    DEF HandleInv, FlightInv, TypeOK, Keys, Makers, threadVars
<1>1. CASE Seed
  <2>a. ASSUME phase = "open" PROVE cache' = cache
    <3>1. PICK files \in SUBSET Profiles :
             /\ files = copied
             /\ cache' = [k \in Keys |-> IF k \in files THEN Profile ELSE cache[k]]
      BY <1>1 DEF Seed
    <3> QED
      BY <2>a, <3>1 DEF ProfilesAreCached
  <2>b. ASSUME phase = "new" PROVE live = {}
    BY <2>b DEF NewIsEmpty, QuietOutsideOpen, AllIdle, HandlesAreTracked
  <2>1. NewIsEmpty'
    BY <1>1 DEF Seed, AllIdle, NewIsEmpty
  <2>2. ProfilesAreCached'
    BY <1>1 DEF Seed, AllIdle, ProfilesAreCached
  <2>3. OutcomesAreOwn'
    BY <1>1 DEF Seed, AllIdle, OutcomesAreOwn
  <2>4. PublishedIsCached'
    BY <1>1 DEF Seed, AllIdle, PublishedIsCached
  <2>5. AnswersAreCached'
    BY <1>1, <2>a DEF Seed, AllIdle, AnswersAreCached, NewIsEmpty
  <2>6. OneTransition'
    BY <1>1 DEF Seed, AllIdle, OneTransition
  <2>7. HandlesAreTracked'
    BY <1>1, <2>a, <2>b DEF Seed, AllIdle, HandlesAreTracked
  <2>8. ClosedHoldsNothing'
    BY <1>1 DEF Seed, AllIdle, ClosedHoldsNothing
  <2> QED
    BY <2>1, <2>2, <2>3, <2>4, <2>5, <2>6, <2>7, <2>8, FlightNext DEF HandleInv
<1>2. ASSUME NEW t \in Threads, NEW k \in Keys, Hit(t, k) PROVE HandleInv'
  <2>1. NewIsEmpty'
    BY <1>2 DEF Hit, NewIsEmpty
  <2>2. ProfilesAreCached'
    BY <1>2 DEF Hit, ProfilesAreCached
  <2>3. OutcomesAreOwn'
    BY <1>2 DEF Hit, OutcomesAreOwn
  <2>4. PublishedIsCached'
    BY <1>2 DEF Hit, PublishedIsCached
  <2>5. AnswersAreCached'
    BY <1>2 DEF Hit, AnswersAreCached
  <2>6. OneTransition'
    BY <1>2 DEF Hit, OneTransition, AnswersAreCached
  <2>7. HandlesAreTracked'
    BY <1>2 DEF Hit, HandlesAreTracked
  <2>8. ClosedHoldsNothing'
    BY <1>2 DEF Hit, ClosedHoldsNothing
  <2> QED
    BY <2>1, <2>2, <2>3, <2>4, <2>5, <2>6, <2>7, <2>8, FlightNext DEF HandleInv
<1>3. ASSUME NEW t \in Threads, NEW k \in Keys, Join(t, k) PROVE HandleInv'
  <2>1. NewIsEmpty'
    BY <1>3 DEF Join, NewIsEmpty
  <2>2. ProfilesAreCached'
    BY <1>3 DEF Join, ProfilesAreCached
  <2>3. OutcomesAreOwn'
    BY <1>3 DEF Join, OutcomesAreOwn
  <2>4. PublishedIsCached'
    BY <1>3 DEF Join, PublishedIsCached
  <2>5. AnswersAreCached'
    BY <1>3 DEF Join, AnswersAreCached
  <2>6. OneTransition'
    BY <1>3 DEF Join, OneTransition
  <2>7. HandlesAreTracked'
    BY <1>3 DEF Join, HandlesAreTracked
  <2>8. ClosedHoldsNothing'
    BY <1>3 DEF Join, ClosedHoldsNothing
  <2> QED
    BY <2>1, <2>2, <2>3, <2>4, <2>5, <2>6, <2>7, <2>8, FlightNext DEF HandleInv
<1>4. ASSUME NEW t \in Threads, NEW k \in Keys, Own(t, k) PROVE HandleInv'
  <2>1. NewIsEmpty'
    BY <1>4 DEF Own, NewIsEmpty
  <2>2. ProfilesAreCached'
    BY <1>4 DEF Own, ProfilesAreCached
  <2>3. OutcomesAreOwn'
    BY <1>4 DEF Own, OutcomesAreOwn
  <2>4. PublishedIsCached'
    BY <1>4 DEF Own, PublishedIsCached
  <2>5. AnswersAreCached'
    BY <1>4 DEF Own, AnswersAreCached
  <2>6. OneTransition'
    BY <1>4 DEF Own, OneTransition
  <2>7. HandlesAreTracked'
    BY <1>4 DEF Own, HandlesAreTracked
  <2>8. ClosedHoldsNothing'
    BY <1>4 DEF Own, ClosedHoldsNothing
  <2> QED
    BY <2>1, <2>2, <2>3, <2>4, <2>5, <2>6, <2>7, <2>8, FlightNext DEF HandleInv
<1>5. ASSUME NEW t \in Threads, RunPipeline(t) PROVE HandleInv'
  <2>1. NewIsEmpty'
    BY <1>5 DEF RunPipeline, NewIsEmpty
  <2>2. ProfilesAreCached'
    BY <1>5 DEF RunPipeline, ProfilesAreCached
  <2>3. OutcomesAreOwn'
    BY <1>5 DEF RunPipeline, OutcomesAreOwn
  <2>4. PublishedIsCached'
    BY <1>5 DEF RunPipeline, PublishedIsCached
  <2>5. AnswersAreCached'
    BY <1>5 DEF RunPipeline, AnswersAreCached
  <2>6. OneTransition'
    BY <1>5 DEF RunPipeline, OneTransition
  <2>7. HandlesAreTracked'
    BY <1>5 DEF RunPipeline, HandlesAreTracked
  <2>8. ClosedHoldsNothing'
    BY <1>5 DEF RunPipeline, ClosedHoldsNothing
  <2> QED
    BY <2>1, <2>2, <2>3, <2>4, <2>5, <2>6, <2>7, <2>8, FlightNext DEF HandleInv
<1>6. ASSUME NEW t \in Threads, TakeSlot(t) PROVE HandleInv'
  <2>1. NewIsEmpty'
    BY <1>6 DEF TakeSlot, NewIsEmpty
  <2>2. ProfilesAreCached'
    BY <1>6 DEF TakeSlot, ProfilesAreCached
  <2>3. OutcomesAreOwn'
    BY <1>6 DEF TakeSlot, OutcomesAreOwn
  <2>4. PublishedIsCached'
    BY <1>6 DEF TakeSlot, PublishedIsCached
  <2>5. AnswersAreCached'
    BY <1>6 DEF TakeSlot, AnswersAreCached
  <2>6. OneTransition'
    BY <1>6 DEF TakeSlot, OneTransition
  <2>7. HandlesAreTracked'
    BY <1>6 DEF TakeSlot, HandlesAreTracked
  <2>8. ClosedHoldsNothing'
    BY <1>6 DEF TakeSlot, ClosedHoldsNothing
  <2> QED
    BY <2>1, <2>2, <2>3, <2>4, <2>5, <2>6, <2>7, <2>8, FlightNext DEF HandleInv
<1>7. ASSUME NEW t \in Threads, EndPipeline(t) PROVE HandleInv'
  <2>1. NewIsEmpty'
    BY <1>7 DEF EndPipeline, NewIsEmpty
  <2>2. ProfilesAreCached'
    BY <1>7 DEF EndPipeline, ProfilesAreCached
  <2>3. OutcomesAreOwn'
    BY <1>7 DEF EndPipeline, OutcomesAreOwn
  <2>4. PublishedIsCached'
    BY <1>7 DEF EndPipeline, PublishedIsCached
  <2>5. AnswersAreCached'
    BY <1>7 DEF EndPipeline, AnswersAreCached
  <2>6. OneTransition'
    BY <1>7 DEF EndPipeline, OneTransition
  <2>7. HandlesAreTracked'
    BY <1>7 DEF EndPipeline, HandlesAreTracked
  <2>8. ClosedHoldsNothing'
    BY <1>7 DEF EndPipeline, ClosedHoldsNothing
  <2> QED
    BY <2>1, <2>2, <2>3, <2>4, <2>5, <2>6, <2>7, <2>8, FlightNext DEF HandleInv
<1>8. ASSUME NEW t \in Threads, EndComputation(t) PROVE HandleInv'
  <2>a. phase = "open"
    BY <1>8 DEF EndComputation, QuietOutsideOpen, AllIdle
  <2>1. NewIsEmpty'
    BY <1>8 DEF EndComputation, NewIsEmpty
  <2>2. ProfilesAreCached'
    BY <1>8 DEF EndComputation, ProfilesAreCached
  <2>3. OutcomesAreOwn'
    BY <1>8 DEF EndComputation, OutcomesAreOwn
  <2>4. PublishedIsCached'
    BY <1>8 DEF EndComputation, PublishedIsCached
  <2>5. AnswersAreCached'
    BY <1>8 DEF EndComputation, AnswersAreCached
  <2>6. OneTransition'
    BY <1>8 DEF EndComputation, OneTransition
  <2>7. HandlesAreTracked'
    BY <1>8 DEF EndComputation, HandlesAreTracked
  <2>8. ClosedHoldsNothing'
    BY <1>8, <2>a DEF EndComputation, ClosedHoldsNothing
  <2> QED
    BY <2>1, <2>2, <2>3, <2>4, <2>5, <2>6, <2>7, <2>8, FlightNext DEF HandleInv
<1>9. ASSUME NEW t \in Threads, Store(t) PROVE HandleInv'
  <2>a. phase = "open"
    BY <1>9 DEF Store, QuietOutsideOpen, AllIdle
  <2>b. job[t] \in Keys /\ inflight[job[t]] = t /\ cache[job[t]] = NoOne
    BY <1>9 DEF Store, CallsHaveKeys, SingleFlight, Computes
  <2>c. \A u \in Threads : pc[u] = "publish" /\ outcome[u] = u => job[u] # job[t]
    BY <2>b DEF PublishedIsCached
  <2>1. NewIsEmpty'
    BY <1>9, <2>a DEF Store, NewIsEmpty
  <2>2. ProfilesAreCached'
    BY <1>9, <2>a, <2>b DEF Store, ProfilesAreCached
  <2>3. OutcomesAreOwn'
    BY <1>9 DEF Store, OutcomesAreOwn
  <2>4. PublishedIsCached'
    BY <1>9, <2>b, <2>c DEF Store, PublishedIsCached, OutcomesAreOwn
  <2>5. AnswersAreCached'
    BY <1>9, <2>a, <2>b DEF Store, AnswersAreCached
  <2>6. OneTransition'
    BY <1>9 DEF Store, OneTransition
  <2>7. HandlesAreTracked'
    BY <1>9, <2>b DEF Store, HandlesAreTracked
  <2>8. ClosedHoldsNothing'
    BY <1>9 DEF Store, ClosedHoldsNothing
  <2> QED
    BY <2>1, <2>2, <2>3, <2>4, <2>5, <2>6, <2>7, <2>8, FlightNext DEF HandleInv
<1>10. ASSUME NEW t \in Threads, Publish(t) PROVE HandleInv'
  <2>a. phase = "open"
    BY <1>10 DEF Publish, QuietOutsideOpen, AllIdle
  <2>b. outcome[t] \in {t, Failed}
    BY <1>10 DEF Publish, OutcomesAreOwn
  <2>c. outcome[t] = t => cache[job[t]] = t
    BY <1>10, <2>b DEF Publish, PublishedIsCached
  <2>d. \A u \in Party(t) : u \in Threads /\ job[u] = job[t]
    BY DEF Party, WaitersAreServed
  <2>e. phase' = "open" /\ cache' = cache /\ job' = job
    BY <1>10, <2>a DEF Publish
  <2>f. \A u \in Threads :
           answer'[u] = IF u \in Party(t) THEN outcome[t] ELSE answer[u]
    BY <1>10 DEF Publish
  <2>1. NewIsEmpty'
    BY <2>e DEF NewIsEmpty
  <2>2. ProfilesAreCached'
    BY <1>10 DEF Publish, Party, ProfilesAreCached
  <2>3. OutcomesAreOwn'
    BY <1>10 DEF Publish, Party, OutcomesAreOwn
  <2>4. PublishedIsCached'
    BY <1>10 DEF Publish, Party, PublishedIsCached
  <2>5. AnswersAreCached'
    BY <2>a, <2>b, <2>c, <2>d, <2>e, <2>f DEF AnswersAreCached
  <2>6. OneTransition'
    BY <2>a, <2>b, <2>c, <2>d, <2>e, <2>f DEF OneTransition, AnswersAreCached
  <2>7. HandlesAreTracked'
    BY <1>10 DEF Publish, Party, HandlesAreTracked
  <2>8. ClosedHoldsNothing'
    BY <1>10 DEF Publish, Party, ClosedHoldsNothing
  <2> QED
    BY <2>1, <2>2, <2>3, <2>4, <2>5, <2>6, <2>7, <2>8, FlightNext DEF HandleInv
<1>11. CASE BeginClose
  <2>1. NewIsEmpty'
    BY <1>11 DEF BeginClose, Cached, AllIdle, NewIsEmpty
  <2>2. ProfilesAreCached'
    BY <1>11 DEF BeginClose, Cached, AllIdle, ProfilesAreCached
  <2>3. OutcomesAreOwn'
    BY <1>11 DEF BeginClose, Cached, AllIdle, OutcomesAreOwn
  <2>4. PublishedIsCached'
    BY <1>11 DEF BeginClose, Cached, AllIdle, PublishedIsCached
  <2>5. AnswersAreCached'
    BY <1>11 DEF BeginClose, Cached, AllIdle, AnswersAreCached
  <2>6. OneTransition'
    BY <1>11 DEF BeginClose, Cached, AllIdle, OneTransition
  <2>7. HandlesAreTracked'
    BY <1>11 DEF BeginClose, Cached, AllIdle, HandlesAreTracked
  <2>8. ClosedHoldsNothing'
    BY <1>11 DEF BeginClose, Cached, AllIdle, ClosedHoldsNothing
  <2> QED
    BY <2>1, <2>2, <2>3, <2>4, <2>5, <2>6, <2>7, <2>8, FlightNext DEF HandleInv
<1>12. ASSUME NEW k \in Transitions, Release(k) PROVE HandleInv'
  <2>1. NewIsEmpty'
    BY <1>12 DEF Release, HandleOf, NewIsEmpty
  <2>2. ProfilesAreCached'
    BY <1>12 DEF Release, HandleOf, ProfilesAreCached
  <2>3. OutcomesAreOwn'
    BY <1>12 DEF Release, HandleOf, OutcomesAreOwn
  <2>4. PublishedIsCached'
    BY <1>12 DEF Release, PublishedIsCached, QuietOutsideOpen, AllIdle
  <2>5. AnswersAreCached'
    BY <1>12 DEF Release, HandleOf, AnswersAreCached
  <2>6. OneTransition'
    BY <1>12 DEF Release, HandleOf, OneTransition
  <2>7. HandlesAreTracked'
    BY <1>12 DEF Release, HandleOf, HandlesAreTracked
  <2>8. ClosedHoldsNothing'
    BY <1>12 DEF Release, HandleOf, ClosedHoldsNothing
  <2> QED
    BY <2>1, <2>2, <2>3, <2>4, <2>5, <2>6, <2>7, <2>8, FlightNext DEF HandleInv
<1>13. CASE EndClose
  <2>1. NewIsEmpty'
    BY <1>13 DEF EndClose, Cached, NewIsEmpty
  <2>2. ProfilesAreCached'
    BY <1>13 DEF EndClose, Cached, ProfilesAreCached
  <2>3. OutcomesAreOwn'
    BY <1>13 DEF EndClose, Cached, OutcomesAreOwn
  <2>4. PublishedIsCached'
    BY <1>13 DEF EndClose, Cached, PublishedIsCached
  <2>5. AnswersAreCached'
    BY <1>13 DEF EndClose, Cached, AnswersAreCached
  <2>6. OneTransition'
    BY <1>13 DEF EndClose, Cached, OneTransition
  <2>7. HandlesAreTracked'
    BY <1>13 DEF EndClose, Cached, HandlesAreTracked
  <2>8. ClosedHoldsNothing'
    BY <1>13 DEF EndClose, Cached, ClosedHoldsNothing, HandlesAreTracked, QuietOutsideOpen, AllIdle
  <2> QED
    BY <2>1, <2>2, <2>3, <2>4, <2>5, <2>6, <2>7, <2>8, FlightNext DEF HandleInv
<1>14. CASE CloseAgain
  <2>1. NewIsEmpty'
    BY <1>14 DEF CloseAgain, vars, NewIsEmpty
  <2>2. ProfilesAreCached'
    BY <1>14 DEF CloseAgain, vars, ProfilesAreCached
  <2>3. OutcomesAreOwn'
    BY <1>14 DEF CloseAgain, vars, OutcomesAreOwn
  <2>4. PublishedIsCached'
    BY <1>14 DEF CloseAgain, vars, PublishedIsCached
  <2>5. AnswersAreCached'
    BY <1>14 DEF CloseAgain, vars, AnswersAreCached
  <2>6. OneTransition'
    BY <1>14 DEF CloseAgain, vars, OneTransition
  <2>7. HandlesAreTracked'
    BY <1>14 DEF CloseAgain, vars, HandlesAreTracked
  <2>8. ClosedHoldsNothing'
    BY <1>14 DEF CloseAgain, vars, ClosedHoldsNothing
  <2> QED
    BY <2>1, <2>2, <2>3, <2>4, <2>5, <2>6, <2>7, <2>8, FlightNext DEF HandleInv
<1>15. CASE UNCHANGED vars
  BY <1>15, FlightNext DEF vars, HandleInv, NewIsEmpty, ProfilesAreCached, OutcomesAreOwn, PublishedIsCached, AnswersAreCached, OneTransition, HandlesAreTracked, ClosedHoldsNothing
<1> QED
  BY <1>1, <1>2, <1>3, <1>4, <1>5, <1>6, <1>7, <1>8, <1>9, <1>10, <1>11, <1>12, <1>13, <1>14, <1>15 DEF Next, Proceed

-----------------------------------------------------------------------------
\* Types of the variables, for every number of threads, keys and slots.
THEOREM RuntimeTypeCorrect == Spec => []TypeOK
<1>1. TypeOK /\ [Next]_vars => TypeOK'
  BY TypeNext
<1> QED
  BY TypeInit, <1>1, PTL DEF Spec

\* A key is computed by one thread at a time and never again once it is cached,
\* and whoever waits for it will get it from that thread.
THEOREM FlightsAreSingle == Spec => [](SingleFlight /\ WaitersAreServed)
<1>1. FlightInv /\ [Next]_vars => FlightInv'
  BY FlightNext
<1>2. FlightInv => SingleFlight /\ WaitersAreServed
  BY DEF FlightInv
<1> QED
  BY FlightInit, <1>1, <1>2, PTL DEF Spec

\* Provided that the files of a profile are either all there or not, all threads
\* share one computation of a key and one transition of it.
THEOREM TransitionsAreShared ==
  ASSUME ~ FlakySeeds
  PROVE  Spec => []FlightsAreShared
<1>1. HandleInv /\ [Next]_vars => HandleInv'
  BY HandleNext
<1>2. HandleInv /\ FlightInv => FlightsAreShared
  BY DEF HandleInv, FlightInv, FlightsAreShared
<1>3. FlightInv /\ [Next]_vars => FlightInv'
  BY FlightNext
<1> QED
  BY FlightInit, HandleInit, <1>1, <1>2, <1>3, PTL DEF Spec

\* Under the same assumption, close can find every handle of the worker, and a
\* close that succeeds leaves none.
THEOREM HandlesAreReleased ==
  ASSUME ~ FlakySeeds
  PROVE  Spec => []HandlesAreClosed
<1>1. HandleInv /\ [Next]_vars => HandleInv'
  BY HandleNext
<1>2. HandleInv => HandlesAreClosed
  BY DEF HandleInv, HandlesAreClosed
<1> QED
  BY HandleInit, <1>1, <1>2, PTL DEF Spec
=============================================================================
