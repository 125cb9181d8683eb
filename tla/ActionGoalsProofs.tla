-------------------------- MODULE ActionGoalsProofs --------------------------
(***************************************************************************)
(* Proofs about ActionGoals for every number of threads, goals and          *)
(* requests: type correctness, the accept transaction, the wait for an      *)
(* expiry, the result requests of a goal and the finality of its outcome.   *)
(***************************************************************************)
EXTENDS ActionGoals, TLAPS

IInv == TypeOK /\ ReservationOwned

\* The arguments an idle thread is given are a goal and a request.
LEMMA AnyTyped == AnyGoal \in Goals /\ AnyRequest \in Requests
  BY GoalsAssumption DEF AnyGoal, AnyRequest

\* The deadline of a wait without a scheduled expiry is a time.
LEMMA InfinityTyped == Infinity \in Nat /\ \A n \in 0..MaxTime : n + ResultTimeout \in 0..Infinity
  BY GoalsAssumption DEF Infinity

\* A fresh registry: nothing is reserved and nobody accepts.
LEMMA InitInv == Init => IInv
  <1> SUFFICES ASSUME Init PROVE IInv
    OBVIOUS
  <1>1. RecordType
    BY DEF Init, RecordType
  <1>2. ExpiryType
    BY GoalsAssumption DEF Init, ExpiryType
  <1>3. RequestType
    BY DEF Init, RequestType
  <1>4. CallType
    BY GoalsAssumption, AnyTyped DEF Init, CallType, Modes
  <1>5. WaitType
    BY InfinityTyped DEF Init, WaitType
  <1>6. FlagType
    BY DEF Init, FlagType
  <1>7. ReservationOwned
    BY DEF Init, ReservationOwned, Accepting
  <1>8. QED
    BY <1>1, <1>2, <1>3, <1>4, <1>5, <1>6, <1>7 DEF IInv, TypeOK

\* Pruning erases committed goals only: types are kept and so is every
\* reservation.
LEMMA EraseKeeps ==
  ASSUME TypeOK, NEW gs \in SUBSET Committed, Erase(gs), now' = now
  PROVE  /\ RecordType'
         /\ scheduled' \subseteq Goals
         /\ terminalTime' \in [Goals -> 0..MaxTime]
         /\ Kept(gs) \in [Goals -> SUBSET Requests]
         /\ Queued(gs) \in [Goals -> Nat]
         /\ \A g \in Goals : record'[g] = "reserved" <=> record[g] = "reserved"
  <1>1. RecordType'
    BY DEF TypeOK, RecordType, Erase, Committed
  <1>2. scheduled' \subseteq Goals
    BY DEF TypeOK, ExpiryType, Erase
  <1>3. terminalTime' \in [Goals -> 0..MaxTime]
    BY GoalsAssumption DEF TypeOK, ExpiryType, Erase
  <1>4. Kept(gs) \in [Goals -> SUBSET Requests]
    BY DEF TypeOK, RequestType, Kept
  <1>5. Queued(gs) \in [Goals -> Nat]
    BY DEF TypeOK, ExpiryType, Queued
  <1>6. \A g \in Goals : record'[g] = "reserved" <=> record[g] = "reserved"
    BY DEF TypeOK, RecordType, Erase, Committed
  <1>7. QED
    BY <1>1, <1>2, <1>3, <1>4, <1>5, <1>6

\* A pruning that an allocation interrupts keeps the same things.
LEMMA PruneFailsKeeps ==
  ASSUME TypeOK, PruneFails, now' = now
  PROVE  /\ RecordType' /\ ExpiryType' /\ faults' \in 0..MaxFaults
         /\ parked' \in [Goals -> SUBSET Requests]
         /\ \A g \in Goals : record'[g] = "reserved" <=> record[g] = "reserved"
  <1>1. PICK gs \in SUBSET Stale : Erase(gs) /\ parked' = Kept(gs) /\ expired' = Queued(gs)
    BY DEF PruneFails
  <1>2. gs \in SUBSET Committed
    BY DEF Stale
  <1>3. faults' \in 0..MaxFaults
    BY GoalsAssumption DEF PruneFails, Fault, TypeOK, CallType
  <1>4. QED
    BY <1>1, <1>2, <1>3, EraseKeeps DEF ExpiryType, TypeOK

\* What leaves reservations and the threads that accept alone keeps their
\* correspondence.
LEMMA ReservationKept ==
  ASSUME ReservationOwned,
         \A g \in Goals : record'[g] = "reserved" <=> record[g] = "reserved",
         goal \in [Threads -> Goals],
         \A t \in Threads : Accepting(t)' <=> Accepting(t),
         \A t \in Threads : Accepting(t) => goal'[t] = goal[t]
  PROVE  ReservationOwned'
  BY DEF ReservationOwned

\* Every step keeps the types, flags aside, and the reservations.
LEMMA NextInv ==
  ASSUME IInv, Next
  PROVE  RecordType' /\ ExpiryType' /\ RequestType' /\ CallType' /\ WaitType' /\ ReservationOwned'
  <1> DEFINE Goal == RecordType' /\ ExpiryType' /\ RequestType' /\ CallType' /\ WaitType' /\ ReservationOwned'
  <1> USE DEF registryVars, threadVars, waitVars, boundVars
  <1>0. TypeOK /\ ReservationOwned /\ RecordType /\ ExpiryType /\ RequestType /\ CallType /\ WaitType
    BY DEF IInv, TypeOK
  <1>1. ASSUME NEW t \in Threads, NEW g \in Goals, NEW m \in Modes, Accept(t, g, m)
        PROVE  Goal
    <2> USE <1>0, <1>1
    <2>1. RecordType'
      BY DEF RecordType, Accept, Call, Reservable, Goto
    <2>2. ExpiryType'
      BY GoalsAssumption DEF ExpiryType, Accept, Call, Reservable, Goto
    <2>3. RequestType'
      BY DEF RequestType, CallType, Accept, Call, Reservable, Goto
    <2>4. CallType'
      BY GoalsAssumption, AnyTyped DEF CallType, Modes, Accept, Call, Reservable, Goto
    <2>5. WaitType'
      BY DEF WaitType, Accept, Call, Reservable, Goto
    <2>6. ReservationOwned'
      BY DEF ReservationOwned, Accepting, RecordType, CallType, Accept, Call, Reservable, Goto
    <2>7. QED
      BY <2>1, <2>2, <2>3, <2>4, <2>5, <2>6
  <1>2. ASSUME NEW t \in Threads, AcceptWrite(t)
        PROVE  Goal
    <2> USE <1>0, <1>2
    <2>1. RecordType'
      BY DEF RecordType, AcceptWrite, Fault, Goto
    <2>2. ExpiryType'
      BY GoalsAssumption DEF ExpiryType, AcceptWrite, Fault, Goto
    <2>3. RequestType'
      BY DEF RequestType, CallType, AcceptWrite, Fault, Goto
    <2>4. CallType'
      BY GoalsAssumption, AnyTyped DEF CallType, Modes, AcceptWrite, Fault, Goto
    <2>5. WaitType'
      BY DEF WaitType, AcceptWrite, Fault, Goto
    <2>6. ReservationOwned'
      BY DEF ReservationOwned, Accepting, RecordType, CallType, AcceptWrite, Fault, Goto
    <2>7. QED
      BY <2>1, <2>2, <2>3, <2>4, <2>5, <2>6
  <1>3. ASSUME NEW t \in Threads, AcceptCommit(t)
        PROVE  Goal
    <2> USE <1>0, <1>3
    <2>1. RecordType'
      BY DEF RecordType, AcceptCommit, AcceptedState, Return, Goto, CallType, Active
    <2>2. ExpiryType'
      BY GoalsAssumption DEF ExpiryType, AcceptCommit, AcceptedState, Return, Goto, CallType
    <2>3. RequestType'
      BY DEF RequestType, CallType, AcceptCommit, AcceptedState, Return, Goto
    <2>4. CallType'
      BY GoalsAssumption, AnyTyped DEF CallType, Modes, AcceptCommit, AcceptedState, Return, Goto
    <2>5. WaitType'
      BY DEF WaitType, AcceptCommit, AcceptedState, Return, Goto
    <2>6. ReservationOwned'
      BY DEF ReservationOwned, Accepting, RecordType, CallType, AcceptCommit, AcceptedState, Return, Goto
    <2>7. QED
      BY <2>1, <2>2, <2>3, <2>4, <2>5, <2>6
  <1>4. ASSUME NEW t \in Threads, AcceptRollback(t)
        PROVE  Goal
    <2> USE <1>0, <1>4
    <2>1. RecordType'
      BY DEF RecordType, AcceptRollback, Return, Goto, CallType, Active
    <2>2. ExpiryType'
      BY GoalsAssumption DEF ExpiryType, AcceptRollback, Return, Goto
    <2>3. RequestType'
      BY DEF RequestType, CallType, AcceptRollback, Return, Goto
    <2>4. CallType'
      BY GoalsAssumption, AnyTyped DEF CallType, Modes, AcceptRollback, Return, Goto
    <2>5. WaitType'
      BY DEF WaitType, AcceptRollback, Return, Goto
    <2>6. ReservationOwned'
      BY DEF ReservationOwned, Accepting, RecordType, CallType, AcceptRollback, Return, Goto
    <2>7. QED
      BY <2>1, <2>2, <2>3, <2>4, <2>5, <2>6
  <1>5. ASSUME NEW t \in Threads, NEW g \in Goals, NEW e \in GoalEvents, UpdateState(t, g, e)
        PROVE  Goal
    <2> USE <1>0, <1>5
    <2>1. Successor[state[g]][e] \in Active \cup Terminal
      BY DEF UpdateState, Allowed, Successor, Active, Terminal, GoalEvents
    <2>2. "Unknown" \notin Active \cup Terminal
      BY DEF Active, Terminal
    <2>3. RecordType'
      BY <2>1, <2>2 DEF RecordType, Committed, UpdateState
    <2>4. ExpiryType'
      BY GoalsAssumption DEF ExpiryType, UpdateState, Call, NotifyExpiry
    <2>5. RequestType'
      BY DEF RequestType, CallType, UpdateState, Call, NotifyExpiry
    <2>6. CallType'
      BY GoalsAssumption, AnyTyped DEF CallType, Modes, UpdateState, Call, NotifyExpiry
    <2>7. WaitType'
      BY DEF WaitType, UpdateState, Call, NotifyExpiry
    <2>8. ReservationOwned'
      BY ReservationKept DEF CallType, RecordType, Accepting, UpdateState, Call, NotifyExpiry
    <2>9. QED
      BY <2>3, <2>4, <2>5, <2>6, <2>7, <2>8
  <1>6. ASSUME NEW t \in Threads, StatusSnapshot(t)
        PROVE  Goal
    <2> USE <1>0, <1>6
    <2> USE DEF StatusSnapshot, Call
    <2>1. now' = now
      OBVIOUS
    <2>2. CASE PruneFails
      <3>1. RecordType' /\ ExpiryType' /\ faults' \in 0..MaxFaults /\ parked' \in [Goals -> SUBSET Requests]
            /\ \A h \in Goals : record'[h] = "reserved" <=> record[h] = "reserved"
        BY <2>1, <2>2, PruneFailsKeeps
      <3>2. RequestType' /\ CallType' /\ WaitType'
        BY <3>1, GoalsAssumption, AnyTyped DEF RequestType, CallType, WaitType, Modes
      <3>3. ReservationOwned'
        BY <3>1, ReservationKept DEF CallType, Accepting
      <3>4. QED
        BY <3>1, <3>2, <3>3
    <2>3. CASE ~PruneFails
      <3>1. Stale \in SUBSET Committed
        BY DEF Stale
      <3>2. Erase(Stale)
        BY <2>3
      <3>3. RecordType' /\ scheduled' \subseteq Goals /\ terminalTime' \in [Goals -> 0..MaxTime]
            /\ Kept(Stale) \in [Goals -> SUBSET Requests] /\ Queued(Stale) \in [Goals -> Nat]
            /\ \A h \in Goals : record'[h] = "reserved" <=> record[h] = "reserved"
        BY <2>1, <3>1, <3>2, EraseKeeps
      <3>4. ExpiryType' /\ RequestType'
        BY <2>3, <3>3 DEF ExpiryType, RequestType, CallType
      <3>5. CallType' /\ WaitType'
        BY <2>3, GoalsAssumption, AnyTyped DEF CallType, WaitType, Modes
      <3>6. ReservationOwned'
        BY <3>3, ReservationKept DEF CallType, Accepting
      <3>7. QED
        BY <3>3, <3>4, <3>5, <3>6
    <2>4. QED
      BY <2>2, <2>3
  <1>7. ASSUME NEW t \in Threads, TakeExpired(t)
        PROVE  Goal
    <2> USE <1>0, <1>7
    <2> USE DEF TakeExpired, Call
    <2>1. now' = now
      OBVIOUS
    <2>2. CASE PruneFails
      <3>1. RecordType' /\ ExpiryType' /\ faults' \in 0..MaxFaults /\ parked' \in [Goals -> SUBSET Requests]
            /\ \A h \in Goals : record'[h] = "reserved" <=> record[h] = "reserved"
        BY <2>1, <2>2, PruneFailsKeeps
      <3>2. RequestType' /\ CallType' /\ WaitType'
        BY <3>1, GoalsAssumption, AnyTyped DEF RequestType, CallType, WaitType, Modes
      <3>3. ReservationOwned'
        BY <3>1, ReservationKept DEF CallType, Accepting
      <3>4. QED
        BY <3>1, <3>2, <3>3
    <2>3. CASE ~PruneFails
      <3>1. Stale \in SUBSET Committed
        BY DEF Stale
      <3>2. Erase(Stale)
        BY <2>3
      <3>3. RecordType' /\ scheduled' \subseteq Goals /\ terminalTime' \in [Goals -> 0..MaxTime]
            /\ Kept(Stale) \in [Goals -> SUBSET Requests] /\ Queued(Stale) \in [Goals -> Nat]
            /\ \A h \in Goals : record'[h] = "reserved" <=> record[h] = "reserved"
        BY <2>1, <3>1, <3>2, EraseKeeps
      <3>4. ExpiryType' /\ RequestType'
        BY <2>3, <3>3 DEF ExpiryType, RequestType, CallType
      <3>5. CallType' /\ WaitType'
        BY <2>3, GoalsAssumption, AnyTyped DEF CallType, WaitType, Modes
      <3>6. ReservationOwned'
        BY <3>3, ReservationKept DEF CallType, Accepting
      <3>7. QED
        BY <3>3, <3>4, <3>5, <3>6
    <2>4. QED
      BY <2>2, <2>3
  <1>8. ASSUME NEW t \in Threads, NEW r \in Requests, ReadResultRequest(t, r)
        PROVE  Goal
    <2> USE <1>0, <1>8
    <2>1. RecordType'
      BY DEF RecordType, ReadResultRequest, Call
    <2>2. ExpiryType'
      BY GoalsAssumption DEF ExpiryType, ReadResultRequest, Call
    <2>3. RequestType'
      BY DEF RequestType, CallType, ReadResultRequest, Call
    <2>4. CallType'
      BY GoalsAssumption, AnyTyped DEF CallType, Modes, ReadResultRequest, Call
    <2>5. WaitType'
      BY DEF WaitType, ReadResultRequest, Call
    <2>6. ReservationOwned'
      BY ReservationKept DEF CallType, RecordType, Accepting, ReadResultRequest, Call
    <2>7. QED
      BY <2>1, <2>2, <2>3, <2>4, <2>5, <2>6
  <1>9. ASSUME NEW t \in Threads, NEW r \in Requests, RespondClaim(t, r)
        PROVE  Goal
    <2> USE <1>0, <1>9
    <2>1. RecordType'
      BY DEF RecordType, RespondClaim, Call, Coordinate, Goto
    <2>2. ExpiryType'
      BY GoalsAssumption DEF ExpiryType, RespondClaim, Call, Coordinate, Goto
    <2>3. RequestType'
      BY DEF RequestType, CallType, RespondClaim, Call, Coordinate, Goto
    <2>4. CallType'
      BY GoalsAssumption, AnyTyped DEF CallType, Modes, RespondClaim, Call, Coordinate, Goto
    <2>5. WaitType'
      BY DEF WaitType, RespondClaim, Call, Coordinate, Goto
    <2>6. ReservationOwned'
      BY ReservationKept DEF CallType, RecordType, Accepting, RespondClaim, Call, Coordinate, Goto
    <2>7. QED
      BY <2>1, <2>2, <2>3, <2>4, <2>5, <2>6
  <1>10. ASSUME NEW t \in Threads, NEW r \in Requests, DiscardErase(t, r)
         PROVE  Goal
    <2> USE <1>0, <1>10
    <2>1. RecordType'
      BY DEF RecordType, DiscardErase, Call, Coordinate, Goto
    <2>2. ExpiryType'
      BY GoalsAssumption DEF ExpiryType, DiscardErase, Call, Coordinate, Goto
    <2>3. RequestType'
      BY DEF RequestType, CallType, DiscardErase, Call, Coordinate, Goto
    <2>4. CallType'
      BY GoalsAssumption, AnyTyped DEF CallType, Modes, DiscardErase, Call, Coordinate, Goto
    <2>5. WaitType'
      BY DEF WaitType, DiscardErase, Call, Coordinate, Goto
    <2>6. ReservationOwned'
      BY ReservationKept DEF CallType, RecordType, Accepting, DiscardErase, Call, Coordinate, Goto
    <2>7. QED
      BY <2>1, <2>2, <2>3, <2>4, <2>5, <2>6
  <1>11. ASSUME NEW t \in Threads, NEW g \in Goals, NEW r \in Requests, RegisterCheck(t, g, r)
         PROVE  Goal
    <2> USE <1>0, <1>11
    <2>1. RecordType'
      BY DEF RecordType, RegisterCheck, Call, Coordinate, Goto
    <2>2. ExpiryType'
      BY GoalsAssumption DEF ExpiryType, RegisterCheck, Call, Coordinate, Goto
    <2>3. RequestType'
      BY DEF RequestType, CallType, RegisterCheck, Call, Coordinate, Goto
    <2>4. CallType'
      BY GoalsAssumption, AnyTyped DEF CallType, Modes, RegisterCheck, Call, Coordinate, Goto
    <2>5. WaitType'
      BY DEF WaitType, RegisterCheck, Call, Coordinate, Goto
    <2>6. ReservationOwned'
      BY ReservationKept DEF CallType, RecordType, Accepting, RegisterCheck, Call, Coordinate, Goto
    <2>7. QED
      BY <2>1, <2>2, <2>3, <2>4, <2>5, <2>6
  <1>12. ASSUME NEW t \in Threads, NEW g \in Goals, TakePending(t, g)
         PROVE  Goal
    <2> USE <1>0, <1>12
    <2>1. RecordType'
      BY DEF RecordType, TakePending, Call
    <2>2. ExpiryType'
      BY GoalsAssumption DEF ExpiryType, TakePending, Call
    <2>3. RequestType'
      BY DEF RequestType, CallType, TakePending, Call
    <2>4. CallType'
      BY GoalsAssumption, AnyTyped DEF CallType, Modes, TakePending, Call
    <2>5. WaitType'
      BY DEF WaitType, TakePending, Call
    <2>6. ReservationOwned'
      BY ReservationKept DEF CallType, RecordType, Accepting, TakePending, Call
    <2>7. QED
      BY <2>1, <2>2, <2>3, <2>4, <2>5, <2>6
  <1>13. ASSUME NEW t \in Threads, Register(t)
         PROVE  Goal
    <2> USE <1>0, <1>13
    <2> USE DEF Register, Uncoordinate, Return, Goto, Fault
    <2>1. now' = now
      OBVIOUS
    <2>2. CASE PruneFails
      <3>1. RecordType' /\ ExpiryType' /\ faults' \in 0..MaxFaults /\ parked' \in [Goals -> SUBSET Requests]
            /\ \A h \in Goals : record'[h] = "reserved" <=> record[h] = "reserved"
        BY <2>1, <2>2, PruneFailsKeeps
      <3>2. RequestType' /\ CallType' /\ WaitType'
        BY <3>1, GoalsAssumption, AnyTyped DEF RequestType, CallType, WaitType, Modes
      <3>3. ReservationOwned'
        BY <3>1, ReservationKept DEF CallType, Accepting
      <3>4. QED
        BY <3>1, <3>2, <3>3
    <2>3. CASE ~PruneFails
      <3>1. Stale \in SUBSET Committed
        BY DEF Stale
      <3>2. Erase(Stale)
        BY <2>3
      <3>3. RecordType' /\ scheduled' \subseteq Goals /\ terminalTime' \in [Goals -> 0..MaxTime]
            /\ Kept(Stale) \in [Goals -> SUBSET Requests] /\ Queued(Stale) \in [Goals -> Nat]
            /\ \A h \in Goals : record'[h] = "reserved" <=> record[h] = "reserved"
        BY <2>1, <3>1, <3>2, EraseKeeps
      <3>4. ExpiryType' /\ RequestType'
        BY <2>3, <3>3 DEF ExpiryType, RequestType, CallType
      <3>5. CallType' /\ WaitType'
        BY <2>3, GoalsAssumption, AnyTyped DEF CallType, WaitType, Modes
      <3>6. ReservationOwned'
        BY <3>3, ReservationKept DEF CallType, Accepting
      <3>7. QED
        BY <3>3, <3>4, <3>5, <3>6
    <2>4. QED
      BY <2>2, <2>3
  <1>14. ASSUME NEW t \in Threads, RespondRemove(t)
         PROVE  Goal
    <2> USE <1>0, <1>14
    <2>1. RecordType'
      BY DEF RecordType, RespondRemove, RespondUnpark, Unpark, Uncoordinate, Goto
    <2>2. ExpiryType'
      BY GoalsAssumption DEF ExpiryType, RespondRemove, RespondUnpark, Unpark, Uncoordinate, Goto
    <2>3. RequestType'
      BY DEF RequestType, CallType, RespondRemove, RespondUnpark, Unpark, Uncoordinate, Goto
    <2>4. CallType'
      BY GoalsAssumption, AnyTyped DEF CallType, Modes, RespondRemove, RespondUnpark, Unpark, Uncoordinate, Goto
    <2>5. WaitType'
      BY DEF WaitType, RespondRemove, RespondUnpark, Unpark, Uncoordinate, Goto
    <2>6. ReservationOwned'
      BY ReservationKept DEF CallType, RecordType, Accepting, RespondRemove, RespondUnpark, Unpark, Uncoordinate, Goto
    <2>7. QED
      BY <2>1, <2>2, <2>3, <2>4, <2>5, <2>6
  <1>15. ASSUME NEW t \in Threads, Respond(t)
         PROVE  Goal
    <2> USE <1>0, <1>15
    <2>1. RecordType'
      BY DEF RecordType, Respond, Fault, Goto
    <2>2. ExpiryType'
      BY GoalsAssumption DEF ExpiryType, Respond, Fault, Goto
    <2>3. RequestType'
      BY DEF RequestType, CallType, Respond, Fault, Goto
    <2>4. CallType'
      BY GoalsAssumption, AnyTyped DEF CallType, Modes, Respond, Fault, Goto
    <2>5. WaitType'
      BY DEF WaitType, Respond, Fault, Goto
    <2>6. ReservationOwned'
      BY ReservationKept DEF CallType, RecordType, Accepting, Respond, Fault, Goto
    <2>7. QED
      BY <2>1, <2>2, <2>3, <2>4, <2>5, <2>6
  <1>16. ASSUME NEW t \in Threads, Restore(t)
         PROVE  Goal
    <2> USE <1>0, <1>16
    <2>1. RecordType'
      BY DEF RecordType, Restore, Return, Goto
    <2>2. ExpiryType'
      BY GoalsAssumption DEF ExpiryType, Restore, Return, Goto
    <2>3. RequestType'
      BY DEF RequestType, CallType, Restore, Return, Goto
    <2>4. CallType'
      BY GoalsAssumption, AnyTyped DEF CallType, Modes, Restore, Return, Goto
    <2>5. WaitType'
      BY DEF WaitType, Restore, Return, Goto
    <2>6. ReservationOwned'
      BY ReservationKept DEF CallType, RecordType, Accepting, Restore, Return, Goto
    <2>7. QED
      BY <2>1, <2>2, <2>3, <2>4, <2>5, <2>6
  <1>17. ASSUME NEW t \in Threads, DiscardForget(t)
         PROVE  Goal
    <2> USE <1>0, <1>17
    <2>1. RecordType'
      BY DEF RecordType, DiscardForget, Unpark, Uncoordinate, Return, Goto
    <2>2. ExpiryType'
      BY GoalsAssumption DEF ExpiryType, DiscardForget, Unpark, Uncoordinate, Return, Goto
    <2>3. RequestType'
      BY DEF RequestType, CallType, DiscardForget, Unpark, Uncoordinate, Return, Goto
    <2>4. CallType'
      BY GoalsAssumption, AnyTyped DEF CallType, Modes, DiscardForget, Unpark, Uncoordinate, Return, Goto
    <2>5. WaitType'
      BY DEF WaitType, DiscardForget, Unpark, Uncoordinate, Return, Goto
    <2>6. ReservationOwned'
      BY ReservationKept DEF CallType, RecordType, Accepting, DiscardForget, Unpark, Uncoordinate, Return, Goto
    <2>7. QED
      BY <2>1, <2>2, <2>3, <2>4, <2>5, <2>6
  <1>18. ASSUME Wait \/ WaitCheck \/ WaitObserve \/ WaitReady \/ WaitEnter \/ WaitWake
         PROVE  Goal
    <2> USE <1>0, <1>18 DEF Wait, WaitCheck, WaitObserve, WaitReady, WaitEnter, WaitWake, WaitGoto, WaitUnchanged
    <2>1. RecordType' /\ ExpiryType' /\ RequestType' /\ CallType'
      BY DEF RecordType, ExpiryType, RequestType, CallType
    <2>2. WaitType'
      BY InfinityTyped DEF WaitType
    <2>3. ReservationOwned'
      BY DEF ReservationOwned, Accepting
    <2>4. QED
      BY <2>1, <2>2, <2>3
  <1>19. ASSUME WaitFold
         PROVE  Goal
    <2> USE <1>0, <1>19 DEF WaitFold, WaitGoto, WaitUnchanged
    <2>1. RecordType' /\ ExpiryType' /\ RequestType' /\ CallType'
      BY DEF RecordType, ExpiryType, RequestType, CallType
    <2>2. Expiries \subseteq 0..Infinity
      BY InfinityTyped DEF Expiries, Committed, ExpiryType
    <2>3. WaitType'
      BY <2>2, InfinityTyped DEF WaitType
    <2>4. ReservationOwned'
      BY DEF ReservationOwned, Accepting
    <2>5. QED
      BY <2>1, <2>3, <2>4
  <1>20. ASSUME Tick \/ Shutdown
         PROVE  Goal
    <2> USE <1>0, <1>20 DEF Tick, Shutdown
    <2>1. RecordType' /\ RequestType' /\ CallType' /\ WaitType'
      BY DEF RecordType, RequestType, CallType, WaitType
    <2>2. ExpiryType'
      BY GoalsAssumption DEF ExpiryType
    <2>3. ReservationOwned'
      BY DEF ReservationOwned, Accepting
    <2>4. QED
      BY <2>1, <2>2, <2>3
  <1>21. QED
    BY <1>1, <1>2, <1>3, <1>4, <1>5, <1>6, <1>7, <1>8, <1>9, <1>10, <1>11, <1>12, <1>13, <1>14, <1>15, <1>16, <1>17, <1>18, <1>19, <1>20 DEF Next

\* woken and shutdown are truth values: a step sets them or leaves them.
LEMMA NextFlags ==
  ASSUME FlagType, Next
  PROVE  FlagType'
  <1> USE DEF FlagType, registryVars, threadVars, waitVars, boundVars
  <1>1. ASSUME NEW t \in Threads, NEW g \in Goals, NEW m \in Modes, Accept(t, g, m) PROVE FlagType'
    BY <1>1, Zenon DEF Accept
  <1>2. ASSUME NEW t \in Threads, AcceptWrite(t) PROVE FlagType'
    BY <1>2, Zenon DEF AcceptWrite
  <1>3. ASSUME NEW t \in Threads, AcceptCommit(t) PROVE FlagType'
    BY <1>3, Zenon DEF AcceptCommit
  <1>4. ASSUME NEW t \in Threads, AcceptRollback(t) PROVE FlagType'
    BY <1>4, Zenon DEF AcceptRollback
  <1>5. ASSUME NEW t \in Threads, NEW g \in Goals, NEW e \in GoalEvents, UpdateState(t, g, e) PROVE FlagType'
    BY <1>5, Zenon DEF UpdateState, NotifyExpiry
  <1>6. ASSUME NEW t \in Threads, StatusSnapshot(t) PROVE FlagType'
    BY <1>6, Zenon DEF StatusSnapshot, PruneFails, Erase, NotifyExpiry
  <1>7. ASSUME NEW t \in Threads, TakeExpired(t) PROVE FlagType'
    BY <1>7, Zenon DEF TakeExpired, PruneFails, Erase, NotifyExpiry
  <1>8. ASSUME NEW t \in Threads, NEW r \in Requests, ReadResultRequest(t, r) PROVE FlagType'
    BY <1>8, Zenon DEF ReadResultRequest
  <1>9. ASSUME NEW t \in Threads, NEW r \in Requests, RespondClaim(t, r) PROVE FlagType'
    BY <1>9, Zenon DEF RespondClaim
  <1>10. ASSUME NEW t \in Threads, NEW r \in Requests, DiscardErase(t, r) PROVE FlagType'
    BY <1>10, Zenon DEF DiscardErase
  <1>11. ASSUME NEW t \in Threads, NEW g \in Goals, NEW r \in Requests, RegisterCheck(t, g, r) PROVE FlagType'
    BY <1>11, Zenon DEF RegisterCheck
  <1>12. ASSUME NEW t \in Threads, NEW g \in Goals, TakePending(t, g) PROVE FlagType'
    BY <1>12, Zenon DEF TakePending
  <1>13. ASSUME NEW t \in Threads, Register(t) PROVE FlagType'
    BY <1>13, Zenon DEF Register, PruneFails, Erase, NotifyExpiry
  <1>14. ASSUME NEW t \in Threads, RespondRemove(t) PROVE FlagType'
    BY <1>14, Zenon DEF RespondRemove
  <1>15. ASSUME NEW t \in Threads, Respond(t) PROVE FlagType'
    BY <1>15, Zenon DEF Respond
  <1>16. ASSUME NEW t \in Threads, Restore(t) PROVE FlagType'
    BY <1>16, Zenon DEF Restore
  <1>17. ASSUME NEW t \in Threads, DiscardForget(t) PROVE FlagType'
    BY <1>17, Zenon DEF DiscardForget
  <1>18. ASSUME Wait \/ WaitCheck \/ WaitObserve \/ WaitReady \/ WaitFold \/ WaitEnter \/ WaitWake PROVE FlagType'
    BY <1>18, Zenon DEF Wait, WaitCheck, WaitObserve, WaitReady, WaitFold, WaitEnter, WaitWake, WaitUnchanged
  <1>19. ASSUME Tick \/ Shutdown PROVE FlagType'
    BY <1>19, Zenon DEF Tick, Shutdown
  <1>20. QED
    BY <1>1, <1>2, <1>3, <1>4, <1>5, <1>6, <1>7, <1>8, <1>9, <1>10, <1>11, <1>12, <1>13, <1>14, <1>15, <1>16, <1>17, <1>18, <1>19 DEF Next

\* Together, and with the steps that change nothing.
LEMMA StepInv == IInv /\ [Next]_vars => IInv'
  <1> SUFFICES ASSUME IInv, [Next]_vars PROVE IInv'
    OBVIOUS
  <1>1. CASE Next
    <2>1. FlagType'
      BY <1>1, NextFlags DEF IInv, TypeOK
    <2>2. QED
      BY <1>1, <2>1, NextInv DEF IInv, TypeOK
  <1>2. CASE UNCHANGED vars
    <2> USE <1>2 DEF vars, registryVars, threadVars, waitVars, boundVars
    <2>1. RecordType' /\ ExpiryType' /\ RequestType' /\ CallType' /\ WaitType'
      BY DEF IInv, TypeOK, RecordType, ExpiryType, RequestType, CallType, WaitType
    <2>2. FlagType'
      BY Zenon DEF IInv, TypeOK, FlagType
    <2>3. ReservationOwned'
      BY DEF IInv, ReservationOwned, Accepting
    <2>4. QED
      BY <2>1, <2>2, <2>3 DEF IInv, TypeOK
  <1>3. QED
    BY <1>1, <1>2

\* Every reachable state of the registry, the accept transactions, the result
\* requests and the wait is well typed; a goal has a state exactly while it is
\* committed.
THEOREM GoalsTypeCorrect == Spec => []TypeOK
  <1>1. IInv => TypeOK
    BY DEF IInv
  <1>2. QED
    BY InitInv, StepInv, <1>1, PTL DEF Spec

\* accept_goal() is a transaction: each reservation belongs to exactly one thread
\* that commits it or rolls it back, so no half-accepted goal stays, of two
\* concurrent accepts of a GoalId one succeeds, and the commit after the response
\* never fails, for any number of threads and goals.
THEOREM AcceptIsTransaction == Spec => []ReservationOwned
  <1>1. IInv => ReservationOwned
    BY DEF IInv
  <1>2. QED
    BY InitInv, StepInv, <1>1, PTL DEF Spec

-----------------------------------------------------------------------------
(* The wait for an expiry.                                                 *)

\* What a wait that was not notified since it observed the generation knows.
SleepInv ==
  /\ waiter \in {"fold", "enter", "asleep"} /\ ~woken => \A g \in Goals : expired[g] = 0
  /\ waiter \in {"enter", "asleep"} /\ ~woken => \A e \in Expiries : deadline <= e

\* A step of another thread that queues an id or schedules an expiry notifies.
LEMMA QuietKeepsSleep ==
  ASSUME SleepInv, UNCHANGED waitVars, woken => woken',
         woken' \/ \A g \in Goals : expired[g] = 0 => expired'[g] = 0,
         woken' \/ Expiries' \subseteq Expiries
  PROVE  SleepInv'
  BY DEF SleepInv, waitVars

\* Pruning notifies if it erases anything.
LEMMA PruneKeepsSleep ==
  ASSUME TypeOK, SleepInv, NEW gs \in SUBSET Stale, Erase(gs),
         expired' = Queued(gs) \/ expired' = [g \in Goals |-> 0], UNCHANGED waitVars
  PROVE  SleepInv'
  <1>1. CASE gs = {}
    <2>1. woken' = woken /\ \A g \in Goals : expired[g] = 0 => expired'[g] = 0
      BY <1>1 DEF Erase, Queued
    <2>2. Expiries' \subseteq Expiries
      BY <1>1 DEF Erase, Expiries, Committed, TypeOK, RecordType, ExpiryType
    <2>3. QED
      BY <2>1, <2>2, QuietKeepsSleep
  <1>2. CASE gs # {}
    BY <1>2, QuietKeepsSleep DEF Erase, NotifyExpiry
  <1>3. QED
    BY <1>1, <1>2

LEMMA PruneFailsKeepsSleep ==
  ASSUME TypeOK, SleepInv, PruneFails, UNCHANGED waitVars
  PROVE  SleepInv'
  <1>1. PICK gs \in SUBSET Stale : Erase(gs) /\ expired' = Queued(gs)
    BY DEF PruneFails
  <1>2. QED
    BY <1>1, PruneKeepsSleep

\* Every step keeps what the wait relies on.
LEMMA NextSleep ==
  ASSUME TypeOK, SleepInv, [Next]_vars
  PROVE  SleepInv'
  <1>1. ASSUME UNCHANGED <<record, scheduled, terminalTime, expired, woken, waitVars>> PROVE SleepInv'
    <2>1. Expiries' = Expiries
      BY <1>1 DEF Expiries, Committed
    <2>2. QED
      BY <1>1, <2>1, QuietKeepsSleep
  <1>2. ASSUME NEW t \in Threads, NEW g \in Goals, NEW m \in Modes, Accept(t, g, m) PROVE SleepInv'
    <2>1. Expiries' \subseteq Expiries
      BY <1>2 DEF Accept, Reservable, Expiries, Committed, TypeOK, RecordType
    <2>2. QED
      BY <1>2, <2>1, QuietKeepsSleep DEF Accept
  <1>3. ASSUME NEW t \in Threads, AcceptWrite(t) PROVE SleepInv'
    BY <1>1, <1>3 DEF AcceptWrite, registryVars
  <1>4. ASSUME NEW t \in Threads, AcceptCommit(t) PROVE SleepInv'
    <2>1. Expiries' \subseteq Expiries
      BY <1>4 DEF AcceptCommit, Expiries, Committed, TypeOK, RecordType, CallType
    <2>2. QED
      BY <1>4, <2>1, QuietKeepsSleep DEF AcceptCommit
  <1>5. ASSUME NEW t \in Threads, AcceptRollback(t) PROVE SleepInv'
    <2>1. Expiries' \subseteq Expiries
      BY <1>5 DEF AcceptRollback, Expiries, Committed, TypeOK, RecordType, CallType
    <2>2. QED
      BY <1>5, <2>1, QuietKeepsSleep DEF AcceptRollback
  <1>6. ASSUME NEW t \in Threads, NEW g \in Goals, NEW e \in GoalEvents, UpdateState(t, g, e)
        PROVE  SleepInv'
    <2>1. CASE state'[g] \in Terminal
      BY <1>6, <2>1, QuietKeepsSleep DEF UpdateState, NotifyExpiry
    <2>2. CASE state'[g] \notin Terminal
      BY <1>1, <1>6, <2>2 DEF UpdateState
    <2>3. QED
      BY <2>1, <2>2
  <1>7. ASSUME NEW t \in Threads, StatusSnapshot(t) PROVE SleepInv'
    BY <1>7, PruneKeepsSleep, PruneFailsKeepsSleep DEF StatusSnapshot
  <1>8. ASSUME NEW t \in Threads, TakeExpired(t) PROVE SleepInv'
    BY <1>8, PruneKeepsSleep, PruneFailsKeepsSleep DEF TakeExpired
  <1>9. ASSUME NEW t \in Threads, Register(t) PROVE SleepInv'
    BY <1>9, PruneKeepsSleep, PruneFailsKeepsSleep DEF Register
  <1>10. ASSUME NEW t \in Threads, NEW r \in Requests,
                ReadResultRequest(t, r) \/ RespondClaim(t, r) \/ DiscardErase(t, r)
         PROVE  SleepInv'
    BY <1>1, <1>10 DEF ReadResultRequest, RespondClaim, DiscardErase, registryVars
  <1>11. ASSUME NEW t \in Threads, NEW g \in Goals, NEW r \in Requests, RegisterCheck(t, g, r)
         PROVE  SleepInv'
    BY <1>1, <1>11 DEF RegisterCheck, registryVars
  <1>12. ASSUME NEW t \in Threads, NEW g \in Goals, TakePending(t, g) PROVE SleepInv'
    BY <1>1, <1>12 DEF TakePending
  <1>13. ASSUME NEW t \in Threads, RespondRemove(t) \/ Respond(t) \/ Restore(t) \/ DiscardForget(t)
         PROVE  SleepInv'
    BY <1>1, <1>13 DEF RespondRemove, Respond, Restore, DiscardForget, registryVars
  <1>14. ASSUME Wait \/ WaitCheck \/ WaitObserve \/ WaitWake PROVE SleepInv'
    BY <1>14 DEF Wait, WaitCheck, WaitObserve, WaitWake, WaitGoto, SleepInv
  <1>15. ASSUME WaitReady PROVE SleepInv'
    <2>1. waiter' = "fold" => \A g \in Goals : expired[g] = 0
      BY <1>15 DEF WaitReady, WaitGoto, ExpiryReady, TypeOK, ExpiryType
    <2>2. waiter' \in {"idle", "fold"} /\ UNCHANGED expired
      BY <1>15 DEF WaitReady, WaitGoto, WaitUnchanged, registryVars
    <2>3. QED
      BY <2>1, <2>2 DEF SleepInv
  <1>16. ASSUME WaitFold PROVE SleepInv'
    <2>1. Expiries' = Expiries /\ UNCHANGED <<expired, woken>>
      BY <1>16 DEF WaitFold, WaitUnchanged, registryVars, Expiries, Committed
    <2>2. waiter = "fold" /\ waiter' = "enter" /\ \A e \in Expiries : deadline' <= e
      BY <1>16 DEF WaitFold, WaitGoto
    <2>3. QED
      BY <2>1, <2>2 DEF SleepInv
  <1>17. ASSUME WaitEnter PROVE SleepInv'
    <2>1. Expiries' = Expiries /\ UNCHANGED <<expired, woken, deadline>>
      BY <1>17 DEF WaitEnter, WaitUnchanged, registryVars, Expiries, Committed
    <2>2. waiter = "enter" /\ waiter' \in {"check", "asleep"}
      BY <1>17 DEF WaitEnter, WaitGoto
    <2>3. QED
      BY <2>1, <2>2 DEF SleepInv
  <1>18. ASSUME Tick PROVE SleepInv'
    BY <1>1, <1>18 DEF Tick, registryVars
  <1>19. ASSUME Shutdown PROVE SleepInv'
    BY <1>19, QuietKeepsSleep DEF Shutdown
  <1>20. ASSUME UNCHANGED vars PROVE SleepInv'
    BY <1>1, <1>20 DEF vars, registryVars
  <1>21. QED
    BY <1>2, <1>3, <1>4, <1>5, <1>6, <1>7, <1>8, <1>9, <1>10, <1>11, <1>12, <1>13, <1>14,
       <1>15, <1>16, <1>17, <1>18, <1>19, <1>20 DEF Next

\* An infinite wait that sleeps unnotified wakes no later than any goal expires:
\* SleepCoversExpiry, for any number of goals, threads and ticks of the clock.
THEOREM NoExpiryIsSleptOn == Spec => []SleepCoversExpiry
  <1>1. Init => SleepInv
    BY DEF Init, SleepInv
  <1>2. SleepInv => SleepCoversExpiry
    BY DEF SleepInv, SleepCoversExpiry
  <1>3. TypeOK /\ SleepInv /\ [Next]_vars => SleepInv'
    BY NextSleep
  <1>4. QED
    BY <1>1, <1>2, <1>3, GoalsTypeCorrect, PTL DEF Spec

-----------------------------------------------------------------------------
(* The requests parked with the goals.                                     *)

Coordinating(t) == pc[t] \in {"register", "unpark", "forget"}

\* The thread that answers r: from claim_response() until ~RestorePending has
\* nothing left to restore.
Claims(t, r) ==
  /\ request[t] = r
  /\ pc[t] \in {"unpark", "respond", "restore"}
  /\ table[r] = "Responding"

\* result_coordination_mutex_ is held by the thread between its two steps.
MutexHeld == \A t \in Threads : Coordinating(t) <=> coordination = t

\* What a thread knows of its request in the result Server's table.
EntryKnown ==
  \A t \in Threads :
    /\ pc[t] = "register" => table[request[t]] = "Pending"
    /\ pc[t] \in {"unpark", "respond"} => table[request[t]] = "Responding"
    /\ pc[t] = "restore" => table[request[t]] \in {"gone", "Responding"}
    /\ pc[t] = "forget" => table[request[t]] # "Responding"

OneClaim == \A t, u \in Threads : \A r \in Requests : Claims(t, r) /\ Claims(u, r) => t = u

\* Only a terminal goal can expire.
ScheduledIsTerminal == \A g \in scheduled : state[g] \in Terminal

RequestInv == MutexHeld /\ EntryKnown /\ OneClaim /\ ScheduledIsTerminal /\ ParkedIsPending

\* Threads between two steps of a request.
Busy(t) == pc[t] \in {"register", "unpark", "respond", "restore", "forget"}

\* A step outside the request operations leaves the threads in them alone; if it
\* parks nothing and keeps the goals that have requests, it keeps the invariant.
LEMMA QuietKeepsRequests ==
  ASSUME TypeOK, RequestInv, UNCHANGED <<table, coordination>>,
         \A t \in Threads : Busy(t) \/ Busy(t)' => pc'[t] = pc[t] /\ request'[t] = request[t],
         \A g \in Goals : parked'[g] \subseteq parked[g],
         \A g \in Goals : parked'[g] # {} => g \in Committed',
         ScheduledIsTerminal'
  PROVE  RequestInv'
  <1>1. MutexHeld' /\ EntryKnown'
    BY DEF RequestInv, MutexHeld, EntryKnown, Coordinating, Busy
  <1>2. OneClaim'
    BY DEF RequestInv, OneClaim, Claims, Busy
  <1>3. ASSUME NEW g \in Goals, NEW r \in parked'[g]
        PROVE  /\ g \in Committed'
               /\ \A h \in Goals \ {g} : r \notin parked'[h]
               /\ table'[r] # "Pending" => \E t \in Threads : coordination' = t /\ request'[t] = r
    <2>1. r \in parked[g]
      BY <1>3
    <2>2. g \in Committed /\ \A h \in Goals \ {g} : r \notin parked[h]
      BY <2>1 DEF RequestInv, ParkedIsPending
    <2>3. ASSUME table'[r] # "Pending" PROVE \E t \in Threads : coordination' = t /\ request'[t] = r
      <3>1. PICK t \in Threads : coordination = t /\ request[t] = r
        BY <2>1, <2>3 DEF RequestInv, ParkedIsPending
      <3>2. Busy(t)
        BY <3>1 DEF RequestInv, MutexHeld, Coordinating, Busy
      <3>3. QED
        BY <3>1, <3>2
    <2>4. QED
      BY <1>3, <2>2, <2>3
  <1>4. ParkedIsPending'
    BY <1>3 DEF ParkedIsPending
  <1>5. QED
    BY <1>1, <1>2, <1>4 DEF RequestInv

\* Pruning takes terminal goals and the requests parked with them.
LEMMA PruneParked ==
  ASSUME TypeOK, RequestInv, NEW gs \in SUBSET Stale, Erase(gs)
  PROVE  /\ \A g \in Goals : Kept(gs)[g] \subseteq parked[g]
         /\ \A g \in Goals : Kept(gs)[g] # {} => g \in Committed'
         /\ ScheduledIsTerminal'
         /\ \A g \in Committed \ gs : g \in Committed'
         /\ \A g \in gs : state[g] \in Terminal
  <1>1. \A g \in Goals : g \notin gs => record'[g] = record[g] /\ state'[g] = state[g]
    BY DEF Erase, TypeOK, RecordType
  <1>2. \A g \in Goals : Kept(gs)[g] = IF g \in gs THEN {} ELSE parked[g]
    BY DEF Kept
  <1>3. \A g \in Goals : parked[g] # {} => g \in Committed
    BY DEF RequestInv, ParkedIsPending
  <1>4. scheduled' = scheduled \ gs /\ scheduled \subseteq Goals
    BY DEF Erase, TypeOK, ExpiryType
  <1>5. ScheduledIsTerminal'
    BY <1>1, <1>4 DEF RequestInv, ScheduledIsTerminal
  <1>6. \A g \in gs : state[g] \in Terminal
    BY DEF Stale, Expired, RequestInv, ScheduledIsTerminal
  <1>7. \A g \in Committed \ gs : g \in Committed'
    BY <1>1 DEF Committed
  <1>8. QED
    BY <1>2, <1>3, <1>5, <1>6, <1>7

\* The steps of the registry alone.
LEMMA RegistryKeepsRequests ==
  ASSUME TypeOK, RequestInv, NEW t \in Threads,
         \/ \E g \in Goals, m \in Modes : Accept(t, g, m)
         \/ AcceptWrite(t) \/ AcceptCommit(t) \/ AcceptRollback(t)
         \/ \E g \in Goals, e \in GoalEvents : UpdateState(t, g, e)
         \/ StatusSnapshot(t) \/ TakeExpired(t)
         \/ \E g \in Goals : TakePending(t, g)
  PROVE  RequestInv'
  <1> USE DEF Busy
  <1>0. /\ \A g \in Goals : parked[g] # {} => record[g] = "committed"
        /\ scheduled \subseteq Goals /\ \A g \in scheduled : state[g] \in Terminal
    BY DEF RequestInv, ParkedIsPending, Committed, ScheduledIsTerminal, TypeOK, ExpiryType
  <1>1. ASSUME NEW g \in Goals, NEW m \in Modes, Accept(t, g, m) PROVE RequestInv'
    <2>1. \A h \in Goals : parked[h] # {} => h \in Committed'
      BY <1>0, <1>1 DEF Accept, Reservable, Committed, TypeOK, RecordType
    <2>2. \A u \in Threads : Busy(u) \/ Busy(u)' => pc'[u] = pc[u] /\ request'[u] = request[u]
      BY <1>1 DEF Accept, Call, Goto, TypeOK, CallType
    <2>3. ScheduledIsTerminal'
      BY <1>0, <1>1 DEF Accept, ScheduledIsTerminal
    <2>4. QED
      BY <1>1, <2>1, <2>2, <2>3, QuietKeepsRequests DEF Accept
  <1>2. ASSUME AcceptWrite(t) PROVE RequestInv'
    <2>1. \A h \in Goals : parked[h] # {} => h \in Committed'
      BY <1>0, <1>2 DEF AcceptWrite, registryVars, Committed
    <2>2. \A u \in Threads : Busy(u) \/ Busy(u)' => pc'[u] = pc[u] /\ request'[u] = request[u]
      BY <1>2 DEF AcceptWrite, Goto, TypeOK, CallType
    <2>3. ScheduledIsTerminal'
      BY <1>0, <1>2 DEF AcceptWrite, registryVars, ScheduledIsTerminal
    <2>4. QED
      BY <1>2, <2>1, <2>2, <2>3, QuietKeepsRequests DEF AcceptWrite, registryVars
  <1>3. ASSUME AcceptCommit(t) PROVE RequestInv'
    <2>1. \A h \in Goals : parked'[h] \subseteq parked[h] /\ (parked'[h] # {} => h \in Committed')
      BY <1>0, <1>3 DEF AcceptCommit, Committed, TypeOK, RecordType, RequestType, CallType
    <2>2. \A u \in Threads : Busy(u) \/ Busy(u)' => pc'[u] = pc[u] /\ request'[u] = request[u]
      BY <1>3 DEF AcceptCommit, Goto, Return, TypeOK, CallType
    <2>3. ScheduledIsTerminal'
      BY <1>0, <1>3 DEF AcceptCommit, ScheduledIsTerminal, TypeOK, RecordType, CallType
    <2>4. QED
      BY <1>3, <2>1, <2>2, <2>3, QuietKeepsRequests DEF AcceptCommit
  <1>4. ASSUME AcceptRollback(t) PROVE RequestInv'
    <2>1. \A h \in Goals : parked[h] # {} => h \in Committed'
      BY <1>0, <1>4 DEF AcceptRollback, Committed, TypeOK, RecordType, CallType
    <2>2. \A u \in Threads : Busy(u) \/ Busy(u)' => pc'[u] = pc[u] /\ request'[u] = request[u]
      BY <1>4 DEF AcceptRollback, Goto, Return, TypeOK, CallType
    <2>3. ScheduledIsTerminal'
      BY <1>0, <1>4 DEF AcceptRollback, ScheduledIsTerminal
    <2>4. QED
      BY <1>4, <2>1, <2>2, <2>3, QuietKeepsRequests DEF AcceptRollback
  <1>5. ASSUME NEW g \in Goals, NEW e \in GoalEvents, UpdateState(t, g, e) PROVE RequestInv'
    <2>1. \A h \in Goals : parked[h] # {} => h \in Committed'
      BY <1>0, <1>5 DEF UpdateState, Committed
    <2>2. state[g] \notin Terminal
      BY <1>5 DEF UpdateState, Allowed, Successor, Terminal
    <2>3. \A h \in Goals : h # g => state'[h] = state[h]
      BY <1>5 DEF UpdateState, TypeOK, RecordType
    <2>4. scheduled' = scheduled \/ (scheduled' = scheduled \cup {g} /\ state'[g] \in Terminal)
      BY <1>5 DEF UpdateState
    <2>5. ScheduledIsTerminal'
      BY <1>0, <2>2, <2>3, <2>4 DEF ScheduledIsTerminal
    <2>6. QED
      BY <1>5, <2>1, <2>5, QuietKeepsRequests DEF UpdateState, threadVars
  <1>6. ASSUME NEW gs \in SUBSET Stale, Erase(gs), parked' = Kept(gs),
               UNCHANGED <<table, coordination, threadVars>>
        PROVE  RequestInv'
    BY <1>6, PruneParked, QuietKeepsRequests DEF threadVars
  <1>7. ASSUME StatusSnapshot(t) \/ TakeExpired(t) PROVE RequestInv'
    <2>1. \E gs \in SUBSET Stale : Erase(gs) /\ parked' = Kept(gs)
      BY <1>7 DEF StatusSnapshot, TakeExpired, PruneFails
    <2>2. QED
      BY <1>6, <1>7, <2>1 DEF StatusSnapshot, TakeExpired
  <1>8. ASSUME NEW g \in Goals, TakePending(t, g) PROVE RequestInv'
    <2>1. \A h \in Goals : parked'[h] \subseteq parked[h] /\ (parked'[h] # {} => h \in Committed')
      BY <1>0, <1>8 DEF TakePending, Committed, TypeOK, RequestType
    <2>2. ScheduledIsTerminal'
      BY <1>0, <1>8 DEF TakePending, ScheduledIsTerminal
    <2>3. QED
      BY <1>8, <2>1, <2>2, QuietKeepsRequests DEF TakePending, threadVars
  <1>9. QED
    BY <1>1, <1>2, <1>3, <1>4, <1>5, <1>7, <1>8

\* The steps of the wait, of the clock and of a shutdown.
LEMMA AmbientKeepsRequests ==
  ASSUME TypeOK, RequestInv,
         \/ Wait \/ WaitCheck \/ WaitObserve \/ WaitReady \/ WaitFold \/ WaitEnter \/ WaitWake
         \/ Tick \/ Shutdown \/ UNCHANGED vars
  PROVE  RequestInv'
  <1>1. UNCHANGED <<record, state, scheduled, parked, table, coordination, threadVars>>
    BY DEF Wait, WaitCheck, WaitObserve, WaitReady, WaitFold, WaitEnter, WaitWake, WaitUnchanged,
           Tick, Shutdown, vars, registryVars
  <1>2. /\ Committed' = Committed /\ ScheduledIsTerminal'
        /\ \A g \in Goals : parked[g] # {} => g \in Committed
    BY <1>1 DEF Committed, RequestInv, ScheduledIsTerminal, ParkedIsPending
  <1>3. QED
    BY <1>1, <1>2, QuietKeepsRequests DEF threadVars

Labels == {"idle", "write", "commit", "rollback", "register", "unpark", "respond", "restore", "forget"}
Phases == {"unread", "Pending", "Responding", "gone"}

\* A thread that takes result_coordination_mutex_ finds every parked request
\* Pending; the holder finds all but its own so.
LEMMA HolderAlone ==
  ASSUME TypeOK, RequestInv
  PROVE  /\ coordination = NoThread => \A t \in Threads : ~Coordinating(t)
         /\ \A t \in Threads : coordination = t => \A u \in Threads \ {t} : ~Coordinating(u)
         /\ coordination = NoThread => \A g \in Goals : \A r \in parked[g] : table[r] = "Pending"
         /\ \A t \in Threads : coordination = t =>
              \A g \in Goals : \A r \in parked[g] : r # request[t] => table[r] = "Pending"
  BY GoalsAssumption DEF RequestInv, MutexHeld, ParkedIsPending

\* A step that leaves parked and the goals alone.
LEMMA TableKeepsParked ==
  ASSUME RequestInv, UNCHANGED registryVars,
         \A g \in Goals : \A r \in parked[g] :
           table'[r] # "Pending" => \E t \in Threads : coordination' = t /\ request'[t] = r
  PROVE  ScheduledIsTerminal' /\ ParkedIsPending'
  BY DEF RequestInv, ScheduledIsTerminal, ParkedIsPending, registryVars, Committed

LEMMA RequestsBegin ==
  ASSUME TypeOK, RequestInv, NEW t \in Threads, NEW r \in Requests,
         \/ ReadResultRequest(t, r) \/ RespondClaim(t, r) \/ DiscardErase(t, r)
         \/ \E g \in Goals : RegisterCheck(t, g, r)
  PROVE  RequestInv'
  <1>0. /\ MutexHeld /\ EntryKnown /\ OneClaim
        /\ pc \in [Threads -> Labels] /\ request \in [Threads -> Requests]
        /\ table \in [Requests -> Phases] /\ parked \in [Goals -> SUBSET Requests]
    BY DEF RequestInv, TypeOK, CallType, RequestType, Labels, Phases
  <1>1. ASSUME ReadResultRequest(t, r) PROVE RequestInv'
    <2> USE <1>0, <1>1 DEF ReadResultRequest, threadVars
    <2>1. MutexHeld' /\ EntryKnown'
      BY DEF MutexHeld, EntryKnown, Coordinating
    <2>2. OneClaim'
      BY DEF OneClaim, Claims
    <2>3. ScheduledIsTerminal' /\ ParkedIsPending'
      <3>1. ASSUME NEW g \in Goals, NEW q \in parked[g], table'[q] # "Pending"
            PROVE  \E u \in Threads : coordination' = u /\ request'[u] = q
        BY <3>1 DEF RequestInv, ParkedIsPending
      <3>2. QED
        BY <3>1, TableKeepsParked
    <2>4. QED
      BY <2>1, <2>2, <2>3 DEF RequestInv
  <1>2. ASSUME RespondClaim(t, r) PROVE RequestInv'
    <2> USE <1>0, <1>2 DEF RespondClaim, Coordinate, Goto, Call
    <2>1. MutexHeld'
      BY HolderAlone DEF MutexHeld, Coordinating
    <2>2. EntryKnown'
      BY HolderAlone DEF EntryKnown, Coordinating
    <2>3. OneClaim'
      <3>1. \A u \in Threads : u # t => ~Claims(u, r)'
        BY DEF EntryKnown, Claims
      <3>2. QED
        BY <3>1 DEF OneClaim, Claims
    <2>4. ScheduledIsTerminal' /\ ParkedIsPending'
      <3>1. \A g \in Goals : \A q \in parked[g] : table'[q] # "Pending" => q = r
        BY HolderAlone
      <3>2. coordination' = t /\ request'[t] = r
        OBVIOUS
      <3>3. QED
        BY <3>1, <3>2, TableKeepsParked
    <2>5. QED
      BY <2>1, <2>2, <2>3, <2>4 DEF RequestInv
  <1>3. ASSUME DiscardErase(t, r) PROVE RequestInv'
    <2> USE <1>0, <1>3 DEF DiscardErase, Coordinate, Goto, Call
    <2>1. MutexHeld'
      BY HolderAlone DEF MutexHeld, Coordinating
    <2>2. EntryKnown'
      BY HolderAlone DEF EntryKnown, Coordinating
    <2>3. OneClaim'
      BY DEF OneClaim, Claims
    <2>4. ScheduledIsTerminal' /\ ParkedIsPending'
      <3>1. \A g \in Goals : \A q \in parked[g] : table'[q] # "Pending" => q = r
        BY HolderAlone
      <3>2. coordination' = t /\ request'[t] = r
        OBVIOUS
      <3>3. QED
        BY <3>1, <3>2, TableKeepsParked
    <2>5. QED
      BY <2>1, <2>2, <2>3, <2>4 DEF RequestInv
  <1>4. ASSUME NEW g \in Goals, RegisterCheck(t, g, r) PROVE RequestInv'
    <2> USE <1>0, <1>4 DEF RegisterCheck, Coordinate, Goto, Call
    <2>1. MutexHeld'
      BY HolderAlone DEF MutexHeld, Coordinating
    <2>2. EntryKnown'
      BY DEF EntryKnown
    <2>3. OneClaim'
      BY DEF OneClaim, Claims
    <2>4. ScheduledIsTerminal' /\ ParkedIsPending'
      BY HolderAlone, TableKeepsParked
    <2>5. QED
      BY <2>1, <2>2, <2>3, <2>4 DEF RequestInv
  <1>5. QED
    BY <1>1, <1>2, <1>3, <1>4

\* The end of an operation that held the mutex: its request leaves the registry,
\* or was Pending all along.
LEMMA RequestsEnd ==
  ASSUME TypeOK, RequestInv, NEW t \in Threads,
         Register(t) \/ RespondRemove(t) \/ DiscardForget(t)
  PROVE  RequestInv'
  <1>0. /\ MutexHeld /\ EntryKnown /\ OneClaim
        /\ pc \in [Threads -> Labels] /\ request \in [Threads -> Requests]
        /\ table \in [Requests -> Phases] /\ parked \in [Goals -> SUBSET Requests]
        /\ goal[t] \in Goals
    BY DEF RequestInv, TypeOK, CallType, RequestType, Labels, Phases
  <1>1. coordination = t /\ coordination' = NoThread /\ table' = table
    BY DEF Register, RespondRemove, DiscardForget, Uncoordinate
  <1>2. /\ \A u \in Threads : u # t => pc'[u] = pc[u] /\ request'[u] = request[u]
        /\ pc'[t] = "idle" \/ (pc[t] = "unpark" /\ pc'[t] = "respond" /\ request'[t] = request[t])
    BY <1>0 DEF Register, RespondRemove, DiscardForget, Return, Goto
  <1>3. MutexHeld'
    BY <1>0, <1>1, <1>2, HolderAlone, GoalsAssumption DEF MutexHeld, Coordinating
  <1>4. EntryKnown'
    BY <1>0, <1>1, <1>2 DEF EntryKnown
  <1>5. OneClaim'
    BY <1>0, <1>1, <1>2 DEF OneClaim, Claims
  <1>6. \A g \in Goals : \A q \in parked[g] : q # request[t] => table[q] = "Pending"
    BY <1>1, HolderAlone
  <1>7. ASSUME RespondRemove(t) \/ DiscardForget(t) PROVE RequestInv'
    <2>1. /\ \A g \in Goals : parked'[g] = parked[g] \ {request[t]}
          /\ UNCHANGED <<record, state, scheduled>>
      BY <1>7 DEF RespondRemove, RespondUnpark, DiscardForget, Unpark
    <2>2. ScheduledIsTerminal' /\ ParkedIsPending'
      BY <1>1, <1>6, <2>1 DEF RequestInv, ScheduledIsTerminal, ParkedIsPending, Committed
    <2>3. QED
      BY <1>3, <1>4, <1>5, <2>2 DEF RequestInv
  <1>8. ASSUME Register(t) PROVE RequestInv'
    <2> DEFINE g == goal[t]
               r == request[t]
    <2>1. table[r] = "Pending"
      BY <1>0, <1>8 DEF Register, EntryKnown
    <2>2. PICK gs \in SUBSET Stale :
            /\ Erase(gs)
            /\ \/ parked' = Kept(gs)
               \/ gs = Stale /\ Parkable(g, r) /\ parked' = [Kept(gs) EXCEPT ![g] = @ \cup {r}]
      BY <1>8 DEF Register, PruneFails
    <2>3. /\ \A h \in Goals : Kept(gs)[h] = IF h \in gs THEN {} ELSE parked[h]
          /\ \A h \in Goals : Kept(gs)[h] # {} => h \in Committed'
          /\ ScheduledIsTerminal' /\ \A h \in Committed \ gs : h \in Committed'
          /\ \A h \in gs : state[h] \in Terminal
          /\ Kept(gs) \in [Goals -> SUBSET Requests]
      BY <1>0, <2>2, PruneParked DEF Kept
    <2>4. \A h \in Goals : \A q \in parked[h] : \A k \in Goals \ {h} : q \notin parked[k]
      BY DEF RequestInv, ParkedIsPending
    <2>5. \A q : (\E h \in Goals : q \in parked'[h]) => table[q] = "Pending"
      BY <1>0, <1>6, <2>1, <2>2, <2>3
    <2>6. CASE parked' = Kept(gs)
      <3>1. ParkedIsPending'
        BY <1>1, <2>3, <2>4, <2>5, <2>6 DEF ParkedIsPending
      <3>2. QED
        BY <1>3, <1>4, <1>5, <2>3, <3>1 DEF RequestInv
    <2>7. CASE gs = Stale /\ Parkable(g, r) /\ parked' = [Kept(gs) EXCEPT ![g] = @ \cup {r}]
      <3>1. g \in Committed' /\ \A h \in Goals : r \notin Kept(gs)[h]
        BY <1>0, <2>3, <2>7 DEF Parkable
      <3>2. \A h \in Goals : parked'[h] = IF h = g THEN Kept(gs)[g] \cup {r} ELSE Kept(gs)[h]
        BY <1>0, <2>3, <2>7
      <3>3. \A h \in Goals : \A q \in parked'[h] : h \in Committed' /\ \A k \in Goals \ {h} : q \notin parked'[k]
        BY <1>0, <2>3, <2>4, <3>1, <3>2
      <3>4. ParkedIsPending'
        BY <1>1, <2>5, <3>3 DEF ParkedIsPending
      <3>5. QED
        BY <1>3, <1>4, <1>5, <2>3, <3>4 DEF RequestInv
    <2>8. QED
      BY <2>2, <2>6, <2>7
  <1>9. QED
    BY <1>7, <1>8

\* The response itself: whoever holds the claim finds its request not parked.
LEMMA ResponsesKeepRequests ==
  ASSUME "result" \notin Failing, TypeOK, RequestInv, NEW t \in Threads, Respond(t) \/ Restore(t)
  PROVE  RequestInv'
  <1>0. /\ MutexHeld /\ EntryKnown /\ OneClaim
        /\ pc \in [Threads -> Labels] /\ request \in [Threads -> Requests]
        /\ table \in [Requests -> Phases] /\ parked \in [Goals -> SUBSET Requests]
    BY DEF RequestInv, TypeOK, CallType, RequestType, Labels, Phases
  <1> DEFINE r == request[t]
  <1>1. r \in Requests /\ pc[t] \in {"respond", "restore"} /\ coordination' = coordination
    BY <1>0 DEF Respond, Restore
  <1>2. /\ \A u \in Threads : u # t => pc'[u] = pc[u] /\ request'[u] = request[u]
        /\ \A q \in Requests : q # r => table'[q] = table[q]
        /\ UNCHANGED registryVars
    BY <1>0, <1>1 DEF Respond, Restore, Return, Goto
  <1>3. table[r] = "Responding" => \A u \in Threads : u # t => ~Claims(u, r)
    BY <1>0, <1>1 DEF OneClaim, Claims
  <1>4. ASSUME table[r] = "Responding", NEW g \in Goals PROVE r \notin parked[g]
    <2>1. ASSUME r \in parked[g] PROVE FALSE
      <3>1. PICK u \in Threads : coordination = u /\ request[u] = r
        BY <1>4, <2>1 DEF RequestInv, ParkedIsPending
      <3>2. Coordinating(u) /\ u # t
        BY <1>0, <1>1, <3>1 DEF MutexHeld, Coordinating
      <3>3. pc[u] = "unpark"
        BY <1>0, <1>4, <3>1, <3>2 DEF EntryKnown, Coordinating
      <3>4. QED
        BY <1>3, <1>4, <3>1, <3>2, <3>3 DEF Claims
    <2>2. QED
      BY <2>1
  <1>5. \/ pc[t] = "respond" /\ pc'[t] = "restore" /\ request'[t] = r /\ table[r] = "Responding" /\ table'[r] \in {"gone", "Responding"}
        \/ pc[t] = "restore" /\ pc'[t] = "idle" /\ table[r] = "Responding" /\ table'[r] = "Pending"
        \/ pc[t] = "restore" /\ pc'[t] = "idle" /\ table[r] = "gone" /\ table'[r] = "gone"
    <2>1. CASE Respond(t)
      <3>1. table[r] = "Responding" /\ pc[t] = "respond"
        BY <1>0, <2>1 DEF EntryKnown, Respond
      <3>2. table'[r] \in {"gone", "Responding"}
        BY <1>0, <1>1, <2>1, <3>1 DEF Respond, Fault
      <3>3. QED
        BY <1>0, <2>1, <3>1, <3>2 DEF Respond, Goto
    <2>2. CASE Restore(t)
      BY <1>0, <1>1, <2>2 DEF EntryKnown, Restore, Return, Goto
    <2>3. QED
      BY <2>1, <2>2
  <1>6. MutexHeld'
    BY <1>0, <1>1, <1>2, <1>5 DEF MutexHeld, Coordinating
  <1>7. EntryKnown'
    <2>1. ASSUME NEW u \in Threads, u # t, request[u] = r, pc[u] \in {"register", "unpark", "respond", "restore", "forget"}
          PROVE  table[r] # "Responding" \/ pc[u] = "forget"
      BY <1>0, <1>3, <2>1 DEF EntryKnown, Claims
    <2>2. QED
      BY <1>0, <1>1, <1>2, <1>5, <2>1 DEF EntryKnown
  <1>8. OneClaim'
    BY <1>0, <1>1, <1>2, <1>5 DEF OneClaim, Claims
  <1>9. ScheduledIsTerminal' /\ ParkedIsPending'
    <2>1. ASSUME NEW g \in Goals, NEW q \in parked[g], table'[q] # "Pending"
          PROVE  \E u \in Threads : coordination' = u /\ request'[u] = q
      <3>1. q \in Requests /\ table[q] # "Pending"
        BY <1>0, <1>2, <1>4, <1>5, <2>1
      <3>2. PICK u \in Threads : coordination = u /\ request[u] = q
        BY <2>1, <3>1 DEF RequestInv, ParkedIsPending
      <3>3. u # t
        BY <1>0, <1>1, <3>2 DEF MutexHeld, Coordinating
      <3>4. QED
        BY <1>1, <1>2, <3>2, <3>3
    <2>2. QED
      BY <1>2, <2>1, TableKeepsParked
  <1>10. QED
    BY <1>6, <1>7, <1>8, <1>9 DEF RequestInv

\* A cancel request selects the goals that can take the CancelGoal event: a goal
\* that is Canceling or terminal cannot, and every stamp is positive.
LEMMA SelectionFollows == TypeOK => SelectionMatches
  <1> SUFFICES ASSUME TypeOK PROVE SelectionMatches
    OBVIOUS
  <1>1. \A g \in Committed : Allowed(state[g], "CancelGoal") <=> state[g] \in {"Accepted", "Executing"}
    BY DEF Committed, TypeOK, RecordType, Allowed, Successor, Active, Terminal
  <1>2. \A g \in Goals : Stamp[g] \in Nat \ {0} /\ g # Zero
    BY GoalsAssumption
  <1>3. ASSUME NEW stamp \in Stamps
        PROVE  SelectCancelGoals(Zero, stamp) =
                 {g \in Committed : Allowed(state[g], "CancelGoal") /\ (stamp # 0 => Stamp[g] <= stamp)}
    BY <1>1 DEF SelectCancelGoals, Cancelable, BeforeStamp
  <1>4. ASSUME NEW stamp \in Stamps, NEW id \in Goals
        PROVE  SelectCancelGoals(id, stamp) =
                 (IF stamp = 0 THEN {} ELSE SelectCancelGoals(Zero, stamp))
                 \cup ({id} \cap SelectCancelGoals(Zero, 0))
    BY <1>2 DEF SelectCancelGoals, BeforeStamp
  <1>5. QED
    BY <1>3, <1>4 DEF SelectionMatches

\* Requests reach the goals they should for any number of threads, goals and
\* requests: RequestsMatchGoals.  The hypothesis is the configuration of the run:
\* after a failed write of a result response the late ~RestorePending may reopen
\* an entry that another thread has claimed meanwhile.
THEOREM RequestsReachTheirGoals ==
  ASSUME "result" \notin Failing
  PROVE  Spec => []RequestsMatchGoals
  <1>1. Init => RequestInv
    BY GoalsAssumption DEF Init, RequestInv, MutexHeld, EntryKnown, OneClaim, Claims, Coordinating,
                           ScheduledIsTerminal, ParkedIsPending
  <1>2. TypeOK /\ RequestInv /\ [Next]_vars => RequestInv'
    BY RegistryKeepsRequests, AmbientKeepsRequests, RequestsBegin, RequestsEnd, ResponsesKeepRequests
       DEF Next
  <1>3. TypeOK /\ RequestInv => RequestsMatchGoals
    BY SelectionFollows DEF RequestInv, RequestsMatchGoals
  <1>4. QED
    BY <1>1, <1>2, <1>3, GoalsTypeCorrect, PTL DEF Spec

-----------------------------------------------------------------------------
(* Terminal goals.                                                         *)

\* What a step may do to a terminal goal: leave it, or erase it when it expired.
Final(g) ==
  \/ g \in Committed' /\ state'[g] = state[g] /\ parked'[g] \subseteq parked[g]
  \/ record'[g] = "none" /\ now - terminalTime[g] >= ResultTimeout

\* Pruning erases what expired and nothing else.
LEMMA PruneIsFinal ==
  ASSUME TypeOK, NEW g \in Committed, NEW gs \in SUBSET Stale, Erase(gs),
         g \notin gs => parked'[g] \subseteq parked[g]
  PROVE  Final(g)
  BY DEF Erase, Stale, Expired, Committed, TypeOK, RecordType, Final

LEMMA StepIsFinal ==
  ASSUME TypeOK, [Next]_vars, NEW g \in Committed, state[g] \in Terminal
  PROVE  Final(g)
  <1>0. g \in Goals /\ record[g] = "committed" /\ record \in [Goals -> {"none", "reserved", "committed"}]
    BY DEF Committed, TypeOK, RecordType
  <1>1. ASSUME UNCHANGED <<record, state>>, parked'[g] \subseteq parked[g] PROVE Final(g)
    BY <1>0, <1>1 DEF Final, Committed
  <1>2. ASSUME NEW t \in Threads, NEW h \in Goals, NEW m \in Modes, Accept(t, h, m) PROVE Final(g)
    BY <1>0, <1>2 DEF Accept, Reservable, Final, Committed
  <1>3. ASSUME NEW t \in Threads, AcceptCommit(t) PROVE Final(g)
    <2>1. record'[g] = record[g] /\ state'[g] = state[g] /\ parked'[g] = parked[g]
      BY <1>0, <1>3 DEF AcceptCommit, TypeOK, RecordType, RequestType
    <2>2. QED
      BY <1>0, <2>1 DEF Final, Committed
  <1>4. ASSUME NEW t \in Threads, AcceptRollback(t) PROVE Final(g)
    BY <1>0, <1>4 DEF AcceptRollback, Final, Committed
  <1>5. ASSUME NEW t \in Threads, NEW h \in Goals, NEW e \in GoalEvents, UpdateState(t, h, e)
        PROVE  Final(g)
    <2>1. h # g
      BY <1>5 DEF UpdateState, Allowed, Successor, Terminal
    <2>2. state'[g] = state[g]
      BY <1>0, <1>5, <2>1 DEF UpdateState, TypeOK, RecordType
    <2>3. QED
      BY <1>0, <1>5, <2>2 DEF UpdateState, Final, Committed
  <1>6. ASSUME NEW t \in Threads, StatusSnapshot(t) \/ TakeExpired(t) \/ Register(t) PROVE Final(g)
    <2>1. PICK gs \in SUBSET Stale :
            /\ Erase(gs)
            /\ \/ parked' = Kept(gs)
               \/ /\ Parkable(goal[t], request[t])
                  /\ parked' = [Kept(gs) EXCEPT ![goal[t]] = @ \cup {request[t]}]
      BY <1>6 DEF StatusSnapshot, TakeExpired, Register, PruneFails
    <2>2. Kept(gs)[g] \subseteq parked[g]
      BY <1>0 DEF Kept
    <2>3. Parkable(goal[t], request[t]) => goal[t] # g
      BY DEF Parkable
    <2>4. parked'[g] \subseteq parked[g]
      BY <1>0, <2>1, <2>2, <2>3 DEF Kept
    <2>5. QED
      BY <2>1, <2>4, PruneIsFinal
  <1>7. ASSUME NEW t \in Threads,
               \/ AcceptWrite(t) \/ Respond(t) \/ Restore(t)
               \/ \E r \in Requests : ReadResultRequest(t, r) \/ RespondClaim(t, r) \/ DiscardErase(t, r)
               \/ \E h \in Goals, r \in Requests : RegisterCheck(t, h, r)
        PROVE  Final(g)
    BY <1>1, <1>7 DEF AcceptWrite, Respond, Restore, ReadResultRequest, RespondClaim, DiscardErase,
                      RegisterCheck, registryVars
  <1>8. ASSUME NEW t \in Threads,
               \/ RespondRemove(t) \/ DiscardForget(t) \/ \E h \in Goals : TakePending(t, h)
        PROVE  Final(g)
    <2>1. parked'[g] \subseteq parked[g]
      BY <1>0, <1>8 DEF RespondRemove, RespondUnpark, DiscardForget, Unpark, TakePending, TypeOK,
                        RequestType
    <2>2. QED
      BY <1>1, <1>8, <2>1 DEF RespondRemove, DiscardForget, TakePending
  <1>9. ASSUME \/ Wait \/ WaitCheck \/ WaitObserve \/ WaitReady \/ WaitFold \/ WaitEnter \/ WaitWake
               \/ Tick \/ Shutdown \/ UNCHANGED vars
        PROVE  Final(g)
    BY <1>1, <1>9 DEF Wait, WaitCheck, WaitObserve, WaitReady, WaitFold, WaitEnter, WaitWake,
                      WaitUnchanged, Tick, Shutdown, vars, registryVars
  <1>10. QED
    BY <1>2, <1>3, <1>4, <1>5, <1>6, <1>7, <1>8, <1>9 DEF Next

\* "Terminal states never transition again": a terminal goal keeps its state and
\* gets no further request until result_timeout has passed and it is erased, for
\* any number of goals and threads: TerminalIsFinal.
THEOREM TerminalStatesAreFinal == Spec => TerminalIsFinal
  <1>1. TypeOK /\ [Next]_vars =>
          [\A g \in Goals : g \in Committed /\ state[g] \in Terminal =>
             \/ g \in Committed' /\ state'[g] = state[g] /\ parked'[g] \subseteq parked[g]
             \/ record'[g] = "none" /\ now - terminalTime[g] >= ResultTimeout]_vars
    BY StepIsFinal DEF Final
  <1>2. QED
    BY <1>1, GoalsTypeCorrect, PTL DEF Spec, TerminalIsFinal
=============================================================================
