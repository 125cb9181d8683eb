---------------------------- MODULE MessagingProofs ----------------------------
(***************************************************************************)
(* Proofs about the parts that MCMessaging puts together, for all values   *)
(* of their constants.  Server: type correctness (reservations_ never      *)
(* wraps below zero), the bound on pending requests, the owner of every    *)
(* claim.  ServiceWait: a sleeping wait has missed nothing.                *)
(* GraphMetadata: a late joiner is offered the current list.  And together *)
(* NothingMissed.                                                          *)
(***************************************************************************)
EXTENDS MCMessaging, FiniteSetTheorems, SequenceTheorems, TLAPS

-----------------------------------------------------------------------------
(* The table of pending requests (Server).                                 *)

IInv == TypeOK /\ ReservationInv /\ CapacityBound

\* The table of pending requests is finite: pending_.size() is a number.
LEMMA PendingCard == IsFiniteSet(Pending) /\ Cardinality(Pending) \in Nat
  <1>1. Pending \subseteq Requests
    BY DEF Pending
  <1>2. QED
    BY <1>1, ServerAssumption, FS_Subset, FS_CardinalityType

\* Emplacing a request that is absent makes pending_ larger by one.
LEMMA PendingGrows ==
  ASSUME phase \in [Requests -> {"none", "Pending", "Responding"}],
         NEW r \in Requests, phase[r] = "none", phase' = [phase EXCEPT ![r] = "Pending"]
  PROVE  Cardinality(Pending') = Cardinality(Pending) + 1
  <1>1. Pending' = Pending \union {r} /\ r \notin Pending
    BY DEF Pending
  <1>2. QED
    BY <1>1, PendingCard, FS_AddElement

\* A step that gives no absent request an entry does not make pending_ larger.
LEMMA PendingShrinks ==
  ASSUME \A q \in Requests : phase'[q] # "none" => phase[q] # "none"
  PROVE  Cardinality(Pending') <= Cardinality(Pending)
  <1>1. Pending' \subseteq Pending
    BY DEF Pending
  <1>2. QED
    BY <1>1, PendingCard, FS_Subset

\* A server starts with an empty table and no reservation.
LEMMA InitInv == Init => IInv
  <1> SUFFICES ASSUME Init PROVE IInv
    OBVIOUS
  <1>1. AnyRequest \in Requests
    BY ServerAssumption DEF AnyRequest
  <1>2. TypeOK
    <2>1. TargetType
      BY ServerAssumption DEF Init, TargetType
    <2>2. TableType
      BY DEF Init, TableType
    <2>3. BoundType
      <3>1. MaxCalls \in Nat /\ MaxArrivals \in Nat /\ MaxFaults \in Nat
        BY ServerAssumption
      <3>2. 0 \in 0..MaxCalls /\ 0 \in 0..MaxArrivals /\ 0 \in 0..MaxFaults
        BY <3>1
      <3>3. QED
        BY <3>2 DEF Init, BoundType
    <2>4. ReaderType /\ PcType
      <3>1. blocking \in BOOLEAN /\ overtaken \in BOOLEAN
        BY Zenon DEF Init
      <3>2. QED
        BY <3>1 DEF Init, ReaderType, PcType, Pcs
    <2>5. CallType
      BY <1>1 DEF Init, CallType, Statuses
    <2>6. QED
      BY <2>1, <2>2, <2>3, <2>4, <2>5 DEF TypeOK
  <1>3. ReservationInv
    BY DEF Init, ReservationInv, LockHeld, InRead, UnreserveAfter, ClaimAfter,
           OneReservation, ReadPcs, ReservedPcs, ClaimPcs
  <1>4. Pending = {}
    BY DEF Init, Pending
  <1>5. CapacityBound
    BY <1>4, FS_EmptySet, ServerAssumption DEF Init, CapacityBound, Used
  <1>6. QED
    BY <1>2, <1>3, <1>5 DEF IInv

\* Every step keeps the invariant: one step per action, and under it one per
\* part of the invariant that the action can disturb.
LEMMA NextInv == IInv /\ [Next]_vars => IInv'
  <1>0. /\ Targeted \subseteq Requests /\ MaxPending \in Nat /\ MaxCalls \in Nat
        /\ MaxArrivals \in Nat /\ MaxFaults \in Nat /\ NoThread \notin Threads
    BY ServerAssumption
  <1>1. ASSUME IInv, NEW t \in Threads, Read(t) PROVE IInv'
    <2>1. TableType' /\ ReaderType' /\ TargetType' /\ CallType' /\ CapacityBound'
      BY <1>1 DEF Read, IInv, TypeOK, ReservationInv, TableType, OneReservation, CallType,
         PcType, CapacityBound, ReaderType, TargetType, Used, Pending, tableVars, flagVars,
         targetVars, callVars, boundVars
    <2>2. PcType'
      BY <1>0, <1>1 DEF Read, Begin, Goto, IInv, TypeOK, ReservationInv, PcType, Pcs,
         ReadPcs, ReservedPcs, ClaimPcs, CallType, tableVars, flagVars, targetVars, callVars,
         boundVars
    <2>3. BoundType'
      BY <1>0, <1>1 DEF Read, Begin, Goto, IInv, TypeOK, ReservationInv, BoundType,
         tableVars, flagVars, targetVars, callVars, boundVars
    <2>4. LockHeld'
      BY <1>0, <1>1 DEF Read, Begin, Goto, IInv, TypeOK, ReservationInv, LockHeld, InRead,
         UnreserveAfter, ClaimAfter, ReadPcs, ReservedPcs, ClaimPcs, PcType, CallType,
         tableVars, flagVars, targetVars, callVars, boundVars
    <2>5. UnreserveAfter'
      BY <1>0, <1>1 DEF Read, Begin, Goto, IInv, TypeOK, ReservationInv, UnreserveAfter,
         PcType, CallType, tableVars, flagVars, targetVars, callVars, boundVars
    <2>6. ClaimAfter'
      BY <1>0, <1>1 DEF Read, Begin, Goto, IInv, TypeOK, ReservationInv, ClaimAfter,
         ClaimPcs, PcType, CallType, tableVars, flagVars, targetVars, callVars, boundVars
    <2>7. OneReservation'
      BY <1>0, <1>1 DEF Read, Begin, Goto, IInv, TypeOK, ReservationInv, OneReservation,
         LockHeld, UnreserveAfter, InRead, ReadPcs, ReservedPcs, PcType, CallType,
         TableType, tableVars, flagVars, targetVars, callVars, boundVars
    <2>8. QED
      BY <2>1, <2>2, <2>3, <2>4, <2>5, <2>6, <2>7 DEF IInv, TypeOK, ReservationInv
  <1>2. ASSUME IInv, NEW t \in Threads, ReadLock(t) PROVE IInv'
    <2>1. TableType' /\ TargetType' /\ BoundType' /\ CapacityBound'
      BY <1>2 DEF ReadLock, IInv, TypeOK, ReservationInv, TableType, OneReservation,
         CallType, PcType, CapacityBound, TargetType, BoundType, Used, Pending, tableVars, flagVars,
         targetVars, callVars, boundVars
    <2>2. ReaderType'
      BY <1>0, <1>2 DEF ReadLock, Goto, IInv, TypeOK, ReservationInv, ReaderType, Samples,
         tableVars, flagVars, targetVars, callVars, boundVars
    <2>3. CallType'
      BY <1>0, <1>2 DEF ReadLock, Goto, IInv, TypeOK, ReservationInv, CallType, Statuses,
         ReaderType, tableVars, flagVars, targetVars, callVars, boundVars
    <2>4. PcType'
      BY <1>0, <1>2 DEF ReadLock, Goto, IInv, TypeOK, ReservationInv, PcType, Pcs,
         ReadPcs, ReservedPcs, ClaimPcs, CallType, tableVars, flagVars, targetVars, callVars,
         boundVars
    <2>5. LockHeld'
      BY <1>0, <1>2 DEF ReadLock, Goto, IInv, TypeOK, ReservationInv, LockHeld, InRead,
         UnreserveAfter, ClaimAfter, ReadPcs, ReservedPcs, ClaimPcs, PcType, CallType,
         tableVars, flagVars, targetVars, callVars, boundVars
    <2>6. UnreserveAfter'
      BY <1>0, <1>2 DEF ReadLock, Goto, IInv, TypeOK, ReservationInv, UnreserveAfter,
         PcType, CallType, tableVars, flagVars, targetVars, callVars, boundVars
    <2>7. ClaimAfter'
      BY <1>0, <1>2 DEF ReadLock, Goto, IInv, TypeOK, ReservationInv, ClaimAfter,
         ClaimPcs, PcType, CallType, tableVars, flagVars, targetVars, callVars, boundVars
    <2>8. OneReservation'
      BY <1>0, <1>2 DEF ReadLock, Goto, IInv, TypeOK, ReservationInv, OneReservation,
         LockHeld, UnreserveAfter, InRead, ReadPcs, ReservedPcs, PcType, CallType,
         TableType, tableVars, flagVars, targetVars, callVars, boundVars
    <2>9. QED
      BY <2>1, <2>2, <2>3, <2>4, <2>5, <2>6, <2>7, <2>8 DEF IInv, TypeOK, ReservationInv
  <1>3. ASSUME IInv, NEW t \in Threads, Reserve(t) PROVE IInv'
    <2>1. ReaderType' /\ TargetType' /\ BoundType'
      BY <1>3 DEF Reserve, IInv, TypeOK, ReservationInv, ReaderType, TargetType,
         BoundType, tableVars, flagVars, targetVars, callVars, boundVars
    <2>2. TableType'
      BY <1>0, <1>3 DEF Reserve, HasRoom, Goto, IInv, TypeOK, ReservationInv, TableType,
         OneReservation, ReservedPcs, CallType, PcType, CapacityBound, tableVars, flagVars,
         targetVars, callVars, boundVars
    <2>3. CallType'
      <3> DEFINE f == (Used + 1 = MaxPending)
      <3>1. f \in BOOLEAN
        OBVIOUS
      <3>2. full' = full \/ full' = [full EXCEPT ![t] = f]
        BY <1>3 DEF Reserve
      <3> HIDE DEF f
      <3>3. full' \in [Threads -> BOOLEAN]
        BY <3>1, <3>2, <1>3 DEF IInv, TypeOK, CallType
      <3>4. left' \in [Threads -> Nat]
        BY <1>3 DEF Reserve, IInv, TypeOK, CallType
      <3>5. QED
        BY <3>3, <3>4, <1>3 DEF Reserve, IInv, TypeOK, CallType
    <2>4. PcType'
      BY <1>0, <1>3 DEF Reserve, HasRoom, Goto, IInv, TypeOK, ReservationInv, PcType, Pcs,
         ReadPcs, ReservedPcs, ClaimPcs, CallType, tableVars, flagVars, targetVars, callVars,
         boundVars
    <2>5. LockHeld'
      BY <1>0, <1>3 DEF Reserve, HasRoom, Goto, IInv, TypeOK, ReservationInv, LockHeld,
         InRead, UnreserveAfter, ClaimAfter, ReadPcs, ReservedPcs, ClaimPcs, PcType,
         CallType, tableVars, flagVars, targetVars, callVars, boundVars
    <2>6. UnreserveAfter'
      BY <1>0, <1>3 DEF Reserve, HasRoom, Goto, IInv, TypeOK, ReservationInv,
         UnreserveAfter, PcType, CallType, tableVars, flagVars, targetVars, callVars, boundVars
    <2>7. ClaimAfter'
      BY <1>0, <1>3 DEF Reserve, HasRoom, Goto, IInv, TypeOK, ReservationInv, ClaimAfter,
         ClaimPcs, PcType, CallType, tableVars, flagVars, targetVars, callVars, boundVars
    <2>8. OneReservation'
      BY <1>0, <1>3 DEF Reserve, HasRoom, Goto, IInv, TypeOK, ReservationInv,
         OneReservation, LockHeld, UnreserveAfter, InRead, ReadPcs, ReservedPcs, PcType,
         CallType, TableType, tableVars, flagVars, targetVars, callVars, boundVars
    <2>9. CapacityBound'
      BY <1>0, <1>3, PendingCard DEF Reserve, HasRoom, Goto, IInv, TypeOK, ReservationInv,
         CapacityBound, Used, Pending, tableVars, flagVars, targetVars, callVars, boundVars,
         TableType
    <2>10. QED
      BY <2>1, <2>2, <2>3, <2>4, <2>5, <2>6, <2>7, <2>8, <2>9 DEF IInv, TypeOK,
         ReservationInv
  <1>4. ASSUME IInv, NEW t \in Threads, Disable(t) PROVE IInv'
    <2>1. TableType' /\ TargetType' /\ CallType' /\ BoundType' /\ CapacityBound'
      BY <1>4 DEF Disable, IInv, TypeOK, ReservationInv, TableType, OneReservation,
         CallType, PcType, CapacityBound, TargetType, ReaderType, BoundType, Used,
         Pending, tableVars, flagVars, targetVars, callVars, boundVars
    <2>2. ReaderType'
      BY <1>0, <1>4 DEF Disable, Goto, IInv, TypeOK, ReservationInv, ReaderType, Samples,
         tableVars, flagVars, targetVars, callVars, boundVars
    <2>3. PcType'
      BY <1>0, <1>4 DEF Disable, Goto, IInv, TypeOK, ReservationInv, PcType, Pcs, ReadPcs,
         ReservedPcs, ClaimPcs, CallType, tableVars, flagVars, targetVars, callVars, boundVars
    <2>4. LockHeld'
      BY <1>0, <1>4 DEF Disable, Goto, IInv, TypeOK, ReservationInv, LockHeld, InRead,
         UnreserveAfter, ClaimAfter, ReadPcs, ReservedPcs, ClaimPcs, PcType, CallType,
         tableVars, flagVars, targetVars, callVars, boundVars
    <2>5. UnreserveAfter'
      BY <1>0, <1>4 DEF Disable, Goto, IInv, TypeOK, ReservationInv, UnreserveAfter,
         PcType, CallType, tableVars, flagVars, targetVars, callVars, boundVars
    <2>6. ClaimAfter'
      BY <1>0, <1>4 DEF Disable, Goto, IInv, TypeOK, ReservationInv, ClaimAfter, ClaimPcs,
         PcType, CallType, tableVars, flagVars, targetVars, callVars, boundVars
    <2>7. OneReservation'
      BY <1>0, <1>4 DEF Disable, Goto, IInv, TypeOK, ReservationInv, OneReservation,
         LockHeld, UnreserveAfter, InRead, ReadPcs, ReservedPcs, PcType, CallType,
         TableType, tableVars, flagVars, targetVars, callVars, boundVars
    <2>8. QED
      BY <2>1, <2>2, <2>3, <2>4, <2>5, <2>6, <2>7 DEF IInv, TypeOK, ReservationInv
  <1>5. ASSUME IInv, NEW t \in Threads, Take(t) PROVE IInv'
    <2>1. TableType' /\ TargetType' /\ CapacityBound'
      BY <1>5 DEF Take, IInv, TypeOK, ReservationInv, TableType, OneReservation, CallType,
         PcType, CapacityBound, TargetType, Used, Pending, tableVars, flagVars, targetVars,
         callVars, boundVars
    <2>2. ReaderType'
      BY <1>0, <1>5 DEF Take, Fault, Continue, Goto, IInv, TypeOK, ReservationInv,
         ReaderType, Samples, tableVars, flagVars, targetVars, callVars, boundVars
    <2>3. CallType'
      BY <1>0, <1>5 DEF Take, Fault, Continue, Goto, IInv, TypeOK, ReservationInv,
         CallType, Statuses, ReaderType, tableVars, flagVars, targetVars, callVars, boundVars
    <2>4. PcType'
      BY <1>0, <1>5 DEF Take, Fault, Continue, Goto, IInv, TypeOK, ReservationInv, PcType,
         Pcs, ReadPcs, ReservedPcs, ClaimPcs, CallType, tableVars, flagVars, targetVars, callVars,
         boundVars
    <2>5. BoundType'
      BY <1>0, <1>5 DEF Take, Fault, Continue, Goto, IInv, TypeOK, ReservationInv,
         BoundType, tableVars, flagVars, targetVars, callVars, boundVars
    <2>6. LockHeld'
      BY <1>0, <1>5 DEF Take, Fault, Continue, Goto, IInv, TypeOK, ReservationInv,
         LockHeld, InRead, UnreserveAfter, ClaimAfter, ReadPcs, ReservedPcs, ClaimPcs,
         PcType, CallType, tableVars, flagVars, targetVars, callVars, boundVars
    <2>7. UnreserveAfter'
      BY <1>0, <1>5 DEF Take, Fault, Continue, Goto, IInv, TypeOK, ReservationInv,
         UnreserveAfter, PcType, CallType, tableVars, flagVars, targetVars, callVars, boundVars
    <2>8. ClaimAfter'
      BY <1>0, <1>5 DEF Take, Fault, Continue, Goto, IInv, TypeOK, ReservationInv,
         ClaimAfter, ClaimPcs, PcType, CallType, tableVars, flagVars, targetVars, callVars,
         boundVars
    <2>9. OneReservation'
      <3>1. /\ pc \in [Threads -> Pcs] /\ reservations \in Nat /\ leaked \in Nat
            /\ pc[t] = "take" /\ readLock = t /\ readLock' = readLock
            /\ reservations' = reservations
        BY <1>5 DEF Take, IInv, TypeOK, PcType, TableType, ReservationInv, LockHeld, InRead,
           ReadPcs, ReservedPcs
      <3>2. reservations = leaked + 1
        <4>1. pc[t] \in ReservedPcs
          BY <3>1 DEF ReservedPcs
        <4> QED
          BY <1>5, <4>1 DEF IInv, ReservationInv, OneReservation
      <3>3. \A u \in Threads : u # t => pc'[u] = pc[u] /\ pc[u] \notin ReservedPcs
        <4>1. \A u \in Threads : u # t => pc[u] \notin ReservedPcs
          BY <1>5, <3>1 DEF IInv, ReservationInv, LockHeld, InRead, ReadPcs
        <4>2. \A u \in Threads : u # t => pc'[u] = pc[u]
          BY <3>1, <1>5 DEF Take, Goto
        <4> QED
          BY <4>1, <4>2
      <3>4. CASE leaked' = leaked + 1 /\ pc'[t] = "read_unlock"
        BY <3>1, <3>2, <3>3, <3>4 DEF OneReservation, ReservedPcs
      <3>5. CASE leaked' = leaked /\ pc'[t] \in ReservedPcs
        BY <3>1, <3>2, <3>3, <3>5 DEF OneReservation
      <3>6. \/ leaked' = leaked + 1 /\ pc'[t] = "read_unlock"
            \/ leaked' = leaked /\ pc'[t] \in ReservedPcs
        BY <1>5, <3>1 DEF Take, Goto, ReservedPcs
      <3> QED
        BY <3>4, <3>5, <3>6
    <2>10. QED
      BY <2>1, <2>2, <2>3, <2>4, <2>5, <2>6, <2>7, <2>8, <2>9 DEF IInv, TypeOK,
         ReservationInv
  <1>6. ASSUME IInv, NEW t \in Threads, Unreserve(t) PROVE IInv'
    <2>1. ReaderType' /\ TargetType' /\ CallType' /\ BoundType'
      BY <1>6 DEF Unreserve, IInv, TypeOK, ReservationInv, ReaderType, TargetType,
         CallType, BoundType, tableVars, flagVars, targetVars, callVars, boundVars
    <2>2. TableType'
      BY <1>0, <1>6 DEF Unreserve, Goto, IInv, TypeOK, ReservationInv, TableType,
         OneReservation, ReservedPcs, CallType, PcType, CapacityBound, tableVars, flagVars,
         targetVars, callVars, boundVars
    <2>3. PcType'
      BY <1>0, <1>6 DEF Unreserve, Goto, IInv, TypeOK, ReservationInv, PcType, Pcs,
         ReadPcs, ReservedPcs, ClaimPcs, CallType, tableVars, flagVars, targetVars, callVars,
         boundVars
    <2>4. LockHeld'
      BY <1>0, <1>6 DEF Unreserve, Goto, IInv, TypeOK, ReservationInv, LockHeld, InRead,
         UnreserveAfter, ClaimAfter, ReadPcs, ReservedPcs, ClaimPcs, PcType, CallType,
         tableVars, flagVars, targetVars, callVars, boundVars
    <2>5. UnreserveAfter'
      BY <1>0, <1>6 DEF Unreserve, Goto, IInv, TypeOK, ReservationInv, UnreserveAfter,
         PcType, CallType, tableVars, flagVars, targetVars, callVars, boundVars
    <2>6. ClaimAfter'
      BY <1>0, <1>6 DEF Unreserve, Goto, IInv, TypeOK, ReservationInv, ClaimAfter,
         ClaimPcs, PcType, CallType, tableVars, flagVars, targetVars, callVars, boundVars
    <2>7. OneReservation'
      BY <1>0, <1>6 DEF Unreserve, Goto, IInv, TypeOK, ReservationInv, OneReservation,
         LockHeld, UnreserveAfter, InRead, ReadPcs, ReservedPcs, PcType, CallType,
         TableType, tableVars, flagVars, targetVars, callVars, boundVars
    <2>8. CapacityBound'
      BY <1>0, <1>6, PendingCard DEF Unreserve, Goto, IInv, TypeOK, ReservationInv,
         CapacityBound, Used, Pending, tableVars, flagVars, targetVars, callVars, boundVars,
         TableType
    <2>9. QED
      BY <2>1, <2>2, <2>3, <2>4, <2>5, <2>6, <2>7, <2>8 DEF IInv, TypeOK, ReservationInv
  <1>7. ASSUME IInv, NEW t \in Threads, Insert(t) PROVE IInv'
    <2>1. ReaderType' /\ TargetType'
      BY <1>7 DEF Insert, IInv, TypeOK, ReservationInv, ReaderType, TargetType, tableVars, flagVars,
         targetVars, callVars, boundVars
    <2>2. TableType'
      BY <1>0, <1>7 DEF Insert, Fault, Continue, AfterDuplicate, Goto, IInv, TypeOK,
         ReservationInv, TableType, OneReservation, ReservedPcs, CallType, PcType,
         CapacityBound, tableVars, flagVars, targetVars, callVars, boundVars
    <2>3. CallType'
      BY <1>0, <1>7 DEF Insert, Fault, Continue, AfterDuplicate, Goto, IInv, TypeOK,
         ReservationInv, CallType, Statuses, ReaderType, tableVars, flagVars, targetVars, callVars,
         boundVars
    <2>4. PcType'
      BY <1>0, <1>7 DEF Insert, Fault, Continue, AfterDuplicate, Goto, IInv, TypeOK,
         ReservationInv, PcType, Pcs, ReadPcs, ReservedPcs, ClaimPcs, CallType, tableVars, flagVars,
         targetVars, callVars, boundVars
    <2>5. BoundType'
      BY <1>0, <1>7 DEF Insert, Fault, Continue, AfterDuplicate, Goto, IInv, TypeOK,
         ReservationInv, BoundType, tableVars, flagVars, targetVars, callVars, boundVars
    <2>6. LockHeld'
      BY <1>0, <1>7 DEF Insert, Fault, Continue, AfterDuplicate, Goto, IInv, TypeOK,
         ReservationInv, LockHeld, InRead, UnreserveAfter, ClaimAfter, ReadPcs,
         ReservedPcs, ClaimPcs, PcType, CallType, tableVars, flagVars, targetVars, callVars,
         boundVars
    <2>7. UnreserveAfter'
      BY <1>0, <1>7 DEF Insert, Fault, Continue, AfterDuplicate, Goto, IInv, TypeOK,
         ReservationInv, UnreserveAfter, PcType, CallType, tableVars, flagVars, targetVars,
         callVars, boundVars
    <2>8. ClaimAfter'
      BY <1>0, <1>7 DEF Insert, Fault, Continue, AfterDuplicate, Goto, IInv, TypeOK,
         ReservationInv, ClaimAfter, ClaimPcs, PcType, CallType, tableVars, flagVars, targetVars,
         callVars, boundVars
    <2>9. OneReservation'
      BY <1>0, <1>7 DEF Insert, Fault, Continue, AfterDuplicate, Goto, IInv, TypeOK,
         ReservationInv, OneReservation, LockHeld, UnreserveAfter, InRead, ReadPcs,
         ReservedPcs, PcType, CallType, TableType, tableVars, flagVars, targetVars, callVars,
         boundVars
    <2>10. CapacityBound'
      <3>0. phase \in [Requests -> {"none", "Pending", "Responding"}] /\ reservations \in Nat
        BY <1>7 DEF IInv, TypeOK, TableType
      <3>1. CASE phase[req[t]] = "none" /\ phase' = [phase EXCEPT ![req[t]] = "Pending"]
        <4>1. req[t] \in Requests
          BY <1>7 DEF IInv, TypeOK, CallType
        <4>2. Cardinality(Pending') = Cardinality(Pending) + 1
          BY <3>0, <3>1, <4>1, PendingGrows
        <4>3. QED
          BY <3>0, <4>2, <1>7, PendingCard DEF Insert, IInv, CapacityBound, Used
      <3>2. CASE phase' = phase
        <4>1. Cardinality(Pending') = Cardinality(Pending)
          BY <3>2 DEF Pending
        <4>2. QED
          BY <1>0, <3>0, <4>1, <1>7, PendingCard DEF Insert, IInv, CapacityBound, Used
      <3>3. QED
        BY <3>1, <3>2, <1>7 DEF Insert, tableVars, flagVars
    <2>11. QED
      BY <2>1, <2>2, <2>3, <2>4, <2>5, <2>6, <2>7, <2>8, <2>9, <2>10 DEF IInv, TypeOK,
         ReservationInv
  <1>8. ASSUME IInv, NEW t \in Threads, Commit(t) PROVE IInv'
    <2>1. ReaderType' /\ TargetType' /\ CapacityBound'
      BY <1>8 DEF Commit, IInv, TypeOK, ReservationInv, ReaderType, TargetType,
         CapacityBound, Used, Pending, tableVars, flagVars, targetVars, callVars, boundVars
    <2>2. TableType'
      BY <1>0, <1>8 DEF Commit, Fault, Continue, Goto, IInv, TypeOK, ReservationInv,
         TableType, OneReservation, ReservedPcs, CallType, PcType, CapacityBound,
         tableVars, flagVars, targetVars, callVars, boundVars
    <2>3. CallType'
      BY <1>0, <1>8 DEF Commit, Fault, Continue, Goto, IInv, TypeOK, ReservationInv,
         CallType, Statuses, ReaderType, tableVars, flagVars, targetVars, callVars, boundVars
    <2>4. PcType'
      BY <1>0, <1>8 DEF Commit, Fault, Continue, Goto, IInv, TypeOK, ReservationInv,
         PcType, Pcs, ReadPcs, ReservedPcs, ClaimPcs, CallType, tableVars, flagVars, targetVars,
         callVars, boundVars
    <2>5. BoundType'
      BY <1>0, <1>8 DEF Commit, Fault, Continue, Goto, IInv, TypeOK, ReservationInv,
         BoundType, tableVars, flagVars, targetVars, callVars, boundVars
    <2>6. LockHeld'
      BY <1>0, <1>8 DEF Commit, Fault, Continue, Goto, IInv, TypeOK, ReservationInv,
         LockHeld, InRead, UnreserveAfter, ClaimAfter, ReadPcs, ReservedPcs, ClaimPcs,
         PcType, CallType, tableVars, flagVars, targetVars, callVars, boundVars
    <2>7. UnreserveAfter'
      BY <1>0, <1>8 DEF Commit, Fault, Continue, Goto, IInv, TypeOK, ReservationInv,
         UnreserveAfter, PcType, CallType, tableVars, flagVars, targetVars, callVars, boundVars
    <2>8. ClaimAfter'
      BY <1>0, <1>8 DEF Commit, Fault, Continue, Goto, IInv, TypeOK, ReservationInv,
         ClaimAfter, ClaimPcs, PcType, CallType, tableVars, flagVars, targetVars, callVars,
         boundVars
    <2>9. OneReservation'
      BY <1>0, <1>8 DEF Commit, Fault, Continue, Goto, IInv, TypeOK, ReservationInv,
         OneReservation, LockHeld, UnreserveAfter, InRead, ReadPcs, ReservedPcs, PcType,
         CallType, TableType, tableVars, flagVars, targetVars, callVars, boundVars
    <2>10. QED
      BY <2>1, <2>2, <2>3, <2>4, <2>5, <2>6, <2>7, <2>8, <2>9 DEF IInv, TypeOK,
         ReservationInv
  <1>9. ASSUME IInv, NEW t \in Threads, ReadUnlock(t) PROVE IInv'
    <2>1. TableType' /\ TargetType' /\ CallType' /\ BoundType' /\ CapacityBound'
      BY <1>9 DEF ReadUnlock, IInv, TypeOK, ReservationInv, TableType, OneReservation,
         CallType, PcType, CapacityBound, TargetType, ReaderType, BoundType, Used,
         Pending, tableVars, flagVars, targetVars, callVars, boundVars
    <2>2. ReaderType'
      BY <1>0, <1>9 DEF ReadUnlock, Goto, IInv, TypeOK, ReservationInv, ReaderType,
         Samples, tableVars, flagVars, targetVars, callVars, boundVars
    <2>3. PcType'
      BY <1>0, <1>9 DEF ReadUnlock, Goto, IInv, TypeOK, ReservationInv, PcType, Pcs,
         ReadPcs, ReservedPcs, ClaimPcs, CallType, tableVars, flagVars, targetVars, callVars,
         boundVars
    <2>4. LockHeld'
      BY <1>0, <1>9 DEF ReadUnlock, Goto, IInv, TypeOK, ReservationInv, LockHeld, InRead,
         UnreserveAfter, ClaimAfter, ReadPcs, ReservedPcs, ClaimPcs, PcType, CallType,
         tableVars, flagVars, targetVars, callVars, boundVars
    <2>5. UnreserveAfter'
      BY <1>0, <1>9 DEF ReadUnlock, Goto, IInv, TypeOK, ReservationInv, UnreserveAfter,
         PcType, CallType, tableVars, flagVars, targetVars, callVars, boundVars
    <2>6. ClaimAfter'
      BY <1>0, <1>9 DEF ReadUnlock, Goto, IInv, TypeOK, ReservationInv, ClaimAfter,
         ClaimPcs, PcType, CallType, tableVars, flagVars, targetVars, callVars, boundVars
    <2>7. OneReservation'
      BY <1>0, <1>9 DEF ReadUnlock, Goto, IInv, TypeOK, ReservationInv, OneReservation,
         LockHeld, UnreserveAfter, InRead, ReadPcs, ReservedPcs, PcType, CallType,
         TableType, tableVars, flagVars, targetVars, callVars, boundVars
    <2>8. QED
      BY <2>1, <2>2, <2>3, <2>4, <2>5, <2>6, <2>7 DEF IInv, TypeOK, ReservationInv
  <1>10. ASSUME IInv, NEW t \in Threads, Release(t) PROVE IInv'
    <2>1. ReaderType' /\ TargetType' /\ CallType' /\ BoundType'
      BY <1>10 DEF Release, IInv, TypeOK, ReservationInv, ReaderType, TargetType,
         CallType, BoundType, tableVars, flagVars, targetVars, callVars, boundVars
    <2>2. TableType'
      BY <1>0, <1>10 DEF Release, WasFull, Goto, IInv, TypeOK, ReservationInv, TableType,
         OneReservation, ReservedPcs, CallType, PcType, CapacityBound, tableVars, flagVars,
         targetVars, callVars, boundVars
    <2>3. PcType'
      BY <1>0, <1>10 DEF Release, WasFull, Goto, IInv, TypeOK, ReservationInv, PcType,
         Pcs, ReadPcs, ReservedPcs, ClaimPcs, CallType, tableVars, flagVars, targetVars, callVars,
         boundVars
    <2>4. LockHeld'
      BY <1>0, <1>10 DEF Release, WasFull, Goto, IInv, TypeOK, ReservationInv, LockHeld,
         InRead, UnreserveAfter, ClaimAfter, ReadPcs, ReservedPcs, ClaimPcs, PcType,
         CallType, tableVars, flagVars, targetVars, callVars, boundVars
    <2>5. UnreserveAfter'
      BY <1>0, <1>10 DEF Release, WasFull, Goto, IInv, TypeOK, ReservationInv,
         UnreserveAfter, PcType, CallType, tableVars, flagVars, targetVars, callVars, boundVars
    <2>6. ClaimAfter'
      BY <1>0, <1>10 DEF Release, WasFull, Goto, IInv, TypeOK, ReservationInv, ClaimAfter,
         ClaimPcs, PcType, CallType, tableVars, flagVars, targetVars, callVars, boundVars
    <2>7. OneReservation'
      BY <1>0, <1>10 DEF Release, WasFull, Goto, IInv, TypeOK, ReservationInv,
         OneReservation, LockHeld, UnreserveAfter, InRead, ReadPcs, ReservedPcs, PcType,
         CallType, TableType, tableVars, flagVars, targetVars, callVars, boundVars
    <2>8. CapacityBound'
      <3>1. phase' \in [Requests -> {"none", "Pending", "Responding"}]
        BY <2>2 DEF TableType
      <3>2. \A q \in Requests : phase'[q] # "none" => phase[q] # "none"
        BY <1>0, <1>10 DEF Release, WasFull, Goto, IInv, TypeOK, TableType, CallType
      <3>3. Cardinality(Pending') <= Cardinality(Pending)
        BY <3>2, PendingShrinks
      <3>4. reservations' = reservations /\ reservations \in Nat
        BY <1>10 DEF Release, IInv, TypeOK, TableType
      <3>5. IsFiniteSet(Pending')
        BY FS_Subset, ServerAssumption DEF Pending
      <3>6. QED
        BY <3>3, <3>4, <3>5, <1>10, PendingCard, FS_CardinalityType, ServerAssumption
           DEF IInv, CapacityBound, Used
    <2>9. QED
      BY <2>1, <2>2, <2>3, <2>4, <2>5, <2>6, <2>7, <2>8 DEF IInv, TypeOK, ReservationInv
  <1>11. ASSUME IInv, NEW t \in Threads, Enable(t) PROVE IInv'
    <2>1. TableType' /\ TargetType' /\ CallType' /\ BoundType' /\ CapacityBound'
      BY <1>11 DEF Enable, IInv, TypeOK, ReservationInv, TableType, OneReservation,
         CallType, PcType, CapacityBound, TargetType, ReaderType, BoundType, Used,
         Pending, tableVars, flagVars, targetVars, callVars, boundVars
    <2>2. ReaderType'
      BY <1>0, <1>11 DEF Enable, Goto, IInv, TypeOK, ReservationInv, ReaderType, Samples,
         tableVars, flagVars, targetVars, callVars, boundVars
    <2>3. PcType'
      BY <1>0, <1>11 DEF Enable, Goto, IInv, TypeOK, ReservationInv, PcType, Pcs, ReadPcs,
         ReservedPcs, ClaimPcs, CallType, tableVars, flagVars, targetVars, callVars, boundVars
    <2>4. LockHeld'
      BY <1>0, <1>11 DEF Enable, Goto, IInv, TypeOK, ReservationInv, LockHeld, InRead,
         UnreserveAfter, ClaimAfter, ReadPcs, ReservedPcs, ClaimPcs, PcType, CallType,
         tableVars, flagVars, targetVars, callVars, boundVars
    <2>5. UnreserveAfter'
      BY <1>0, <1>11 DEF Enable, Goto, IInv, TypeOK, ReservationInv, UnreserveAfter,
         PcType, CallType, tableVars, flagVars, targetVars, callVars, boundVars
    <2>6. ClaimAfter'
      BY <1>0, <1>11 DEF Enable, Goto, IInv, TypeOK, ReservationInv, ClaimAfter, ClaimPcs,
         PcType, CallType, tableVars, flagVars, targetVars, callVars, boundVars
    <2>7. OneReservation'
      BY <1>0, <1>11 DEF Enable, Goto, IInv, TypeOK, ReservationInv, OneReservation,
         LockHeld, UnreserveAfter, InRead, ReadPcs, ReservedPcs, PcType, CallType,
         TableType, tableVars, flagVars, targetVars, callVars, boundVars
    <2>8. QED
      BY <2>1, <2>2, <2>3, <2>4, <2>5, <2>6, <2>7 DEF IInv, TypeOK, ReservationInv
  <1>12. ASSUME IInv, NEW t \in Threads, Acquire(t) PROVE IInv'
    <2>1. TableType' /\ ReaderType' /\ TargetType' /\ CallType' /\ CapacityBound'
      BY <1>12 DEF Acquire, IInv, TypeOK, ReservationInv, TableType, OneReservation,
         CallType, PcType, CapacityBound, ReaderType, TargetType, Used, Pending,
         tableVars, flagVars, targetVars, callVars, boundVars
    <2>2. PcType'
      BY <1>0, <1>12 DEF Acquire, Fault, Goto, IInv, TypeOK, ReservationInv, PcType, Pcs,
         ReadPcs, ReservedPcs, ClaimPcs, CallType, tableVars, flagVars, targetVars, callVars,
         boundVars
    <2>3. BoundType'
      BY <1>0, <1>12 DEF Acquire, Fault, Goto, IInv, TypeOK, ReservationInv, BoundType,
         tableVars, flagVars, targetVars, callVars, boundVars
    <2>4. LockHeld'
      BY <1>0, <1>12 DEF Acquire, Fault, Goto, IInv, TypeOK, ReservationInv, LockHeld,
         InRead, UnreserveAfter, ClaimAfter, ReadPcs, ReservedPcs, ClaimPcs, PcType,
         CallType, tableVars, flagVars, targetVars, callVars, boundVars
    <2>5. UnreserveAfter'
      BY <1>0, <1>12 DEF Acquire, Fault, Goto, IInv, TypeOK, ReservationInv,
         UnreserveAfter, PcType, CallType, tableVars, flagVars, targetVars, callVars, boundVars
    <2>6. ClaimAfter'
      BY <1>0, <1>12 DEF Acquire, Fault, Goto, IInv, TypeOK, ReservationInv, ClaimAfter,
         ClaimPcs, PcType, CallType, tableVars, flagVars, targetVars, callVars, boundVars
    <2>7. OneReservation'
      BY <1>0, <1>12 DEF Acquire, Fault, Goto, IInv, TypeOK, ReservationInv,
         OneReservation, LockHeld, UnreserveAfter, InRead, ReadPcs, ReservedPcs, PcType,
         CallType, TableType, tableVars, flagVars, targetVars, callVars, boundVars
    <2>8. QED
      BY <2>1, <2>2, <2>3, <2>4, <2>5, <2>6, <2>7 DEF IInv, TypeOK, ReservationInv
  <1>13. ASSUME IInv, NEW t \in Threads, ReadStatus(t) PROVE IInv'
    <2>1. TableType' /\ ReaderType' /\ TargetType' /\ BoundType' /\ CapacityBound'
      BY <1>13 DEF ReadStatus, IInv, TypeOK, ReservationInv, TableType, OneReservation,
         CallType, PcType, CapacityBound, ReaderType, TargetType, BoundType, Used,
         Pending, tableVars, flagVars, targetVars, callVars, boundVars
    <2>2. CallType'
      BY <1>0, <1>13 DEF ReadStatus, TargetStatus, Goto, IInv, TypeOK, ReservationInv,
         CallType, Statuses, ReaderType, tableVars, flagVars, targetVars, callVars, boundVars
    <2>3. PcType'
      BY <1>0, <1>13 DEF ReadStatus, TargetStatus, Goto, IInv, TypeOK, ReservationInv,
         PcType, Pcs, ReadPcs, ReservedPcs, ClaimPcs, CallType, tableVars, flagVars, targetVars,
         callVars, boundVars
    <2>4. LockHeld'
      BY <1>0, <1>13 DEF ReadStatus, TargetStatus, Goto, IInv, TypeOK, ReservationInv,
         LockHeld, InRead, UnreserveAfter, ClaimAfter, ReadPcs, ReservedPcs, ClaimPcs,
         PcType, CallType, tableVars, flagVars, targetVars, callVars, boundVars
    <2>5. UnreserveAfter'
      BY <1>0, <1>13 DEF ReadStatus, TargetStatus, Goto, IInv, TypeOK, ReservationInv,
         UnreserveAfter, PcType, CallType, tableVars, flagVars, targetVars, callVars, boundVars
    <2>6. ClaimAfter'
      BY <1>0, <1>13 DEF ReadStatus, TargetStatus, Goto, IInv, TypeOK, ReservationInv,
         ClaimAfter, ClaimPcs, PcType, CallType, tableVars, flagVars, targetVars, callVars,
         boundVars
    <2>7. OneReservation'
      BY <1>0, <1>13 DEF ReadStatus, TargetStatus, Goto, IInv, TypeOK, ReservationInv,
         OneReservation, LockHeld, UnreserveAfter, InRead, ReadPcs, ReservedPcs, PcType,
         CallType, TableType, tableVars, flagVars, targetVars, callVars, boundVars
    <2>8. QED
      BY <2>1, <2>2, <2>3, <2>4, <2>5, <2>6, <2>7 DEF IInv, TypeOK, ReservationInv
  <1>14. ASSUME IInv, NEW t \in Threads, WaitEval(t) PROVE IInv'
    <2>1. TableType' /\ ReaderType' /\ TargetType' /\ CallType' /\ BoundType' /\
       CapacityBound'
      BY <1>14 DEF WaitEval, IInv, TypeOK, ReservationInv, TableType, OneReservation,
         CallType, PcType, CapacityBound, ReaderType, TargetType, BoundType, Used,
         Pending, tableVars, flagVars, targetVars, callVars, boundVars
    <2>2. PcType'
      BY <1>0, <1>14 DEF WaitEval, Decide, Goto, IInv, TypeOK, ReservationInv, PcType,
         Pcs, ReadPcs, ReservedPcs, ClaimPcs, CallType, tableVars, flagVars, targetVars, callVars,
         boundVars
    <2>3. LockHeld'
      BY <1>0, <1>14 DEF WaitEval, Decide, Goto, IInv, TypeOK, ReservationInv, LockHeld,
         InRead, UnreserveAfter, ClaimAfter, ReadPcs, ReservedPcs, ClaimPcs, PcType,
         CallType, tableVars, flagVars, targetVars, callVars, boundVars
    <2>4. UnreserveAfter'
      BY <1>0, <1>14 DEF WaitEval, Decide, Goto, IInv, TypeOK, ReservationInv,
         UnreserveAfter, PcType, CallType, tableVars, flagVars, targetVars, callVars, boundVars
    <2>5. ClaimAfter'
      BY <1>0, <1>14 DEF WaitEval, Decide, Goto, IInv, TypeOK, ReservationInv, ClaimAfter,
         ClaimPcs, PcType, CallType, tableVars, flagVars, targetVars, callVars, boundVars
    <2>6. OneReservation'
      BY <1>0, <1>14 DEF WaitEval, Decide, Goto, IInv, TypeOK, ReservationInv,
         OneReservation, LockHeld, UnreserveAfter, InRead, ReadPcs, ReservedPcs, PcType,
         CallType, TableType, tableVars, flagVars, targetVars, callVars, boundVars
    <2>7. QED
      BY <2>1, <2>2, <2>3, <2>4, <2>5, <2>6 DEF IInv, TypeOK, ReservationInv
  <1>15. ASSUME IInv, NEW t \in Threads, TimedOut(t) PROVE IInv'
    <2>1. TableType' /\ ReaderType' /\ TargetType' /\ CallType' /\ BoundType' /\
       CapacityBound'
      BY <1>15 DEF TimedOut, IInv, TypeOK, ReservationInv, TableType, OneReservation,
         CallType, PcType, CapacityBound, ReaderType, TargetType, BoundType, Used,
         Pending, tableVars, flagVars, targetVars, callVars, boundVars
    <2>2. PcType'
      BY <1>0, <1>15 DEF TimedOut, Goto, IInv, TypeOK, ReservationInv, PcType, Pcs,
         ReadPcs, ReservedPcs, ClaimPcs, CallType, tableVars, flagVars, targetVars, callVars,
         boundVars
    <2>3. LockHeld'
      BY <1>0, <1>15 DEF TimedOut, Goto, IInv, TypeOK, ReservationInv, LockHeld, InRead,
         UnreserveAfter, ClaimAfter, ReadPcs, ReservedPcs, ClaimPcs, PcType, CallType,
         tableVars, flagVars, targetVars, callVars, boundVars
    <2>4. UnreserveAfter'
      BY <1>0, <1>15 DEF TimedOut, Goto, IInv, TypeOK, ReservationInv, UnreserveAfter,
         PcType, CallType, tableVars, flagVars, targetVars, callVars, boundVars
    <2>5. ClaimAfter'
      BY <1>0, <1>15 DEF TimedOut, Goto, IInv, TypeOK, ReservationInv, ClaimAfter,
         ClaimPcs, PcType, CallType, tableVars, flagVars, targetVars, callVars, boundVars
    <2>6. OneReservation'
      BY <1>0, <1>15 DEF TimedOut, Goto, IInv, TypeOK, ReservationInv, OneReservation,
         LockHeld, UnreserveAfter, InRead, ReadPcs, ReservedPcs, PcType, CallType,
         TableType, tableVars, flagVars, targetVars, callVars, boundVars
    <2>7. QED
      BY <2>1, <2>2, <2>3, <2>4, <2>5, <2>6 DEF IInv, TypeOK, ReservationInv
  <1>16. ASSUME IInv, NEW t \in Threads, ShutdownCheck(t) PROVE IInv'
    <2>1. TableType' /\ ReaderType' /\ TargetType' /\ CallType' /\ BoundType' /\
       CapacityBound'
      BY <1>16 DEF ShutdownCheck, IInv, TypeOK, ReservationInv, TableType, OneReservation,
         CallType, PcType, CapacityBound, ReaderType, TargetType, BoundType, Used,
         Pending, tableVars, flagVars, targetVars, callVars, boundVars
    <2>2. PcType'
      BY <1>0, <1>16 DEF ShutdownCheck, Goto, IInv, TypeOK, ReservationInv, PcType, Pcs,
         ReadPcs, ReservedPcs, ClaimPcs, CallType, tableVars, flagVars, targetVars, callVars,
         boundVars
    <2>3. LockHeld'
      BY <1>0, <1>16 DEF ShutdownCheck, Goto, IInv, TypeOK, ReservationInv, LockHeld,
         InRead, UnreserveAfter, ClaimAfter, ReadPcs, ReservedPcs, ClaimPcs, PcType,
         CallType, tableVars, flagVars, targetVars, callVars, boundVars
    <2>4. UnreserveAfter'
      BY <1>0, <1>16 DEF ShutdownCheck, Goto, IInv, TypeOK, ReservationInv,
         UnreserveAfter, PcType, CallType, tableVars, flagVars, targetVars, callVars, boundVars
    <2>5. ClaimAfter'
      BY <1>0, <1>16 DEF ShutdownCheck, Goto, IInv, TypeOK, ReservationInv, ClaimAfter,
         ClaimPcs, PcType, CallType, tableVars, flagVars, targetVars, callVars, boundVars
    <2>6. OneReservation'
      BY <1>0, <1>16 DEF ShutdownCheck, Goto, IInv, TypeOK, ReservationInv,
         OneReservation, LockHeld, UnreserveAfter, InRead, ReadPcs, ReservedPcs, PcType,
         CallType, TableType, tableVars, flagVars, targetVars, callVars, boundVars
    <2>7. QED
      BY <2>1, <2>2, <2>3, <2>4, <2>5, <2>6 DEF IInv, TypeOK, ReservationInv
  <1>17. ASSUME IInv, NEW t \in Threads, FinalEval(t) PROVE IInv'
    <2>1. TableType' /\ ReaderType' /\ TargetType' /\ BoundType' /\ CapacityBound'
      BY <1>17 DEF FinalEval, IInv, TypeOK, ReservationInv, TableType, OneReservation,
         CallType, PcType, CapacityBound, ReaderType, TargetType, BoundType, Used,
         Pending, tableVars, flagVars, targetVars, callVars, boundVars
    <2>2. CallType'
      BY <1>0, <1>17 DEF FinalEval, Decide, Goto, IInv, TypeOK, ReservationInv, CallType,
         Statuses, ReaderType, tableVars, flagVars, targetVars, callVars, boundVars
    <2>3. PcType'
      BY <1>0, <1>17 DEF FinalEval, Decide, Goto, IInv, TypeOK, ReservationInv, PcType,
         Pcs, ReadPcs, ReservedPcs, ClaimPcs, CallType, tableVars, flagVars, targetVars, callVars,
         boundVars
    <2>4. LockHeld'
      BY <1>0, <1>17 DEF FinalEval, Decide, Goto, IInv, TypeOK, ReservationInv, LockHeld,
         InRead, UnreserveAfter, ClaimAfter, ReadPcs, ReservedPcs, ClaimPcs, PcType,
         CallType, tableVars, flagVars, targetVars, callVars, boundVars
    <2>5. UnreserveAfter'
      BY <1>0, <1>17 DEF FinalEval, Decide, Goto, IInv, TypeOK, ReservationInv,
         UnreserveAfter, PcType, CallType, tableVars, flagVars, targetVars, callVars, boundVars
    <2>6. ClaimAfter'
      BY <1>0, <1>17 DEF FinalEval, Decide, Goto, IInv, TypeOK, ReservationInv,
         ClaimAfter, ClaimPcs, PcType, CallType, tableVars, flagVars, targetVars, callVars,
         boundVars
    <2>7. OneReservation'
      BY <1>0, <1>17 DEF FinalEval, Decide, Goto, IInv, TypeOK, ReservationInv,
         OneReservation, LockHeld, UnreserveAfter, InRead, ReadPcs, ReservedPcs, PcType,
         CallType, TableType, tableVars, flagVars, targetVars, callVars, boundVars
    <2>8. QED
      BY <2>1, <2>2, <2>3, <2>4, <2>5, <2>6, <2>7 DEF IInv, TypeOK, ReservationInv
  <1>18. ASSUME IInv, NEW t \in Threads, Write(t) PROVE IInv'
    <2>1. TableType' /\ ReaderType' /\ TargetType' /\ CallType' /\ CapacityBound'
      BY <1>18 DEF Write, IInv, TypeOK, ReservationInv, TableType, OneReservation,
         CallType, PcType, CapacityBound, ReaderType, TargetType, Used, Pending,
         tableVars, flagVars, targetVars, callVars, boundVars
    <2>2. PcType'
      BY <1>0, <1>18 DEF Write, Fault, Goto, IInv, TypeOK, ReservationInv, PcType, Pcs,
         ReadPcs, ReservedPcs, ClaimPcs, CallType, tableVars, flagVars, targetVars, callVars,
         boundVars
    <2>3. BoundType'
      BY <1>0, <1>18 DEF Write, Fault, Goto, IInv, TypeOK, ReservationInv, BoundType,
         tableVars, flagVars, targetVars, callVars, boundVars
    <2>4. LockHeld'
      BY <1>0, <1>18 DEF Write, Fault, Goto, IInv, TypeOK, ReservationInv, LockHeld,
         InRead, UnreserveAfter, ClaimAfter, ReadPcs, ReservedPcs, ClaimPcs, PcType,
         CallType, tableVars, flagVars, targetVars, callVars, boundVars
    <2>5. UnreserveAfter'
      BY <1>0, <1>18 DEF Write, Fault, Goto, IInv, TypeOK, ReservationInv, UnreserveAfter,
         PcType, CallType, tableVars, flagVars, targetVars, callVars, boundVars
    <2>6. ClaimAfter'
      BY <1>0, <1>18 DEF Write, Fault, Goto, IInv, TypeOK, ReservationInv, ClaimAfter,
         ClaimPcs, PcType, CallType, tableVars, flagVars, targetVars, callVars, boundVars
    <2>7. OneReservation'
      BY <1>0, <1>18 DEF Write, Fault, Goto, IInv, TypeOK, ReservationInv, OneReservation,
         LockHeld, UnreserveAfter, InRead, ReadPcs, ReservedPcs, PcType, CallType,
         TableType, tableVars, flagVars, targetVars, callVars, boundVars
    <2>8. QED
      BY <2>1, <2>2, <2>3, <2>4, <2>5, <2>6, <2>7 DEF IInv, TypeOK, ReservationInv
  <1>19. ASSUME IInv, NEW t \in Threads, Restore(t) PROVE IInv'
    <2>1. ReaderType' /\ TargetType' /\ CallType' /\ BoundType'
      BY <1>19 DEF Restore, IInv, TypeOK, ReservationInv, ReaderType, TargetType,
         CallType, BoundType, tableVars, flagVars, targetVars, callVars, boundVars
    <2>2. TableType'
      BY <1>0, <1>19 DEF Restore, Reset, Goto, IInv, TypeOK, ReservationInv, TableType,
         OneReservation, ReservedPcs, CallType, PcType, CapacityBound, tableVars, flagVars,
         targetVars, callVars, boundVars
    <2>3. PcType'
      BY <1>0, <1>19 DEF Restore, Reset, Goto, IInv, TypeOK, ReservationInv, PcType, Pcs,
         ReadPcs, ReservedPcs, ClaimPcs, CallType, tableVars, flagVars, targetVars, callVars,
         boundVars
    <2>4. LockHeld'
      BY <1>0, <1>19 DEF Restore, Reset, Goto, IInv, TypeOK, ReservationInv, LockHeld,
         InRead, UnreserveAfter, ClaimAfter, ReadPcs, ReservedPcs, ClaimPcs, PcType,
         CallType, tableVars, flagVars, targetVars, callVars, boundVars
    <2>5. UnreserveAfter'
      BY <1>0, <1>19 DEF Restore, Reset, Goto, IInv, TypeOK, ReservationInv,
         UnreserveAfter, PcType, CallType, tableVars, flagVars, targetVars, callVars, boundVars
    <2>6. ClaimAfter'
      BY <1>0, <1>19 DEF Restore, Reset, Goto, IInv, TypeOK, ReservationInv, ClaimAfter,
         ClaimPcs, PcType, CallType, tableVars, flagVars, targetVars, callVars, boundVars
    <2>7. OneReservation'
      BY <1>0, <1>19 DEF Restore, Reset, Goto, IInv, TypeOK, ReservationInv,
         OneReservation, LockHeld, UnreserveAfter, InRead, ReadPcs, ReservedPcs, PcType,
         CallType, TableType, tableVars, flagVars, targetVars, callVars, boundVars
    <2>8. CapacityBound'
      <3>1. phase' \in [Requests -> {"none", "Pending", "Responding"}]
        BY <2>2 DEF TableType
      <3>2. \A q \in Requests : phase'[q] # "none" => phase[q] # "none"
        BY <1>0, <1>19 DEF Restore, Reset, Goto, IInv, TypeOK, TableType, CallType
      <3>3. Cardinality(Pending') <= Cardinality(Pending)
        BY <3>2, PendingShrinks
      <3>4. reservations' = reservations /\ reservations \in Nat
        BY <1>19 DEF Restore, IInv, TypeOK, TableType
      <3>5. IsFiniteSet(Pending')
        BY FS_Subset, ServerAssumption DEF Pending
      <3>6. QED
        BY <3>3, <3>4, <3>5, <1>19, PendingCard, FS_CardinalityType, ServerAssumption
           DEF IInv, CapacityBound, Used
    <2>9. QED
      BY <2>1, <2>2, <2>3, <2>4, <2>5, <2>6, <2>7, <2>8 DEF IInv, TypeOK, ReservationInv
  <1>20. ASSUME IInv, NEW t \in Threads, Expire(t) PROVE IInv'
    <2>1. TableType' /\ ReaderType' /\ TargetType' /\ PcType' /\ BoundType' /\ LockHeld'
       /\ UnreserveAfter' /\ ClaimAfter' /\ OneReservation' /\ CapacityBound'
      BY <1>20 DEF Expire, IInv, TypeOK, ReservationInv, TableType, OneReservation,
         CallType, PcType, CapacityBound, ReaderType, TargetType, BoundType, LockHeld,
         InRead, UnreserveAfter, ClaimAfter, Used, Pending, tableVars, flagVars, targetVars,
         callVars, boundVars
    <2>2. CallType'
      BY <1>0, <1>20 DEF Expire, IInv, TypeOK, ReservationInv, CallType, Statuses,
         ReaderType, tableVars, flagVars, targetVars, callVars, boundVars
    <2>3. QED
      BY <2>1, <2>2 DEF IInv, TypeOK, ReservationInv
  <1>21. ASSUME IInv, NEW t \in Threads, NEW r \in Requests, Respond(t, r) PROVE IInv'
    <2>1. ReaderType' /\ TargetType'
      BY <1>21 DEF Respond, IInv, TypeOK, ReservationInv, ReaderType, TargetType,
         tableVars, flagVars, targetVars, callVars, boundVars
    <2>2. TableType'
      BY <1>0, <1>21 DEF Respond, Begin, CanRespond, Continue, Goto, IInv, TypeOK,
         ReservationInv, TableType, OneReservation, ReservedPcs, CallType, PcType,
         CapacityBound, tableVars, flagVars, targetVars, callVars, boundVars
    <2>3. CallType'
      BY <1>0, <1>21 DEF Respond, Begin, CanRespond, Continue, Goto, IInv, TypeOK,
         ReservationInv, CallType, Statuses, ReaderType, tableVars, flagVars, targetVars, callVars,
         boundVars
    <2>4. PcType'
      BY <1>0, <1>21 DEF Respond, Begin, CanRespond, Continue, Goto, IInv, TypeOK,
         ReservationInv, PcType, Pcs, ReadPcs, ReservedPcs, ClaimPcs, CallType, tableVars, flagVars,
         targetVars, callVars, boundVars
    <2>5. BoundType'
      BY <1>0, <1>21 DEF Respond, Begin, CanRespond, Continue, Goto, IInv, TypeOK,
         ReservationInv, BoundType, tableVars, flagVars, targetVars, callVars, boundVars
    <2>6. LockHeld'
      BY <1>0, <1>21 DEF Respond, Begin, CanRespond, Continue, Goto, IInv, TypeOK,
         ReservationInv, LockHeld, InRead, UnreserveAfter, ClaimAfter, ReadPcs,
         ReservedPcs, ClaimPcs, PcType, CallType, tableVars, flagVars, targetVars, callVars,
         boundVars
    <2>7. UnreserveAfter'
      BY <1>0, <1>21 DEF Respond, Begin, CanRespond, Continue, Goto, IInv, TypeOK,
         ReservationInv, UnreserveAfter, PcType, CallType, tableVars, flagVars, targetVars,
         callVars, boundVars
    <2>8. ClaimAfter'
      BY <1>0, <1>21 DEF Respond, Begin, CanRespond, Continue, Goto, IInv, TypeOK,
         ReservationInv, ClaimAfter, ClaimPcs, PcType, CallType, tableVars, flagVars, targetVars,
         callVars, boundVars
    <2>9. OneReservation'
      BY <1>0, <1>21 DEF Respond, Begin, CanRespond, Continue, Goto, IInv, TypeOK,
         ReservationInv, OneReservation, LockHeld, UnreserveAfter, InRead, ReadPcs,
         ReservedPcs, PcType, CallType, TableType, tableVars, flagVars, targetVars, callVars,
         boundVars
    <2>10. CapacityBound'
      <3>1. phase' \in [Requests -> {"none", "Pending", "Responding"}]
        BY <2>2 DEF TableType
      <3>2. \A q \in Requests : phase'[q] # "none" => phase[q] # "none"
        BY <1>0, <1>21 DEF Respond, Begin, CanRespond, Continue, Goto, IInv, TypeOK,
           TableType, CallType
      <3>3. Cardinality(Pending') <= Cardinality(Pending)
        BY <3>2, PendingShrinks
      <3>4. reservations' = reservations /\ reservations \in Nat
        BY <1>21 DEF Respond, IInv, TypeOK, TableType
      <3>5. IsFiniteSet(Pending')
        BY FS_Subset, ServerAssumption DEF Pending
      <3>6. QED
        BY <3>3, <3>4, <3>5, <1>21, PendingCard, FS_CardinalityType, ServerAssumption
           DEF IInv, CapacityBound, Used
    <2>11. QED
      BY <2>1, <2>2, <2>3, <2>4, <2>5, <2>6, <2>7, <2>8, <2>9, <2>10 DEF IInv, TypeOK,
         ReservationInv
  <1>22. ASSUME IInv, NEW t \in Threads, NEW r \in Requests, Discard(t, r) PROVE IInv'
    <2>1. ReaderType' /\ TargetType'
      BY <1>22 DEF Discard, IInv, TypeOK, ReservationInv, ReaderType, TargetType,
         tableVars, flagVars, targetVars, callVars, boundVars
    <2>2. TableType'
      BY <1>0, <1>22 DEF Discard, Begin, WasFull, Continue, Goto, IInv, TypeOK,
         ReservationInv, TableType, OneReservation, ReservedPcs, CallType, PcType,
         CapacityBound, tableVars, flagVars, targetVars, callVars, boundVars
    <2>3. CallType'
      BY <1>0, <1>22 DEF Discard, Begin, WasFull, Continue, Goto, IInv, TypeOK,
         ReservationInv, CallType, Statuses, ReaderType, tableVars, flagVars, targetVars, callVars,
         boundVars
    <2>4. PcType'
      BY <1>0, <1>22 DEF Discard, Begin, WasFull, Continue, Goto, IInv, TypeOK,
         ReservationInv, PcType, Pcs, ReadPcs, ReservedPcs, ClaimPcs, CallType, tableVars, flagVars,
         targetVars, callVars, boundVars
    <2>5. BoundType'
      BY <1>0, <1>22 DEF Discard, Begin, WasFull, Continue, Goto, IInv, TypeOK,
         ReservationInv, BoundType, tableVars, flagVars, targetVars, callVars, boundVars
    <2>6. LockHeld'
      BY <1>0, <1>22 DEF Discard, Begin, WasFull, Continue, Goto, IInv, TypeOK,
         ReservationInv, LockHeld, InRead, UnreserveAfter, ClaimAfter, ReadPcs,
         ReservedPcs, ClaimPcs, PcType, CallType, tableVars, flagVars, targetVars, callVars,
         boundVars
    <2>7. UnreserveAfter'
      BY <1>0, <1>22 DEF Discard, Begin, WasFull, Continue, Goto, IInv, TypeOK,
         ReservationInv, UnreserveAfter, PcType, CallType, tableVars, flagVars, targetVars,
         callVars, boundVars
    <2>8. ClaimAfter'
      BY <1>0, <1>22 DEF Discard, Begin, WasFull, Continue, Goto, IInv, TypeOK,
         ReservationInv, ClaimAfter, ClaimPcs, PcType, CallType, tableVars, flagVars, targetVars,
         callVars, boundVars
    <2>9. OneReservation'
      BY <1>0, <1>22 DEF Discard, Begin, WasFull, Continue, Goto, IInv, TypeOK,
         ReservationInv, OneReservation, LockHeld, UnreserveAfter, InRead, ReadPcs,
         ReservedPcs, PcType, CallType, TableType, tableVars, flagVars, targetVars, callVars,
         boundVars
    <2>10. CapacityBound'
      <3>1. phase' \in [Requests -> {"none", "Pending", "Responding"}]
        BY <2>2 DEF TableType
      <3>2. \A q \in Requests : phase'[q] # "none" => phase[q] # "none"
        BY <1>0, <1>22 DEF Discard, Begin, WasFull, Continue, Goto, IInv, TypeOK,
           TableType, CallType
      <3>3. Cardinality(Pending') <= Cardinality(Pending)
        BY <3>2, PendingShrinks
      <3>4. reservations' = reservations /\ reservations \in Nat
        BY <1>22 DEF Discard, IInv, TypeOK, TableType
      <3>5. IsFiniteSet(Pending')
        BY FS_Subset, ServerAssumption DEF Pending
      <3>6. QED
        BY <3>3, <3>4, <3>5, <1>22, PendingCard, FS_CardinalityType, ServerAssumption
           DEF IInv, CapacityBound, Used
    <2>11. QED
      BY <2>1, <2>2, <2>3, <2>4, <2>5, <2>6, <2>7, <2>8, <2>9, <2>10 DEF IInv, TypeOK,
         ReservationInv
  <1>23. ASSUME IInv, NEW s \in Samples, Arrive(s) PROVE IInv'
    <2>1. TableType' /\ TargetType' /\ CallType' /\ PcType' /\ LockHeld' /\
       UnreserveAfter' /\ ClaimAfter' /\ OneReservation' /\ CapacityBound'
      BY <1>23 DEF Arrive, IInv, TypeOK, ReservationInv, TableType, OneReservation,
         CallType, PcType, CapacityBound, TargetType, ReaderType, LockHeld, InRead,
         UnreserveAfter, ClaimAfter, Used, Pending, tableVars, flagVars, targetVars, callVars,
         boundVars
    <2>2. ReaderType'
      BY <1>0, <1>23 DEF Arrive, IInv, TypeOK, ReservationInv, ReaderType, Samples,
         tableVars, flagVars, targetVars, callVars, boundVars
    <2>3. BoundType'
      BY <1>0, <1>23 DEF Arrive, IInv, TypeOK, ReservationInv, BoundType, tableVars, flagVars,
         targetVars, callVars, boundVars
    <2>4. QED
      BY <2>1, <2>2, <2>3 DEF IInv, TypeOK, ReservationInv
  <1>24. ASSUME IInv, NEW r \in Targeted, Match(r) PROVE IInv'
    <2>1. TableType' /\ ReaderType' /\ CallType' /\ BoundType' /\ CapacityBound'
      BY <1>24 DEF Match, IInv, TypeOK, ReservationInv, TableType, OneReservation,
         CallType, PcType, CapacityBound, ReaderType, BoundType, Used, Pending, tableVars, flagVars,
         targetVars, callVars, boundVars
    <2>2. TargetType'
      BY <1>0, <1>24 DEF Match, NotifyAll, IInv, TypeOK, ReservationInv, TargetType,
         tableVars, flagVars, targetVars, callVars, boundVars
    <2>3. PcType'
      BY <1>0, <1>24 DEF Match, NotifyAll, IInv, TypeOK, ReservationInv, PcType, Pcs,
         ReadPcs, ReservedPcs, ClaimPcs, CallType, tableVars, flagVars, targetVars, callVars,
         boundVars
    <2>4. LockHeld'
      BY <1>0, <1>24 DEF Match, NotifyAll, IInv, TypeOK, ReservationInv, LockHeld, InRead,
         UnreserveAfter, ClaimAfter, ReadPcs, ReservedPcs, ClaimPcs, PcType, CallType,
         tableVars, flagVars, targetVars, callVars, boundVars
    <2>5. UnreserveAfter'
      BY <1>0, <1>24 DEF Match, NotifyAll, IInv, TypeOK, ReservationInv, UnreserveAfter,
         PcType, CallType, tableVars, flagVars, targetVars, callVars, boundVars
    <2>6. ClaimAfter'
      BY <1>0, <1>24 DEF Match, NotifyAll, IInv, TypeOK, ReservationInv, ClaimAfter,
         ClaimPcs, PcType, CallType, tableVars, flagVars, targetVars, callVars, boundVars
    <2>7. OneReservation'
      BY <1>0, <1>24 DEF Match, NotifyAll, IInv, TypeOK, ReservationInv, OneReservation,
         LockHeld, UnreserveAfter, InRead, ReadPcs, ReservedPcs, PcType, CallType,
         TableType, tableVars, flagVars, targetVars, callVars, boundVars
    <2>8. QED
      BY <2>1, <2>2, <2>3, <2>4, <2>5, <2>6, <2>7 DEF IInv, TypeOK, ReservationInv
  <1>25. ASSUME IInv, NEW r \in Targeted, Discover(r) PROVE IInv'
    <2>1. TableType' /\ ReaderType' /\ CallType' /\ BoundType' /\ CapacityBound'
      BY <1>25 DEF Discover, IInv, TypeOK, ReservationInv, TableType, OneReservation,
         CallType, PcType, CapacityBound, ReaderType, BoundType, Used, Pending, tableVars, flagVars,
         targetVars, callVars, boundVars
    <2>2. TargetType'
      BY <1>0, <1>25 DEF Discover, NotifyAll, IInv, TypeOK, ReservationInv, TargetType,
         tableVars, flagVars, targetVars, callVars, boundVars
    <2>3. PcType'
      BY <1>0, <1>25 DEF Discover, NotifyAll, IInv, TypeOK, ReservationInv, PcType, Pcs,
         ReadPcs, ReservedPcs, ClaimPcs, CallType, tableVars, flagVars, targetVars, callVars,
         boundVars
    <2>4. LockHeld'
      BY <1>0, <1>25 DEF Discover, NotifyAll, IInv, TypeOK, ReservationInv, LockHeld,
         InRead, UnreserveAfter, ClaimAfter, ReadPcs, ReservedPcs, ClaimPcs, PcType,
         CallType, tableVars, flagVars, targetVars, callVars, boundVars
    <2>5. UnreserveAfter'
      BY <1>0, <1>25 DEF Discover, NotifyAll, IInv, TypeOK, ReservationInv,
         UnreserveAfter, PcType, CallType, tableVars, flagVars, targetVars, callVars, boundVars
    <2>6. ClaimAfter'
      BY <1>0, <1>25 DEF Discover, NotifyAll, IInv, TypeOK, ReservationInv, ClaimAfter,
         ClaimPcs, PcType, CallType, tableVars, flagVars, targetVars, callVars, boundVars
    <2>7. OneReservation'
      BY <1>0, <1>25 DEF Discover, NotifyAll, IInv, TypeOK, ReservationInv,
         OneReservation, LockHeld, UnreserveAfter, InRead, ReadPcs, ReservedPcs, PcType,
         CallType, TableType, tableVars, flagVars, targetVars, callVars, boundVars
    <2>8. QED
      BY <2>1, <2>2, <2>3, <2>4, <2>5, <2>6, <2>7 DEF IInv, TypeOK, ReservationInv
  <1>26. ASSUME IInv, Lose PROVE IInv'
    <2>1. TableType' /\ TargetType' /\ CallType' /\ PcType' /\ BoundType' /\ LockHeld' /\
       UnreserveAfter' /\ ClaimAfter' /\ OneReservation' /\ CapacityBound'
      BY <1>26 DEF Lose, IInv, TypeOK, ReservationInv, TableType, OneReservation,
         CallType, PcType, CapacityBound, TargetType, ReaderType, BoundType, LockHeld,
         InRead, UnreserveAfter, ClaimAfter, Used, Pending, tableVars, flagVars, targetVars,
         callVars, boundVars
    <2>2. ReaderType'
      BY <1>0, <1>26 DEF Lose, IInv, TypeOK, ReservationInv, ReaderType, Samples,
         tableVars, flagVars, targetVars, callVars, boundVars
    <2>3. QED
      BY <2>1, <2>2 DEF IInv, TypeOK, ReservationInv
  <1>27. ASSUME IInv, Shutdown PROVE IInv'
    <2>1. TableType' /\ ReaderType' /\ TargetType' /\ CallType' /\ PcType' /\ LockHeld' /\
       UnreserveAfter' /\ ClaimAfter' /\ OneReservation' /\ CapacityBound'
      BY <1>27 DEF Shutdown, IInv, TypeOK, ReservationInv, TableType, OneReservation,
         CallType, PcType, CapacityBound, ReaderType, TargetType, LockHeld, InRead,
         UnreserveAfter, ClaimAfter, Used, Pending, tableVars, flagVars, targetVars, callVars,
         boundVars
    <2>2. BoundType'
      BY <1>0, <1>27 DEF Shutdown, IInv, TypeOK, ReservationInv, BoundType, tableVars, flagVars,
         targetVars, callVars, boundVars
    <2>3. QED
      BY <2>1, <2>2 DEF IInv, TypeOK, ReservationInv
  <1>28. ASSUME IInv, UNCHANGED vars PROVE IInv'
    BY <1>28 DEF IInv, TypeOK, ReservationInv, vars, TableType, ReaderType, TargetType,
       CallType, PcType, BoundType, LockHeld, UnreserveAfter, ClaimAfter, OneReservation,
       CapacityBound, InRead, Used, Pending, tableVars, flagVars, targetVars, callVars, boundVars
  <1>29. QED
    BY <1>1, <1>2, <1>3, <1>4, <1>5, <1>6, <1>7, <1>8, <1>9, <1>10, <1>11, <1>12, <1>13,
       <1>14, <1>15, <1>16, <1>17, <1>18, <1>19, <1>20, <1>21, <1>22, <1>23, <1>24, <1>25,
       <1>26, <1>27, <1>28 DEF Next, Call, Step, ReadStep, RespondStep

\* Every variable of a server keeps its type; reservations_ (a size_t) never
\* wraps below zero, however read_request is interleaved with itself.
THEOREM ServerTypeCorrect == Spec => []TypeOK
  <1>1. IInv => TypeOK
    BY DEF IInv
  <1>2. QED
    BY <1>1, InitInv, NextInv, PTL DEF Spec

\* The requests that are pending, being responded to or reserved never exceed
\* max_pending_requests, and a slot that is no reader's own was left by an exception.
THEOREM ServerCapacity == Spec => []CapacityKept
  <1>1. IInv => CapacityKept
    BY DEF IInv, ReservationInv, CapacityKept
  <1>2. QED
    BY <1>1, InitInv, NextInv, PTL DEF Spec

\* Every step keeps each claim resolvable: a thread leaves its claim only by
\* releasing the entry or making it Pending again.
LEMMA NextClaim == TypeOK /\ NoOrphanClaim /\ [Next]_vars => NoOrphanClaim'
  <1> USE DEF Goto, TypeOK, TableType, CallType, PcType, NoOrphanClaim, ClaimPcs, tableVars, flagVars, callVars
  <1>1. ASSUME TypeOK, NoOrphanClaim, NEW t \in Threads, Read(t) PROVE NoOrphanClaim'
    BY <1>1 DEF Read, Begin
  <1>2. ASSUME TypeOK, NoOrphanClaim, NEW t \in Threads, ReadLock(t) PROVE NoOrphanClaim'
    BY <1>2 DEF ReadLock
  <1>3. ASSUME TypeOK, NoOrphanClaim, NEW t \in Threads, Reserve(t) PROVE NoOrphanClaim'
    BY <1>3 DEF Reserve
  <1>4. ASSUME TypeOK, NoOrphanClaim, NEW t \in Threads, Disable(t) PROVE NoOrphanClaim'
    BY <1>4 DEF Disable
  <1>5. ASSUME TypeOK, NoOrphanClaim, NEW t \in Threads, Take(t) PROVE NoOrphanClaim'
    <2>1. phase' = phase /\ pc[t] = "take"
      BY <1>5 DEF Take
    <2>2. \A u \in Threads : u # t => req'[u] = req[u] /\ pc'[u] = pc[u]
      BY <1>5 DEF Take, Continue
    <2>3. QED
      BY <1>5, <2>1, <2>2
  <1>6. ASSUME TypeOK, NoOrphanClaim, NEW t \in Threads, Unreserve(t) PROVE NoOrphanClaim'
    BY <1>6 DEF Unreserve
  <1>7. ASSUME TypeOK, NoOrphanClaim, NEW t \in Threads, Insert(t) PROVE NoOrphanClaim'
    BY <1>7 DEF Insert, AfterDuplicate
  <1>8. ASSUME TypeOK, NoOrphanClaim, NEW t \in Threads, Commit(t) PROVE NoOrphanClaim'
    BY <1>8 DEF Commit
  <1>9. ASSUME TypeOK, NoOrphanClaim, NEW t \in Threads, ReadUnlock(t) PROVE NoOrphanClaim'
    BY <1>9 DEF ReadUnlock
  <1>10. ASSUME TypeOK, NoOrphanClaim, NEW t \in Threads, Release(t) PROVE NoOrphanClaim'
    BY <1>10 DEF Release
  <1>11. ASSUME TypeOK, NoOrphanClaim, NEW t \in Threads, Enable(t) PROVE NoOrphanClaim'
    BY <1>11 DEF Enable
  <1>12. ASSUME TypeOK, NoOrphanClaim, NEW t \in Threads, NEW r \in Requests, Discard(t, r) PROVE NoOrphanClaim'
    BY <1>12 DEF Discard, Begin
  <1>13. ASSUME TypeOK, NoOrphanClaim, NEW t \in Threads, NEW r \in Requests, Respond(t, r) PROVE NoOrphanClaim'
    BY <1>13 DEF Respond, Begin, CanRespond
  <1>14. ASSUME TypeOK, NoOrphanClaim, NEW t \in Threads, Acquire(t) PROVE NoOrphanClaim'
    BY <1>14 DEF Acquire
  <1>15. ASSUME TypeOK, NoOrphanClaim, NEW t \in Threads, ReadStatus(t) PROVE NoOrphanClaim'
    BY <1>15 DEF ReadStatus
  <1>16. ASSUME TypeOK, NoOrphanClaim, NEW t \in Threads, WaitEval(t) PROVE NoOrphanClaim'
    BY <1>16 DEF WaitEval, Decide
  <1>17. ASSUME TypeOK, NoOrphanClaim, NEW t \in Threads, Expire(t) PROVE NoOrphanClaim'
    BY <1>17 DEF Expire
  <1>18. ASSUME TypeOK, NoOrphanClaim, NEW t \in Threads, TimedOut(t) PROVE NoOrphanClaim'
    BY <1>18 DEF TimedOut
  <1>19. ASSUME TypeOK, NoOrphanClaim, NEW t \in Threads, ShutdownCheck(t) PROVE NoOrphanClaim'
    BY <1>19 DEF ShutdownCheck
  <1>20. ASSUME TypeOK, NoOrphanClaim, NEW t \in Threads, FinalEval(t) PROVE NoOrphanClaim'
    BY <1>20 DEF FinalEval, Decide
  <1>21. ASSUME TypeOK, NoOrphanClaim, NEW t \in Threads, Write(t) PROVE NoOrphanClaim'
    BY <1>21 DEF Write
  <1>22. ASSUME TypeOK, NoOrphanClaim, NEW t \in Threads, Restore(t) PROVE NoOrphanClaim'
    BY <1>22 DEF Restore, Reset
  <1>23. ASSUME TypeOK, NoOrphanClaim, NEW q \in Targeted, Match(q) PROVE NoOrphanClaim'
    BY <1>23 DEF Match, NotifyAll
  <1>24. ASSUME TypeOK, NoOrphanClaim, NEW q \in Targeted, Discover(q) PROVE NoOrphanClaim'
    BY <1>24 DEF Discover, NotifyAll
  <1>25. ASSUME TypeOK, NoOrphanClaim, NEW s \in Samples, Arrive(s) PROVE NoOrphanClaim'
    BY <1>25 DEF Arrive
  <1>26. ASSUME TypeOK, NoOrphanClaim, Lose PROVE NoOrphanClaim'
    BY <1>26 DEF Lose
  <1>27. ASSUME TypeOK, NoOrphanClaim, Shutdown PROVE NoOrphanClaim'
    BY <1>27 DEF Shutdown
  <1>28. ASSUME NoOrphanClaim, UNCHANGED vars PROVE NoOrphanClaim'
    BY <1>28 DEF vars
  <1>29. QED
    BY <1>1, <1>2, <1>3, <1>4, <1>5, <1>6, <1>7, <1>8, <1>9, <1>10, <1>11, <1>12, <1>13,
       <1>14, <1>15, <1>16, <1>17, <1>18, <1>19, <1>20, <1>21, <1>22, <1>23, <1>24,
       <1>25, <1>26, <1>27, <1>28 DEF Next, Call, Step, ReadStep, RespondStep

\* A claim always has a thread that will resolve it, whatever write, target wait or
\* shutdown fails: NoOrphanClaim for any number of threads and requests.
THEOREM ClaimsHaveOwners == Spec => []NoOrphanClaim
  <1>1. Init => NoOrphanClaim
    BY DEF Init, NoOrphanClaim
  <1>2. QED
    BY <1>1, ServerTypeCorrect, NextClaim, PTL DEF Spec

-----------------------------------------------------------------------------
(* The capacity flag: the reader of a table with room hears the next       *)
(* request, for a table of any size.                                       *)

\* What a reader that holds a reservation knows of the table: when its own did
\* not fill it, nothing has since, for nobody else reserves.
ReadersKnow == \A t \in Threads : pc[t] \in ReservedPcs /\ ~full[t] => Used < MaxPending
RoomInv == RoomEnables /\ ReadersKnow

LEMMA UsedIsNumber ==
    /\ TableType => Used \in Nat
    /\ TableType' => Used' \in Nat
<1>1. Pending' \subseteq Requests
  BY DEF Pending
<1>2. Cardinality(Pending') \in Nat
  BY <1>1, ServerAssumption, FS_Subset, FS_CardinalityType
<1> QED
  BY <1>2, PendingCard DEF TableType, Used

\* A step that only gives slots back, and enables the reader when the table was full.
LEMMA FreeingKeepsRoom ==
    ASSUME RoomInv, Used \in Nat, Used' \in Nat, Used' <= Used, MaxPending \in Nat,
           UNCHANGED <<full, blocking, overtaken>>,
           \/ Used' = Used \/ Used < MaxPending
           \/ \E t \in Threads : pc'[t] = "enable",
           \A u \in Threads :
               /\ pc[u] \in {"disable", "enable"} => pc'[u] \in {"disable", "enable"}
               /\ pc'[u] \in ReservedPcs => pc[u] \in ReservedPcs
    PROVE  RoomInv'
<1>1. ReadersKnow'
  BY DEF RoomInv, ReadersKnow
<1>2. CASE \E t \in Threads : pc'[t] = "enable"
  BY <1>1, <1>2 DEF RoomInv, RoomEnables
<1>3. CASE Used' = Used \/ Used < MaxPending
  <2>1. RoomEnables'
    BY <1>3 DEF RoomInv, RoomEnables
  <2> QED
    BY <1>1, <2>1 DEF RoomInv
<1> QED
  BY <1>2, <1>3

\* A step that leaves the table and the flag alone, and neither reserves nor enables.
LEMMA ElsewhereKeepsRoom ==
    ASSUME RoomInv, UNCHANGED <<full, blocking, overtaken, reservations>>, Pending' = Pending,
           \A u \in Threads :
               /\ pc[u] \in {"disable", "enable"} => pc'[u] \in {"disable", "enable"}
               /\ pc'[u] \in ReservedPcs => pc[u] \in ReservedPcs
    PROVE  RoomInv'
<1>1. Used' = Used
  BY DEF Used
<1> QED
  BY <1>1 DEF RoomInv, RoomEnables, ReadersKnow

\* Every step keeps RoomInv: whoever frees a slot of a full table enables the reader,
\* and a Disable that comes after that is the one RoomEnables excuses.
LEMMA NextRoom ==
    ASSUME IInv, IInv', RoomInv, [Next]_vars
    PROVE  RoomInv'
<1>1. /\ phase \in [Requests -> {"none", "Pending", "Responding"}] /\ reservations \in Nat
      /\ full \in [Threads -> BOOLEAN] /\ pc \in [Threads -> Pcs]
      /\ after \in [Threads -> {"idle", "reserve", "read_unlock", "restore_guard"}]
      /\ req \in [Threads -> Requests]
  BY DEF IInv, TypeOK, TableType, CallType, PcType
<1>2. /\ Used \in Nat /\ Used' \in Nat /\ MaxPending \in Nat
      /\ Used <= MaxPending /\ Used' <= MaxPending
      /\ Used = Cardinality(Pending) + reservations /\ Cardinality(Pending) \in Nat
      /\ Used' = Cardinality(Pending') + reservations'
  BY UsedIsNumber, PendingCard, ServerAssumption DEF IInv, TypeOK, CapacityBound, Used
<1>3. ASSUME NEW t \in Threads, NEW u \in Threads, pc[t] = "reserve", pc[u] \in ReservedPcs
      PROVE  FALSE
  <2>1. readLock = t /\ readLock = u
    BY <1>3 DEF IInv, ReservationInv, LockHeld, InRead, ReadPcs
  <2> QED
    BY <1>3, <2>1 DEF ReservedPcs
<1>4. ASSUME NEW t \in Threads, Reserve(t)
      PROVE  RoomInv'
  <2>1. CASE left[t] = 0 \/ ~HasRoom
    <3>1. UNCHANGED <<full, blocking, overtaken, reservations, phase>> /\ Goto(t, "read_unlock")
          /\ pc[t] = "reserve"
      BY <1>4, <2>1 DEF Reserve, flagVars
    <3> QED
      BY <1>1, <3>1, ElsewhereKeepsRoom DEF Goto, Pending, ReservedPcs
  <2>2. CASE ~(left[t] = 0 \/ ~HasRoom)
    <3>1. /\ reservations' = reservations + 1 /\ full' = [full EXCEPT ![t] = (Used + 1 = MaxPending)]
          /\ Goto(t, IF Used + 1 = MaxPending THEN "disable" ELSE "take")
          /\ UNCHANGED <<phase, blocking, overtaken>> /\ pc[t] = "reserve"
      BY <1>4, <2>2 DEF Reserve, flagVars
    <3>2. Used' = Used + 1
      <4>1. Pending' = Pending
        BY <3>1 DEF Pending
      <4> QED
        BY <1>1, <1>2, <3>1, <4>1
    <3>3. full'[t] = (Used + 1 = MaxPending) /\ \A u \in Threads : u # t => pc'[u] = pc[u]
      BY <1>1, <3>1 DEF Goto
    <3>4. Used < MaxPending
      BY <2>2 DEF HasRoom
    <3>5. ReadersKnow'
      <4> SUFFICES ASSUME NEW u \in Threads, pc'[u] \in ReservedPcs, ~full'[u]
                   PROVE  Used' < MaxPending
        BY DEF ReadersKnow
      <4>1. u = t
        BY <1>3, <3>1, <3>3
      <4>2. Used + 1 # MaxPending
        BY <3>3, <4>1
      <4> QED
        BY <1>2, <3>2, <3>4, <4>2
    <3>6. RoomEnables'
      <4>1. CASE Used + 1 = MaxPending
        BY <1>2, <3>2, <4>1 DEF RoomEnables
      <4>2. CASE Used + 1 # MaxPending
        <5>1. \A u \in Threads : pc[u] \in {"disable", "enable"} => pc'[u] \in {"disable", "enable"}
          BY <3>1, <3>3
        <5> QED
          BY <3>1, <3>4, <5>1 DEF RoomInv, RoomEnables
      <4> QED
        BY <4>1, <4>2
    <3> QED
      BY <3>5, <3>6 DEF RoomInv
  <2> QED
    BY <2>1, <2>2
<1>5. ASSUME NEW t \in Threads, Disable(t)
      PROVE  RoomInv'
  <2>1. /\ pc[t] = "disable" /\ pc'[t] = "take" /\ full' = full
        /\ \A u \in Threads : u # t => pc'[u] = pc[u]
        /\ overtaken' = (Used < MaxPending /\ \A u \in Threads : pc[u] # "enable")
    BY <1>1, <1>5 DEF Disable, Goto, callVars
  <2>2. Used' = Used
    BY <1>5 DEF Disable, tableVars, Used, Pending
  <2>3. ReadersKnow'
    BY <2>1, <2>2 DEF RoomInv, ReadersKnow, ReservedPcs
  <2>4. RoomEnables'
    BY <2>1, <2>2 DEF RoomEnables
  <2> QED
    BY <2>3, <2>4 DEF RoomInv
<1>6. ASSUME NEW t \in Threads, Unreserve(t)
      PROVE  RoomInv'
  <2>1. /\ UNCHANGED <<full, blocking, overtaken, phase>> /\ pc[t] = "unreserve"
        /\ reservations' = reservations - 1
    BY <1>6 DEF Unreserve, callVars, flagVars
  <2>2. Used' = Used - 1
    <3>1. Pending' = Pending
      BY <2>1 DEF Pending
    <3> QED
      BY <1>1, <1>2, <2>1, <3>1
  <2>3. /\ pc'[t] = IF Used = MaxPending THEN "enable" ELSE after[t]
        /\ \A u \in Threads : u # t => pc'[u] = pc[u]
    BY <1>1, <1>6 DEF Unreserve, Goto
  <2>4. Used < MaxPending \/ \E u \in Threads : pc'[u] = "enable"
    BY <1>2, <2>3
  <2>5. after[t] \notin ReservedPcs
    BY <1>1 DEF ReservedPcs
  <2>6. \A u \in Threads :
          /\ pc[u] \in {"disable", "enable"} => pc'[u] \in {"disable", "enable"}
          /\ pc'[u] \in ReservedPcs => pc[u] \in ReservedPcs
    BY <2>1, <2>3, <2>5 DEF ReservedPcs
  <2>7. Used' <= Used
    BY <1>2, <2>2
  <2> QED
    BY <1>2, <2>1, <2>4, <2>6, <2>7, FreeingKeepsRoom
<1>7. ASSUME NEW t \in Threads, Insert(t)
      PROVE  RoomInv'
  <2>1. /\ UNCHANGED <<full, blocking, overtaken>> /\ pc[t] = "insert"
        /\ reservations' = reservations - 1 /\ req[t] \in Requests
    BY <1>1, <1>7 DEF Insert, flagVars
  <2>2. \E l \in {"commit", "enable", "reserve", "read_unlock"} : Goto(t, l)
    BY <1>7 DEF Insert, AfterDuplicate
  <2>3. /\ pc'[t] \in {"commit", "enable", "reserve", "read_unlock"}
        /\ \A u \in Threads : u # t => pc'[u] = pc[u]
    BY <1>1, <2>2 DEF Goto
  <2>4. \A u \in Threads :
          /\ pc[u] \in {"disable", "enable"} => pc'[u] \in {"disable", "enable"}
          /\ pc'[u] \in ReservedPcs => pc[u] \in ReservedPcs
    BY <2>1, <2>3 DEF ReservedPcs
  <2>5. CASE phase[req[t]] = "none" /\ phase' = [phase EXCEPT ![req[t]] = "Pending"]
    <3>1. Cardinality(Pending') = Cardinality(Pending) + 1
      BY <1>1, <2>1, <2>5, PendingGrows
    <3>2. Used' = Used
      BY <1>1, <1>2, <2>1, <3>1
    <3>3. Used' <= Used
      BY <1>2, <3>2
    <3> QED
      BY <1>2, <2>1, <2>4, <3>2, <3>3, FreeingKeepsRoom
  <2>6. CASE phase' = phase /\ Goto(t, IF full[t] THEN "enable" ELSE "reserve")
    <3>1. Pending' = Pending
      BY <2>6 DEF Pending
    <3>2. Used' <= Used
      BY <1>1, <1>2, <2>1, <3>1
    <3>3. full[t] => pc'[t] = "enable"
      BY <1>1, <2>6 DEF Goto
    <3>4. ~full[t] => Used < MaxPending
      BY <2>1 DEF RoomInv, ReadersKnow, ReservedPcs
    <3>5. Used < MaxPending \/ \E u \in Threads : pc'[u] = "enable"
      BY <3>3, <3>4
    <3> QED
      BY <1>2, <2>1, <2>4, <3>2, <3>5, FreeingKeepsRoom
  <2>7. CASE phase' = phase /\ Goto(t, IF full[t] THEN "enable" ELSE "read_unlock")
    <3>1. Pending' = Pending
      BY <2>7 DEF Pending
    <3>2. Used' <= Used
      BY <1>1, <1>2, <2>1, <3>1
    <3>3. full[t] => pc'[t] = "enable"
      BY <1>1, <2>7 DEF Goto
    <3>4. ~full[t] => Used < MaxPending
      BY <2>1 DEF RoomInv, ReadersKnow, ReservedPcs
    <3>5. Used < MaxPending \/ \E u \in Threads : pc'[u] = "enable"
      BY <3>3, <3>4
    <3> QED
      BY <1>2, <2>1, <2>4, <3>2, <3>5, FreeingKeepsRoom
  <2> QED
    BY <1>7, <2>5, <2>6, <2>7 DEF Insert, AfterDuplicate
<1>8. ASSUME NEW t \in Threads,
             \/ Release(t)
             \/ \E r \in Requests : Discard(t, r)
      PROVE  RoomInv'
  <2>1. /\ UNCHANGED <<full, blocking, overtaken, reservations>>
        /\ pc[t] \in {"release", "idle"}
        /\ \E r \in Requests : phase' = [phase EXCEPT ![r] = "none"]
        /\ \E l \in {"idle", after[t]} : Goto(t, IF WasFull THEN "enable" ELSE l)
    BY <1>1, <1>8 DEF Release, Discard, Begin, callVars, flagVars
  <2>2. Cardinality(Pending') <= Cardinality(Pending)
    <3>1. \A q \in Requests : phase'[q] # "none" => phase[q] # "none"
      BY <1>1, <2>1
    <3> QED
      BY <3>1, PendingShrinks
  <2>3. Cardinality(Pending') \in Nat
    <3>1. Pending' \subseteq Requests
      BY DEF Pending
    <3> QED
      BY <3>1, ServerAssumption, FS_Subset, FS_CardinalityType
  <2>4. Used' <= Used
    BY <1>1, <1>2, <2>1, <2>2, <2>3
  <2>5. /\ WasFull => pc'[t] = "enable"
        /\ pc'[t] \in {"idle", "enable", after[t]}
        /\ \A u \in Threads : u # t => pc'[u] = pc[u]
    BY <1>1, <2>1 DEF Goto
  <2>6. Used < MaxPending \/ \E u \in Threads : pc'[u] = "enable"
    BY <1>2, <2>5 DEF WasFull
  <2>7. after[t] \notin ReservedPcs
    BY <1>1 DEF ReservedPcs
  <2>8. \A u \in Threads :
          /\ pc[u] \in {"disable", "enable"} => pc'[u] \in {"disable", "enable"}
          /\ pc'[u] \in ReservedPcs => pc[u] \in ReservedPcs
    BY <2>1, <2>5, <2>7 DEF ReservedPcs
  <2> QED
    BY <1>2, <2>1, <2>4, <2>6, <2>8, FreeingKeepsRoom
<1>9. ASSUME NEW t \in Threads, Enable(t)
      PROVE  RoomInv'
  <2>1. blocking' = TRUE /\ full' = full /\ pc'[t] = after[t]
        /\ \A u \in Threads : u # t => pc'[u] = pc[u]
    BY <1>1, <1>9 DEF Enable, Goto, callVars
  <2>2. Used' = Used
    BY <1>9 DEF Enable, tableVars, Used, Pending
  <2>3. after[t] \notin ReservedPcs
    BY <1>1 DEF ReservedPcs
  <2>4. ReadersKnow'
    BY <2>1, <2>2, <2>3 DEF RoomInv, ReadersKnow
  <2> QED
    BY <2>1, <2>4 DEF RoomInv, RoomEnables
<1>11. ASSUME NEW t \in Threads, NEW r \in Requests, Respond(t, r)
       PROVE  RoomInv'
  <2>1. UNCHANGED <<full, blocking, overtaken, reservations>>
    BY <1>11 DEF Respond, flagVars
  <2>2. Pending' = Pending
    BY <1>1, <1>11 DEF Respond, CanRespond, Pending
  <2>3. pc[t] = "idle" /\ pc'[t] = "claimed" /\ \A u \in Threads : u # t => pc'[u] = pc[u]
    BY <1>1, <1>11 DEF Respond, Begin, Goto
  <2> QED
    BY <2>1, <2>2, <2>3, ElsewhereKeepsRoom DEF ReservedPcs
<1>12. ASSUME NEW t \in Threads, Restore(t)
       PROVE  RoomInv'
  <2>1. UNCHANGED <<full, blocking, overtaken, reservations>>
    BY <1>12 DEF Restore, callVars, flagVars
  <2>2. Pending' = Pending
    BY <1>1, <1>12 DEF Restore, Reset, Pending
  <2>3. /\ pc[t] \notin {"disable", "enable"} /\ pc'[t] \in {"restore_guard", "idle"}
        /\ \A u \in Threads : u # t => pc'[u] = pc[u]
    BY <1>1, <1>12 DEF Restore, Goto
  <2> QED
    BY <2>1, <2>2, <2>3, ElsewhereKeepsRoom DEF ReservedPcs
<1>13. ASSUME NEW t \in Threads, Take(t)
       PROVE  RoomInv'
  <2>1. UNCHANGED <<full, blocking, overtaken, phase, reservations>> /\ pc[t] = "take"
    BY <1>13 DEF Take, flagVars
  <2>2. \A u \in Threads : u # t => pc'[u] = pc[u]
    BY <1>1, <1>13 DEF Take, Goto
  <2> QED
    BY <2>1, <2>2, ElsewhereKeepsRoom DEF ReservedPcs, Pending
<1>14. ASSUME NEW t \in Threads,
              Read(t) \/ ReadLock(t) \/ Commit(t) \/ ReadUnlock(t) \/ Acquire(t) \/ ReadStatus(t)
              \/ WaitEval(t) \/ TimedOut(t) \/ ShutdownCheck(t) \/ FinalEval(t) \/ Write(t)
       PROVE  RoomInv'
  <2>1. UNCHANGED <<full, blocking, overtaken, phase, reservations>>
    BY <1>14 DEF Read, ReadLock, Commit, ReadUnlock, Acquire, ReadStatus, WaitEval, TimedOut,
                 ShutdownCheck, FinalEval, Write, callVars, flagVars, tableVars
  <2>2. \E l \in Pcs \ (ReservedPcs \union {"enable"}) : Goto(t, l)
    BY <1>14 DEF Read, ReadLock, Commit, ReadUnlock, Acquire, ReadStatus, WaitEval, TimedOut,
                 ShutdownCheck, FinalEval, Write, Decide, Pcs, ReadPcs, ClaimPcs, ReservedPcs
  <2>3. pc[t] \notin {"disable", "enable"}
    BY <1>14 DEF Read, Begin, ReadLock, Commit, ReadUnlock, Acquire, ReadStatus, WaitEval,
                 TimedOut, ShutdownCheck, FinalEval, Write
  <2>4. pc'[t] \notin ReservedPcs /\ \A u \in Threads : u # t => pc'[u] = pc[u]
    BY <1>1, <2>2 DEF Goto
  <2> QED
    BY <2>1, <2>3, <2>4, ElsewhereKeepsRoom DEF Pending
<1>15. ASSUME \/ \E t \in Threads : Expire(t)
              \/ \E s \in Samples : Arrive(s)
              \/ Lose \/ Shutdown
              \/ UNCHANGED vars
       PROVE  RoomInv'
  <2>1. UNCHANGED <<full, blocking, overtaken, phase, reservations, pc>>
    BY <1>15 DEF Expire, Arrive, Lose, Shutdown, vars, callVars, flagVars, tableVars
  <2> QED
    BY <2>1, ElsewhereKeepsRoom DEF Pending
<1>16. ASSUME NEW r \in Targeted, Match(r) \/ Discover(r)
       PROVE  RoomInv'
  <2>1. UNCHANGED <<full, blocking, overtaken, phase, reservations>> /\ NotifyAll
    BY <1>16 DEF Match, Discover, callVars, flagVars, tableVars
  <2>2. \A u \in Threads : pc'[u] = pc[u] \/ (pc[u] = "asleep" /\ pc'[u] = "wait_status")
    BY <2>1 DEF NotifyAll
  <2> QED
    BY <2>1, <2>2, ElsewhereKeepsRoom DEF Pending, ReservedPcs
<1> QED
  BY <1>4, <1>5, <1>6, <1>7, <1>8, <1>9, <1>11, <1>12, <1>13, <1>14, <1>15, <1>16
     DEF Next, Call, Step, ReadStep, RespondStep

\* A server starts with a reader that takes part.
LEMMA InitRoom == Init => RoomInv
BY DEF Init, RoomInv, RoomEnables, ReadersKnow, ReservedPcs

\* A server that has room hears the next request, unless its enabled reader was
\* disabled by a decision taken earlier (server_impl.cpp:141-163, 236-249). It holds
\* for a table of any size and any number of threads.
THEOREM RoomIsHeard == Spec => []RoomEnables
<1>1. Init => IInv /\ RoomInv
  BY InitInv, InitRoom
<1>2. IInv /\ RoomInv /\ [Next]_vars => (IInv /\ RoomInv)'
  BY NextInv, NextRoom
<1>3. IInv /\ RoomInv => RoomEnables
  BY DEF RoomInv
<1> QED
  BY <1>1, <1>2, <1>3, PTL DEF Spec

-----------------------------------------------------------------------------
(* The wait for a service (ServiceWait).                                  *)

Tallies == [Servers -> [Sides -> Nat]]

\* What has been reported of an endpoint is bounded by what has happened: the
\* report that comes second is of an event that the first one counted.
Counted(p, s) ==
    /\ matches[p][s] + (IF MatchFirst THEN 0 ELSE adding[p][s]) <= events
    /\ known[p][s] + (IF MatchFirst THEN adding[p][s] ELSE 0) <= events
    /\ adding[p][s] <= events /\ removing[p][s] <= events
    /\ MatchFirst => removing[p][s] <= known[p][s]

ReportsInv ==
    /\ matches \in Tallies /\ known \in Tallies /\ adding \in Tallies /\ removing \in Tallies
    /\ events \in 0..MaxEvents
    /\ \A p \in Servers, s \in Sides : Counted(p, s)

WaitersInv ==
    /\ matchDegraded \in BOOLEAN /\ associated \subseteq Servers /\ healthy \in BOOLEAN
    /\ owed \in Nat /\ unread \subseteq Servers
    /\ revision \in Nat /\ generation \in Nat /\ notified \subseteq Waiters
    /\ isShutdown \in {"running", "requested", "notified"}
    /\ waiterPc \in [Waiters -> {"idle", "prepared", "check", "query", "pair", "recheck", "asleep"}]
    /\ token \in [Waiters -> Nat] /\ observed \in [Waiters -> Nat]
    /\ snapshot \in [Waiters -> [Servers -> Counts]]
    /\ kind \in [Waiters -> Kinds]
    /\ waits \in [Waiters -> 0..MaxWaits]

ServiceInv == ReportsInv /\ WaitersInv /\ SleepMissesNothing

\* One report more or less of one side of one participant.
LEMMA Tallied ==
    ASSUME NEW f \in Tallies, NEW p \in Servers, NEW s \in Sides
    PROVE  /\ Plus(f, p, s) \in Tallies
           /\ f[p][s] > 0 => Minus(f, p, s) \in Tallies
           /\ \A q \in Servers, r \in Sides :
                 /\ Plus(f, p, s)[q][r] = IF q = p /\ r = s THEN f[q][r] + 1 ELSE f[q][r]
                 /\ Minus(f, p, s)[q][r] = IF q = p /\ r = s THEN f[q][r] - 1 ELSE f[q][r]
<1>1. \A q \in Servers : f[q] \in [Sides -> Nat]
  BY DEF Tallies
<1>2. /\ Plus(f, p, s) = [q \in Servers |-> IF q = p THEN [f[p] EXCEPT ![s] = @ + 1] ELSE f[q]]
      /\ Minus(f, p, s) = [q \in Servers |-> IF q = p THEN [f[p] EXCEPT ![s] = @ - 1] ELSE f[q]]
  BY DEF Tallies, Plus, Minus
<1>3. [f[p] EXCEPT ![s] = @ + 1] = [r \in Sides |-> IF r = s THEN f[p][r] + 1 ELSE f[p][r]]
  BY <1>1
<1>4. [f[p] EXCEPT ![s] = @ - 1] = [r \in Sides |-> IF r = s THEN f[p][r] - 1 ELSE f[p][r]]
  BY <1>1
<1>5. [r \in Sides |-> IF r = s THEN f[p][r] + 1 ELSE f[p][r]] \in [Sides -> Nat]
  BY <1>1
<1>6. Plus(f, p, s) \in Tallies
  BY <1>1, <1>2, <1>3, <1>5 DEF Tallies
<1>7. ASSUME f[p][s] > 0
      PROVE  Minus(f, p, s) \in Tallies
  <2>1. [r \in Sides |-> IF r = s THEN f[p][r] - 1 ELSE f[p][r]] \in [Sides -> Nat]
    BY <1>1, <1>7
  <2> QED
    BY <1>1, <1>2, <1>4, <2>1 DEF Tallies
<1>8. ASSUME NEW q \in Servers, NEW r \in Sides
      PROVE  /\ Plus(f, p, s)[q][r] = IF q = p /\ r = s THEN f[q][r] + 1 ELSE f[q][r]
             /\ Minus(f, p, s)[q][r] = IF q = p /\ r = s THEN f[q][r] - 1 ELSE f[q][r]
  BY <1>2, <1>3, <1>4
<1> QED
  BY <1>6, <1>7, <1>8

\* Nothing is reported and nobody waits at first.
LEMMA ServiceInitInv == ServiceInit => ServiceInv
<1> SUFFICES ASSUME ServiceInit
             PROVE  ServiceInv
  OBVIOUS
<1>1. MaxEvents \in Nat /\ MaxWaits \in Nat
  BY ServiceAssumption
<1>2. NoMatch \in Tallies /\ NoMatch \in [Servers -> Counts]
      /\ \A p \in Servers, s \in Sides : NoMatch[p][s] = 0
  BY <1>1 DEF NoMatch, Tallies, Counts
<1>3. ReportsInv
  BY <1>1, <1>2 DEF ServiceInit, ReportsInv, Counted
<1>4. WaitersInv
  <2>1. /\ kind \in [Waiters -> Kinds] /\ waits \in [Waiters -> 0..MaxWaits]
        /\ snapshot \in [Waiters -> [Servers -> Counts]]
    BY <1>1, <1>2 DEF ServiceInit, Kinds
  <2> QED
    BY <2>1 DEF ServiceInit, WaitersInv
<1>5. SleepMissesNothing
  BY DEF ServiceInit, SleepMissesNothing, Asleep
<1> QED
  BY <1>3, <1>4, <1>5 DEF ServiceInv

\* What an endpoint event keeps.
LEMMA EndpointKeepsReports ==
    ASSUME ReportsInv, healthy \in BOOLEAN, NEW p \in Servers, NEW s \in Sides, Endpoint(p, s)
    PROVE  ReportsInv'
<1>1. MaxEvents \in Nat /\ MatchFirst \in BOOLEAN
  BY ServiceAssumption
<1>2. /\ matches \in Tallies /\ known \in Tallies /\ adding \in Tallies /\ removing \in Tallies
      /\ events \in 0..MaxEvents
      /\ \A q \in Servers, r \in Sides : Counted(q, r)
  BY DEF ReportsInv
<1>3. \A f \in Tallies : \A q \in Servers, r \in Sides : f[q][r] \in Nat
  BY DEF Tallies
<1>4. CASE MatchServer(p, s)
  <2>1. matches' = Plus(matches, p, s) /\ UNCHANGED known
    BY <1>4 DEF MatchServer
  <2>2. CASE MatchFirst
    <3>1. adding' = Plus(adding, p, s) /\ UNCHANGED removing /\ events < MaxEvents
          /\ events' = events + 1
      BY <1>4, <2>2 DEF MatchServer, FirstAdd, Event
    <3>2. ASSUME NEW q \in Servers, NEW r \in Sides
          PROVE  Counted(q, r)'
      <4>1. /\ matches'[q][r] = IF q = p /\ r = s THEN matches[q][r] + 1 ELSE matches[q][r]
            /\ known'[q][r] = known[q][r]
            /\ adding'[q][r] = IF q = p /\ r = s THEN adding[q][r] + 1 ELSE adding[q][r]
            /\ removing'[q][r] = removing[q][r]
        BY SMTT(30), <1>2, <1>3, <2>1, <2>2, <3>1, Tallied
      <4>2. /\ matches[q][r] \in Nat /\ known[q][r] \in Nat
            /\ adding[q][r] \in Nat /\ removing[q][r] \in Nat /\ events \in Nat
        BY <1>2, <1>3
      <4>3. Counted(q, r)
        BY <1>2
      <4>4. /\ adding[p][s] \in Nat /\ removing[p][s] \in Nat /\ known[p][s] \in Nat
        BY <1>2, <1>3
      <4> QED
        BY <1>1, <4>1, <4>2, <4>3, <4>4, <2>2, <3>1 DEF Counted
    <3> QED
      BY <1>1, <1>2, <2>1, <3>1, <3>2, Tallied DEF ReportsInv
  <2>3. CASE ~MatchFirst
    <3>1. adding[p][s] > 0 /\ adding' = Minus(adding, p, s) /\ UNCHANGED <<removing, events>>
      BY <1>4, <2>3 DEF MatchServer, SecondAdd
    <3>2. ASSUME NEW q \in Servers, NEW r \in Sides
          PROVE  Counted(q, r)'
      <4>1. /\ matches'[q][r] = IF q = p /\ r = s THEN matches[q][r] + 1 ELSE matches[q][r]
            /\ known'[q][r] = known[q][r]
            /\ adding'[q][r] = IF q = p /\ r = s THEN adding[q][r] - 1 ELSE adding[q][r]
            /\ removing'[q][r] = removing[q][r]
        BY SMTT(30), <1>2, <1>3, <2>1, <2>3, <3>1, Tallied
      <4>2. /\ matches[q][r] \in Nat /\ known[q][r] \in Nat
            /\ adding[q][r] \in Nat /\ removing[q][r] \in Nat /\ events \in Nat
        BY <1>2, <1>3
      <4>3. Counted(q, r)
        BY <1>2
      <4>4. /\ adding[p][s] \in Nat /\ removing[p][s] \in Nat /\ known[p][s] \in Nat
        BY <1>2, <1>3
      <4> QED
        BY <1>1, <4>1, <4>2, <4>3, <4>4, <2>3, <3>1 DEF Counted
    <3> QED
      BY <1>1, <1>2, <2>1, <3>1, <3>2, Tallied DEF ReportsInv
  <2> QED
    BY <2>2, <2>3
<1>5. CASE Unmatch(p, s)
  <2>1. matches' = Unmatched(p, s) /\ UNCHANGED known
    BY <1>5 DEF Unmatch
  <2>2. matches' \in Tallies /\ \A q \in Servers, r \in Sides : matches'[q][r] <= matches[q][r]
    <3>1. CASE matches[p][s] = 0
      BY <1>2, <1>3, <2>1, <3>1 DEF Unmatched
    <3>2. CASE matches[p][s] # 0
      <4>1. matches[p][s] > 0
        BY <1>2, <1>3, <3>2
      <4>2. matches' = Minus(matches, p, s)
        BY <2>1, <3>2 DEF Unmatched
      <4>3. matches' \in Tallies
        BY <1>2, <4>1, <4>2, Tallied
      <4>4. ASSUME NEW q \in Servers, NEW r \in Sides
            PROVE  matches'[q][r] <= matches[q][r]
        <5>1. matches'[q][r] = IF q = p /\ r = s THEN matches[q][r] - 1 ELSE matches[q][r]
          BY <1>2, <4>2, Tallied
        <5>2. matches[q][r] \in Nat
          BY <1>2, <1>3
        <5> QED
          BY <5>1, <5>2
      <4> QED
        BY <4>3, <4>4
    <3> QED
      BY <3>1, <3>2
  <2>3. CASE MatchFirst
    <3>1. removing' = Plus(removing, p, s) /\ UNCHANGED adding /\ events < MaxEvents
          /\ events' = events + 1 /\ removing[p][s] < known[p][s]
      BY <1>5, <2>3 DEF Unmatch, FirstRemove, Event
    <3>2. ASSUME NEW q \in Servers, NEW r \in Sides
          PROVE  Counted(q, r)'
      <4>1. /\ matches'[q][r] <= matches[q][r] /\ matches'[q][r] \in Nat
            /\ known'[q][r] = known[q][r]
            /\ adding'[q][r] = adding[q][r]
            /\ removing'[q][r] = IF q = p /\ r = s THEN removing[q][r] + 1 ELSE removing[q][r]
        BY SMTT(30), <1>2, <1>3, <2>1, <2>2, <2>3, <3>1, Tallied
      <4>2. /\ matches[q][r] \in Nat /\ known[q][r] \in Nat
            /\ adding[q][r] \in Nat /\ removing[q][r] \in Nat /\ events \in Nat
        BY <1>2, <1>3
      <4>3. Counted(q, r)
        BY <1>2
      <4>4. /\ adding[p][s] \in Nat /\ removing[p][s] \in Nat /\ known[p][s] \in Nat
        BY <1>2, <1>3
      <4> QED
        BY <1>1, <4>1, <4>2, <4>3, <4>4, <2>2, <2>3, <3>1 DEF Counted
    <3> QED
      BY <1>1, <1>2, <2>1, <2>2, <3>1, <3>2, Tallied DEF ReportsInv
  <2>4. CASE ~MatchFirst
    <3>1. removing[p][s] > 0 /\ removing' = Minus(removing, p, s) /\ UNCHANGED <<adding, events>>
      BY <1>5, <2>4 DEF Unmatch, SecondRemove
    <3>2. ASSUME NEW q \in Servers, NEW r \in Sides
          PROVE  Counted(q, r)'
      <4>1. /\ matches'[q][r] <= matches[q][r] /\ matches'[q][r] \in Nat
            /\ known'[q][r] = known[q][r]
            /\ adding'[q][r] = adding[q][r]
            /\ removing'[q][r] = IF q = p /\ r = s THEN removing[q][r] - 1 ELSE removing[q][r]
        BY SMTT(30), <1>2, <1>3, <2>1, <2>2, <2>4, <3>1, Tallied
      <4>2. /\ matches[q][r] \in Nat /\ known[q][r] \in Nat
            /\ adding[q][r] \in Nat /\ removing[q][r] \in Nat /\ events \in Nat
        BY <1>2, <1>3
      <4>3. Counted(q, r)
        BY <1>2
      <4>4. /\ adding[p][s] \in Nat /\ removing[p][s] \in Nat /\ known[p][s] \in Nat
        BY <1>2, <1>3
      <4> QED
        BY <1>1, <4>1, <4>2, <4>3, <4>4, <2>2, <2>4, <3>1 DEF Counted
    <3> QED
      BY <1>1, <1>2, <2>1, <2>2, <3>1, <3>2, Tallied DEF ReportsInv
  <2> QED
    BY <2>3, <2>4
<1>6. CASE GraphAdd(p, s)
  <2>1. UNCHANGED matches /\ (known' = known \/ known' = Plus(known, p, s))
    BY <1>6 DEF GraphAdd, GraphCommit, requestVars
  <2>2. CASE MatchFirst
    <3>1. adding[p][s] > 0 /\ adding' = Minus(adding, p, s) /\ UNCHANGED <<removing, events>>
      BY <1>6, <2>2 DEF GraphAdd, SecondAdd
    <3>2. ASSUME NEW q \in Servers, NEW r \in Sides
          PROVE  Counted(q, r)'
      <4>1. /\ matches'[q][r] = matches[q][r]
            /\ known'[q][r] = known[q][r] \/ known'[q][r] = IF q = p /\ r = s THEN known[q][r] + 1 ELSE known[q][r]
            /\ adding'[q][r] = IF q = p /\ r = s THEN adding[q][r] - 1 ELSE adding[q][r]
            /\ removing'[q][r] = removing[q][r]
        BY SMTT(30), <1>2, <1>3, <2>1, <2>2, <3>1, Tallied
      <4>2. /\ matches[q][r] \in Nat /\ known[q][r] \in Nat
            /\ adding[q][r] \in Nat /\ removing[q][r] \in Nat /\ events \in Nat
        BY <1>2, <1>3
      <4>3. Counted(q, r)
        BY <1>2
      <4>4. /\ adding[p][s] \in Nat /\ removing[p][s] \in Nat /\ known[p][s] \in Nat
        BY <1>2, <1>3
      <4> QED
        BY <1>1, <4>1, <4>2, <4>3, <4>4, <2>2, <3>1 DEF Counted
    <3> QED
      BY <1>1, <1>2, <2>1, <3>1, <3>2, Tallied DEF ReportsInv
  <2>3. CASE ~MatchFirst
    <3>1. adding' = Plus(adding, p, s) /\ UNCHANGED removing /\ events < MaxEvents
          /\ events' = events + 1
      BY <1>6, <2>3 DEF GraphAdd, FirstAdd, Event
    <3>2. ASSUME NEW q \in Servers, NEW r \in Sides
          PROVE  Counted(q, r)'
      <4>1. /\ matches'[q][r] = matches[q][r]
            /\ known'[q][r] = known[q][r] \/ known'[q][r] = IF q = p /\ r = s THEN known[q][r] + 1 ELSE known[q][r]
            /\ adding'[q][r] = IF q = p /\ r = s THEN adding[q][r] + 1 ELSE adding[q][r]
            /\ removing'[q][r] = removing[q][r]
        BY SMTT(30), <1>2, <1>3, <2>1, <2>3, <3>1, Tallied
      <4>2. /\ matches[q][r] \in Nat /\ known[q][r] \in Nat
            /\ adding[q][r] \in Nat /\ removing[q][r] \in Nat /\ events \in Nat
        BY <1>2, <1>3
      <4>3. Counted(q, r)
        BY <1>2
      <4>4. /\ adding[p][s] \in Nat /\ removing[p][s] \in Nat /\ known[p][s] \in Nat
        BY <1>2, <1>3
      <4> QED
        BY <1>1, <4>1, <4>2, <4>3, <4>4, <2>3, <3>1 DEF Counted
    <3> QED
      BY <1>1, <1>2, <2>1, <3>1, <3>2, Tallied DEF ReportsInv
  <2> QED
    BY <2>2, <2>3
<1>7. CASE GraphRemove(p, s)
  <2>1. UNCHANGED matches /\ (known' = known \/ known' = Minus(known, p, s))
    BY <1>7 DEF GraphRemove, GraphCommit, requestVars
  <2>2. CASE MatchFirst
    <3>1. removing[p][s] > 0 /\ removing' = Minus(removing, p, s) /\ UNCHANGED <<adding, events>>
      BY <1>7, <2>2 DEF GraphRemove, SecondRemove
    <3>2. known[p][s] > 0
      BY <1>2, <1>3, <2>2, <3>1 DEF Counted
    <3>3. ASSUME NEW q \in Servers, NEW r \in Sides
          PROVE  Counted(q, r)'
      <4>1. /\ matches'[q][r] = matches[q][r]
            /\ known'[q][r] = known[q][r] \/ known'[q][r] = IF q = p /\ r = s THEN known[q][r] - 1 ELSE known[q][r]
            /\ adding'[q][r] = adding[q][r]
            /\ removing'[q][r] = IF q = p /\ r = s THEN removing[q][r] - 1 ELSE removing[q][r]
        BY SMTT(30), <1>2, <1>3, <2>1, <2>2, <3>1, Tallied
      <4>2. /\ matches[q][r] \in Nat /\ known[q][r] \in Nat
            /\ adding[q][r] \in Nat /\ removing[q][r] \in Nat /\ events \in Nat
        BY <1>2, <1>3
      <4>3. Counted(q, r)
        BY <1>2
      <4>4. /\ adding[p][s] \in Nat /\ removing[p][s] \in Nat /\ known[p][s] \in Nat
        BY <1>2, <1>3
      <4> QED
        BY <1>1, <4>1, <4>2, <4>3, <4>4, <2>2, <3>1 DEF Counted
    <3> QED
      BY <1>1, <1>2, <2>1, <3>1, <3>2, <3>3, Tallied DEF ReportsInv
  <2>3. CASE ~MatchFirst
    <3>1. removing' = Plus(removing, p, s) /\ UNCHANGED adding /\ events < MaxEvents
          /\ events' = events + 1 /\ removing[p][s] < known[p][s]
      BY <1>7, <2>3 DEF GraphRemove, FirstRemove, Event
    <3>2. known[p][s] > 0
      BY <1>2, <1>3, <3>1
    <3>3. ASSUME NEW q \in Servers, NEW r \in Sides
          PROVE  Counted(q, r)'
      <4>1. /\ matches'[q][r] = matches[q][r]
            /\ known'[q][r] = known[q][r] \/ known'[q][r] = IF q = p /\ r = s THEN known[q][r] - 1 ELSE known[q][r]
            /\ adding'[q][r] = adding[q][r]
            /\ removing'[q][r] = IF q = p /\ r = s THEN removing[q][r] + 1 ELSE removing[q][r]
        BY SMTT(30), <1>2, <1>3, <2>1, <2>3, <3>1, Tallied
      <4>2. /\ matches[q][r] \in Nat /\ known[q][r] \in Nat
            /\ adding[q][r] \in Nat /\ removing[q][r] \in Nat /\ events \in Nat
        BY <1>2, <1>3
      <4>3. Counted(q, r)
        BY <1>2
      <4>4. /\ adding[p][s] \in Nat /\ removing[p][s] \in Nat /\ known[p][s] \in Nat
        BY <1>2, <1>3
      <4> QED
        BY <1>1, <4>1, <4>2, <4>3, <4>4, <2>3, <3>1 DEF Counted
    <3> QED
      BY <1>1, <1>2, <2>1, <3>1, <3>2, <3>3, Tallied DEF ReportsInv
  <2> QED
    BY <2>2, <2>3
<1> QED
  BY <1>4, <1>5, <1>6, <1>7 DEF Endpoint

\* Every other step leaves the reports alone, or counts an event and forgets
\* the matches.
LEMMA OthersKeepReports ==
    ASSUME ReportsInv, UNCHANGED <<known, adding, removing>>,
           matches' \in {matches, NoMatch}, events' \in events..MaxEvents
    PROVE  ReportsInv'
<1>1. MaxEvents \in Nat /\ events \in Nat /\ MatchFirst \in BOOLEAN
  BY ServiceAssumption DEF ReportsInv
<1>2. /\ matches \in Tallies /\ known \in Tallies /\ adding \in Tallies /\ removing \in Tallies
      /\ \A q \in Servers, r \in Sides : Counted(q, r)
  BY DEF ReportsInv
<1>3. NoMatch \in Tallies /\ \A q \in Servers, r \in Sides : NoMatch[q][r] = 0
  BY DEF NoMatch, Tallies
<1>4. matches' \in Tallies
      /\ \A q \in Servers, r \in Sides : matches'[q][r] <= matches[q][r] /\ matches'[q][r] \in Nat
  <2>1. \A q \in Servers, r \in Sides : matches[q][r] \in Nat
    BY <1>2 DEF Tallies
  <2>2. CASE matches' = matches
    BY <1>2, <2>1, <2>2
  <2>3. CASE matches' = NoMatch
    BY <1>3, <2>1, <2>3
  <2> QED
    BY <2>2, <2>3
<1>5. ASSUME NEW q \in Servers, NEW r \in Sides
      PROVE  Counted(q, r)'
  <2>1. /\ matches[q][r] \in Nat /\ known[q][r] \in Nat
        /\ adding[q][r] \in Nat /\ removing[q][r] \in Nat
    BY <1>2 DEF Tallies
  <2>2. Counted(q, r)
    BY <1>2
  <2>3. events' \in Nat /\ events' >= events
    BY <1>1
  <2> QED
    BY <1>1, <1>4, <2>1, <2>2, <2>3 DEF Counted
<1>6. events' \in 0..MaxEvents
  BY <1>1
<1> QED
  BY <1>2, <1>4, <1>5, <1>6 DEF ReportsInv

\* A step that goes on with one waiter, to a place where it does not sleep.
LEMMA GotoKeepsSleep ==
    ASSUME SleepMissesNothing, NEW w \in Waiters, NEW label,
           WaiterGoto(w, label), label # "asleep",
           waiterPc \in [Waiters -> {"idle", "prepared", "check", "query", "pair", "recheck",
                                     "asleep"}],
           \A x \in Waiters \ {w} : observed'[x] = observed[x] /\ token'[x] = token[x],
           \/ UNCHANGED <<revision, notified>>
           \/ notified' = notified \cup Asleep
           \/ revision' = revision /\ notified' = notified \ {w},
           UNCHANGED <<generation, isShutdown>>
    PROVE  SleepMissesNothing'
<1>1. \A x \in Waiters : waiterPc'[x] = IF x = w THEN label ELSE waiterPc[x]
  BY DEF WaiterGoto
<1>2. Asleep' = Asleep \ {w}
  BY <1>1 DEF Asleep
<1>3. \A x \in Asleep' \ notified' : x \in Asleep \ notified /\ x # w /\ revision' = revision
  BY <1>2
<1> QED
  BY <1>3 DEF SleepMissesNothing, Asleep

\* A waiter that goes to sleep with nothing missed.
LEMMA SleepBegins ==
    ASSUME SleepMissesNothing, NEW w \in Waiters, WaiterGoto(w, "asleep"),
           waiterPc \in [Waiters -> {"idle", "prepared", "check", "query", "pair", "recheck",
                                     "asleep"}],
           UNCHANGED <<revision, generation, isShutdown, token, observed>>,
           notified' = notified \/ notified' = notified \ {w},
           revision = observed[w], token[w] = generation, isShutdown = "running"
    PROVE  SleepMissesNothing'
<1>1. \A x \in Waiters : waiterPc'[x] = IF x = w THEN "asleep" ELSE waiterPc[x]
  BY DEF WaiterGoto
<1>2. ASSUME NEW x \in Asleep' \ notified'
      PROVE  revision' = observed'[x] /\ token'[x] = generation' /\ isShutdown' # "notified"
  <2>1. CASE x = w
    BY <2>1
  <2>2. CASE x # w
    <3>1. x \in Asleep \ notified
      BY <1>1, <1>2, <2>2 DEF Asleep
    <3> QED
      BY <3>1 DEF SleepMissesNothing
  <2> QED
    BY <2>1, <2>2
<1> QED
  BY <1>2 DEF SleepMissesNothing

\* notify_revision() reaches whoever sleeps.
LEMMA BumpKeepsSleep ==
    ASSUME SleepMissesNothing, notified' = notified \cup Asleep, UNCHANGED waiterPc
    PROVE  SleepMissesNothing'
<1>1. Asleep' \ notified' = {}
  BY DEF Asleep
<1> QED
  BY <1>1 DEF SleepMissesNothing

\* A step that leaves the wait state alone, and does not complete a shutdown.
LEMMA QuietKeepsSleep ==
    ASSUME SleepMissesNothing, UNCHANGED <<waiterPc, token, observed, revision, notified, generation>>,
           isShutdown' # "notified" \/ UNCHANGED isShutdown
    PROVE  SleepMissesNothing'
BY DEF SleepMissesNothing, Asleep

\* The steps of a waiting thread.
LEMMA WaiterKeepsInv ==
    ASSUME ServiceInv, NEW w \in Waiters, Prepare(w) \/ WaiterStep(w) \/ WaitExpires(w)
    PROVE  ServiceInv'
<1>1. ReportsInv /\ WaitersInv /\ SleepMissesNothing
  BY DEF ServiceInv
<1>2. MaxEvents \in Nat /\ MaxWaits \in Nat /\ Timeouts \subseteq Kinds
  BY ServiceAssumption
<1>3. events \in Nat /\ events <= MaxEvents
  BY <1>1, <1>2 DEF ReportsInv
<1>4. events' \in events..MaxEvents /\ UNCHANGED <<requestVars, known, adding, removing, events>>
  BY <1>2, <1>3 DEF Prepare, WaiterStep, WaitExpires, BeginServiceWait, Check, Query, Pair,
                    Recheck, Wake, graphVars
<1>5. ReportsInv'
  BY <1>1, <1>4, OthersKeepReports DEF requestVars
<1>6. NoMatch \in [Servers -> Counts] /\ matches \in [Servers -> Counts]
  <2>1. ASSUME NEW p \in Servers, NEW s \in Sides
        PROVE  matches[p][s] \in 0..MaxEvents
    <3>1. matches[p][s] \in Nat /\ adding[p][s] \in Nat /\ Counted(p, s)
      BY <1>1 DEF ReportsInv, Tallies
    <3> QED
      BY <1>2, <1>3, <3>1 DEF Counted
  <2>2. matches \in [Servers -> [Sides -> Nat]]
    BY <1>1 DEF ReportsInv, Tallies
  <2> QED
    BY <1>2, <2>1, <2>2 DEF NoMatch, Counts
<1>7. WaitersInv' /\ SleepMissesNothing'
  <2>1. CASE Prepare(w)
    <3>1. waits[w] + 1 \in 0..MaxWaits
      BY <1>1, <1>2, <2>1 DEF Prepare, WaitersInv
    <3>2. WaitersInv'
      BY <1>1, <1>2, <2>1, <3>1 DEF Prepare, WaitersInv, WaiterGoto, requestVars, graphVars, waitVars
    <3>3. SleepMissesNothing'
      <4>1. \A x \in Waiters \ {w} : observed'[x] = observed[x] /\ token'[x] = token[x]
        BY <1>1, <2>1 DEF Prepare, WaitersInv
      <4> QED
        BY <1>1, <2>1, <4>1, GotoKeepsSleep DEF Prepare, WaitersInv, waitVars
    <3> QED
      BY <3>2, <3>3
  <2>2. CASE BeginServiceWait(w)
    <3>1. WaitersInv'
      BY <1>1, <2>2 DEF BeginServiceWait, WaitersInv, WaiterGoto, Return, requestVars, graphVars, waitVars
    <3>2. SleepMissesNothing'
      BY <1>1, <2>2, GotoKeepsSleep DEF BeginServiceWait, Return, WaitersInv, waitVars
    <3> QED
      BY <3>1, <3>2
  <2>3. CASE Check(w)
    <3>1. WaitersInv'
      BY <1>1, <2>3 DEF Check, WaitersInv, WaiterGoto, Return, requestVars, graphVars, waitVars
    <3>2. \A x \in Waiters \ {w} : observed'[x] = observed[x] /\ token'[x] = token[x]
      BY <1>1, <2>3 DEF Check, WaitersInv
    <3>3. SleepMissesNothing'
      BY <1>1, <2>3, <3>2, GotoKeepsSleep DEF Check, Return, WaitersInv, waitVars
    <3> QED
      BY <3>1, <3>3
  <2>4. CASE Query(w)
    <3>0. \/ UNCHANGED <<unread, associated, revision, notified>>
          \/ unread' = {} /\ UNCHANGED <<associated, revision, notified>>
          \/ /\ unread' = {} /\ associated' = associated \cup unread
             /\ revision' = revision + 1 /\ notified' = notified \cup Asleep
      BY <2>4 DEF Query, Ingest, Bump
    <3>1. WaitersInv'
      <4>1. /\ associated' \subseteq Servers /\ unread' \subseteq Servers
            /\ revision' \in Nat /\ notified' \subseteq Waiters
        BY <1>1, <3>0 DEF WaitersInv, Asleep
      <4>2. waiterPc' \in [Waiters -> {"idle", "prepared", "check", "query", "pair", "recheck", "asleep"}]
        BY <1>1, <2>4 DEF Query, WaitersInv, WaiterGoto, Return
      <4>3. snapshot' \in [Waiters -> [Servers -> Counts]]
        BY <1>1, <1>6, <2>4 DEF Query, WaitersInv
      <4> QED
        BY <1>1, <2>4, <4>1, <4>2, <4>3 DEF Query, WaitersInv, requestVars
    <3>2. SleepMissesNothing'
      BY <1>1, <2>4, <3>0, GotoKeepsSleep DEF Query, Return, WaitersInv
    <3> QED
      BY <3>1, <3>2
  <2>5. CASE Pair(w)
    <3>1. WaitersInv'
      BY <1>1, <1>6, <2>5 DEF Pair, WaitersInv, WaiterGoto, Return, requestVars, graphVars, waitVars
    <3>2. SleepMissesNothing'
      BY <1>1, <2>5, GotoKeepsSleep DEF Pair, Return, WaitersInv, waitVars
    <3> QED
      BY <3>1, <3>2
  <2>6. CASE Recheck(w)
    <3>1. WaitersInv'
      BY <1>1, <2>6 DEF Recheck, WaitersInv, WaiterGoto, Return, requestVars, graphVars, waitVars
    <3>2. UNCHANGED <<revision, generation, notified, isShutdown, token, observed>>
      BY <2>6 DEF Recheck, waitVars
    <3>3. CASE WaiterGoto(w, "asleep")
      <4>1. revision = observed[w] /\ token[w] = generation /\ isShutdown = "running"
        BY <1>1, <2>6, <3>3 DEF Recheck, WaitersInv, WaiterGoto, Return, IsShutdown, Interrupted,
                                Quiet
      <4> QED
        BY <1>1, <3>1, <3>2, <3>3, <4>1, SleepBegins DEF WaitersInv
    <3>4. ASSUME WaiterGoto(w, "idle") \/ WaiterGoto(w, "check")
          PROVE  SleepMissesNothing'
      BY <1>1, <3>2, <3>4, GotoKeepsSleep DEF WaitersInv
    <3>5. WaiterGoto(w, "idle") \/ WaiterGoto(w, "check") \/ WaiterGoto(w, "asleep")
      BY <2>6 DEF Recheck, Return
    <3> QED
      BY <3>1, <3>3, <3>4, <3>5
  <2>7. CASE Wake(w)
    <3>1. WaitersInv'
      BY <1>1, <2>7 DEF Wake, WaitersInv, WaiterGoto, requestVars, graphVars
    <3>2. /\ UNCHANGED <<revision, generation, isShutdown, token, observed>>
          /\ notified' = notified \ {w}
      BY <2>7 DEF Wake
    <3>3. CASE WaiterGoto(w, "asleep")
      <4>1. revision = observed[w] /\ token[w] = generation /\ isShutdown = "running"
        BY <1>1, <2>7, <3>3 DEF Wake, WaitersInv, WaiterGoto, IsShutdown, Interrupted, Quiet
      <4> QED
        BY <1>1, <3>1, <3>2, <3>3, <4>1, SleepBegins DEF WaitersInv
    <3>4. ASSUME WaiterGoto(w, "check")
          PROVE  SleepMissesNothing'
      BY <1>1, <3>2, <3>4, GotoKeepsSleep DEF WaitersInv
    <3> QED
      BY <2>7, <3>1, <3>3, <3>4 DEF Wake
  <2>8. CASE WaitExpires(w)
    <3>1. WaitersInv'
      BY <1>1, <2>8 DEF WaitExpires, WaitersInv, WaiterGoto, Return, requestVars, graphVars
    <3>2. SleepMissesNothing'
      BY <1>1, <2>8, GotoKeepsSleep DEF WaitExpires, Return, WaitersInv
    <3> QED
      BY <3>1, <3>2
  <2> QED
    BY <2>1, <2>2, <2>3, <2>4, <2>5, <2>6, <2>7, <2>8 DEF WaiterStep
<1> QED
  BY <1>5, <1>7 DEF ServiceInv

\* The steps of the graph, of Fast DDS and of the Context.
LEMMA EnvironmentKeepsInv ==
    ASSUME ServiceInv, GraphNotify \/ ShutdownNotify \/ Environment
    PROVE  ServiceInv'
<1>1. ReportsInv /\ WaitersInv /\ SleepMissesNothing
  BY DEF ServiceInv
<1>2. MaxEvents \in Nat
  BY ServiceAssumption
<1>3. events \in Nat /\ events <= MaxEvents
  BY <1>1, <1>2 DEF ReportsInv
<1>4. CASE GraphNotify
  <2>1. ReportsInv'
    BY <1>1, <1>2, <1>3, <1>4, OthersKeepReports DEF GraphNotify, requestVars
  <2>2. WaitersInv'
    BY <1>1, <1>4 DEF GraphNotify, Bump, WaitersInv, Asleep, requestVars, waiterVars
  <2>3. SleepMissesNothing'
    BY <1>1, <1>4, BumpKeepsSleep DEF GraphNotify, Bump, waiterVars
  <2> QED
    BY <2>1, <2>2, <2>3 DEF ServiceInv
<1>5. CASE ShutdownNotify
  <2>1. ReportsInv'
    BY <1>1, <1>2, <1>3, <1>5, OthersKeepReports DEF ShutdownNotify, requestVars, graphVars
  <2>2. WaitersInv'
    BY <1>1, <1>5 DEF ShutdownNotify, ShutdownWake, Bump, WaitersInv, Asleep, requestVars, graphVars, waiterVars
  <2>3. SleepMissesNothing'
    BY <1>1, <1>5, BumpKeepsSleep DEF ShutdownNotify, ShutdownWake, Bump, waiterVars
  <2> QED
    BY <2>1, <2>2, <2>3 DEF ServiceInv
<1>6. ASSUME NEW p \in Servers, NEW s \in Sides, Endpoint(p, s)
      PROVE  ServiceInv'
  <2>1. ReportsInv'
    BY <1>1, <1>6, EndpointKeepsReports DEF WaitersInv
  <2>2. /\ UNCHANGED <<matchDegraded, associated, healthy, unread, waitVars, isShutdown, waiterVars>>
        /\ owed' = owed \/ owed' = owed + 1
    BY <1>6 DEF Endpoint, MatchServer, Unmatch, GraphAdd, GraphRemove, GraphCommit, requestVars
  <2>3. WaitersInv'
    BY <1>1, <2>2 DEF WaitersInv, waitVars, waiterVars
  <2>4. SleepMissesNothing'
    BY <1>1, <2>2, QuietKeepsSleep DEF waitVars, waiterVars
  <2> QED
    BY <2>1, <2>3, <2>4 DEF ServiceInv
<1>7. ASSUME NEW p \in Servers, MetadataArrives(p)
      PROVE  ServiceInv'
  <2>1. ReportsInv'
    BY <1>1, <1>2, <1>3, <1>7, OthersKeepReports DEF MetadataArrives, Event, requestVars
  <2>2. WaitersInv'
    BY <1>1, <1>7 DEF MetadataArrives, Bump, WaitersInv, Asleep, requestVars, waiterVars
  <2>3. SleepMissesNothing'
    BY <1>1, <1>7, BumpKeepsSleep DEF MetadataArrives, Bump, waiterVars
  <2> QED
    BY <2>1, <2>2, <2>3 DEF ServiceInv
<1>8. CASE Degrade
  <2>1. ReportsInv'
    BY <1>1, <1>2, <1>3, <1>8, OthersKeepReports DEF Degrade, Event, graphVars
  <2>2. WaitersInv'
    BY <1>1, <1>8 DEF Degrade, WaitersInv, graphVars, waitVars, waiterVars
  <2>3. SleepMissesNothing'
    BY <1>1, <1>8, QuietKeepsSleep DEF Degrade, waitVars, waiterVars
  <2> QED
    BY <2>1, <2>2, <2>3 DEF ServiceInv
<1>9. CASE GraphUnavailable
  <2>1. ReportsInv'
    BY <1>1, <1>2, <1>3, <1>9, OthersKeepReports DEF GraphUnavailable, Event, requestVars
  <2>2. WaitersInv'
    <3>1. healthy' \in BOOLEAN /\ owed' \in Nat /\ matchDegraded' \in BOOLEAN
      <4>1. owed \in Nat /\ matchDegraded \in BOOLEAN
        BY <1>1 DEF WaitersInv
      <4>2. healthy' = FALSE /\ owed' = owed + 1 /\ UNCHANGED requestVars
        BY <1>9 DEF GraphUnavailable
      <4>3. owed' \in Nat
        BY <4>1, <4>2
      <4>4. matchDegraded' = matchDegraded
        BY <4>2 DEF requestVars
      <4> QED
        BY <4>1, <4>2, <4>3, <4>4
    <3>2. UNCHANGED <<associated, unread, isShutdown>> /\ UNCHANGED waitVars /\ UNCHANGED waiterVars
      BY <1>9 DEF GraphUnavailable
    <3> QED
      BY <1>1, <3>1, <3>2 DEF WaitersInv, waitVars, waiterVars
  <2>3. SleepMissesNothing'
    BY <1>1, <1>9, QuietKeepsSleep DEF GraphUnavailable, waitVars, waiterVars
  <2> QED
    BY <2>1, <2>2, <2>3 DEF ServiceInv
<1>10. CASE Interrupt
  <2>1. ReportsInv'
    BY <1>1, <1>2, <1>3, <1>10, OthersKeepReports DEF Interrupt, Event, requestVars, graphVars
  <2>2. WaitersInv'
    BY <1>1, <1>10 DEF Interrupt, Bump, WaitersInv, Asleep, requestVars, graphVars, waiterVars
  <2>3. SleepMissesNothing'
    BY <1>1, <1>10, BumpKeepsSleep DEF Interrupt, Bump, waiterVars
  <2> QED
    BY <2>1, <2>2, <2>3 DEF ServiceInv
<1>11. CASE ShutdownRequest
  <2>1. ReportsInv'
    BY <1>1, <1>2, <1>3, <1>11, OthersKeepReports DEF ShutdownRequest, Event, requestVars, graphVars
  <2>2. WaitersInv'
    BY <1>1, <1>11 DEF ShutdownRequest, WaitersInv, requestVars, graphVars, waitVars, waiterVars
  <2>3. SleepMissesNothing'
    BY <1>1, <1>11, QuietKeepsSleep DEF ShutdownRequest, waitVars, waiterVars
  <2> QED
    BY <2>1, <2>2, <2>3 DEF ServiceInv
<1> QED
  BY <1>4, <1>5, <1>6, <1>7, <1>8, <1>9, <1>10, <1>11 DEF Environment

\* Every step of ServiceWait keeps the invariant.
LEMMA ServiceNextInv == ServiceInv /\ [ServiceNext]_serviceVars => ServiceInv'
<1> SUFFICES ASSUME ServiceInv, [ServiceNext]_serviceVars
             PROVE  ServiceInv'
  OBVIOUS
<1>1. CASE UNCHANGED serviceVars
  BY <1>1 DEF serviceVars, requestVars, graphVars, waitVars, waiterVars, ServiceInv, ReportsInv,
              Counted, WaitersInv, SleepMissesNothing, Asleep
<1>2. CASE ServiceNext
  BY <1>2, WaiterKeepsInv, EnvironmentKeepsInv DEF ServiceNext
<1> QED
  BY <1>1, <1>2

\* The tallies are bounded by the events, so the invariant gives the types.
LEMMA ServiceTyped == ServiceInv => ServiceTypeOK
<1> SUFFICES ASSUME ServiceInv
             PROVE  ServiceTypeOK
  OBVIOUS
<1>1. MaxEvents \in Nat /\ events \in 0..MaxEvents
  BY ServiceAssumption DEF ServiceInv, ReportsInv
<1>2. ASSUME NEW p \in Servers, NEW s \in Sides
      PROVE  /\ matches[p][s] \in 0..MaxEvents /\ known[p][s] \in 0..MaxEvents
             /\ adding[p][s] \in 0..MaxEvents /\ removing[p][s] \in 0..MaxEvents
  <2>1. /\ matches[p][s] \in Nat /\ known[p][s] \in Nat
        /\ adding[p][s] \in Nat /\ removing[p][s] \in Nat /\ Counted(p, s)
    BY DEF ServiceInv, ReportsInv, Tallies
  <2> QED
    BY <1>1, <2>1 DEF Counted
<1>3. {matches, known, adding, removing} \subseteq [Servers -> [Sides -> Nat]]
  BY DEF ServiceInv, ReportsInv, Tallies
<1>4. {matches, known, adding, removing} \subseteq [Servers -> Counts]
  BY <1>2, <1>3 DEF Counts
<1> QED
  BY <1>1, <1>4 DEF ServiceTypeOK, ServiceInv, WaitersInv

-----------------------------------------------------------------------------
(* What a participant offers of its nodes (GraphMetadata).                 *)

\* publish_mutex_: one thread of a participant views and writes at a time.
OneWriter ==
    \A t, u \in Workers :
      HoldsPublish(t) /\ HoldsPublish(u) /\ PeerOf[t] = PeerOf[u] => t = u

Still(p) == \A t \in Workers : PeerOf[t] = p => doing[t] \notin {"notify", "view"}

\* With no thread still to view the participant, what is being written is
\* its current state, and so is what was written last.
WrittenIsCurrent ==
    \A p \in Peers : Still(p) =>
      /\ \A t \in Workers : PeerOf[t] = p /\ doing[t] = "write" => copy[t].nodes = nodes[p]
      /\ (/\ ~lost[p]
          /\ \A t \in Workers : PeerOf[t] = p => doing[t] # "write")
         => history[p].nodes = nodes[p]

PublishInv == doing \in [Workers -> Places] /\ OneWriter /\ WrittenIsCurrent

MetadataInv == MetadataTypeOK /\ PublishInv

\* What a participant publishes of itself, and what an unmatched writer leaves.
LEMMA SampleTyped ==
    ASSUME NEW p \in Peers, NEW list \in NodeLists, NEW v \in Nat
    PROVE  /\ Sample(p, list, v) \in MetadataSamples /\ Sample(p, list, v).nodes = list
           /\ NoData(p) \in MetadataSamples
BY MetadataAssumption DEF Sample, NoData, MetadataSamples

\* What one participant keeps of another.
LEMMA NestedTyped ==
    ASSUME NEW S, NEW f \in [Peers -> [Peers -> S]], NEW q \in Peers, NEW p \in Peers, NEW x \in S
    PROVE  [f EXCEPT ![q][p] = x] \in [Peers -> [Peers -> S]]
<1>1. [f[q] EXCEPT ![p] = x] \in [Peers -> S]
  OBVIOUS
<1>2. [f EXCEPT ![q][p] = x] = [r \in Peers |-> IF r = q THEN [f[q] EXCEPT ![p] = x] ELSE f[r]]
  OBVIOUS
<1> QED
  BY <1>1, <1>2

\* Every participant has published its empty list at first.
LEMMA MetadataInitInv == MetadataInit => MetadataInv
<1> SUFFICES ASSUME MetadataInit
             PROVE  MetadataInv
  OBVIOUS
<1>1. /\ \A p \in Peers : /\ Sample(p, NoNodesYet, 0) \in MetadataSamples
                          /\ Sample(p, NoNodesYet, 0).nodes = NoNodesYet
      /\ NoNodesYet \in NodeLists /\ PeerOf \in [Workers -> Peers] /\ MaxLostWrites \in Nat
  BY SampleTyped, MetadataAssumption
<1>2. MetadataTypeOK
  <2>1. /\ history \in [Peers -> MetadataSamples] /\ copy \in [Workers -> MetadataSamples]
    BY <1>1 DEF MetadataInit
  <2>2. /\ linked \in [Peers -> [Peers -> BOOLEAN]]
        /\ undelivered \in [Peers -> [Peers -> BOOLEAN]]
    BY DEF MetadataInit
  <2>3. unreadSamples \in [Peers -> Seq(MetadataSamples)]
    BY DEF MetadataInit
  <2>4. /\ remoteOf \in [Peers -> [Peers -> NodeLists]] /\ nodes \in [Peers -> NodeLists]
        /\ believed \in [Peers -> [Peers -> Nat]] /\ version \in [Peers -> Nat]
        /\ lifecycle \in [Peers -> [Peers -> {"none", "Added", "Removed"}]]
    BY <1>1 DEF MetadataInit
  <2>5. /\ up \in [Peers -> BOOLEAN] /\ inListener \in [Peers -> BOOLEAN]
        /\ lost \in [Peers -> BOOLEAN] /\ losses \in 0..MaxLostWrites
        /\ doing \in [Workers -> Places] /\ budget \in [Workers -> Nat]
    BY <1>1 DEF MetadataInit, Places
  <2> QED
    BY <2>1, <2>2, <2>3, <2>4, <2>5 DEF MetadataTypeOK
<1>3. PublishInv
  BY <1>1, <1>2 DEF MetadataInit, PublishInv, OneWriter, WrittenIsCurrent, HoldsPublish,
                    MetadataTypeOK
<1> QED
  BY <1>2, <1>3 DEF MetadataInv

\* A worker that neither publishes nor is about to.
LEMMA IdleKeepsPublish ==
    ASSUME PublishInv, UNCHANGED <<nodes, history, lost, copy>>, NEW t \in Workers,
           NEW place \in {"idle", "ingest"},
           doing' = doing \/ (doing[t] \in {"idle", "ingest"} /\ To(t, place))
    PROVE  PublishInv'
<1>1. doing' \in [Workers -> Places]
  BY DEF PublishInv, To, Places
<1>2. \A u \in Workers : doing'[u] = doing[u]
                         \/ (doing[u] \in {"idle", "ingest"} /\ doing'[u] \in {"idle", "ingest"})
  BY DEF PublishInv, To
<1>3. OneWriter'
  BY <1>2 DEF PublishInv, OneWriter, HoldsPublish
<1>4. WrittenIsCurrent'
  BY <1>2 DEF PublishInv, WrittenIsCurrent, Still
<1> QED
  BY <1>1, <1>3, <1>4 DEF PublishInv

\* A worker that is about to publish what it, or another thread, has changed.
LEMMA NotifyKeepsPublish ==
    ASSUME PublishInv, UNCHANGED <<history, lost, copy>>, NEW t \in Workers,
           NEW place \in {"notify", "view"}, To(t, place),
           place = "view" => PublishFree(PeerOf[t]),
           \A p \in Peers : p # PeerOf[t] => nodes'[p] = nodes[p]
    PROVE  PublishInv'
<1>1. doing' \in [Workers -> Places] /\ doing'[t] = place
      /\ \A u \in Workers : u # t => doing'[u] = doing[u]
  BY DEF PublishInv, To, Places
<1>2. OneWriter'
  BY <1>1 DEF PublishInv, OneWriter, HoldsPublish, PublishFree
<1>3. ASSUME NEW p \in Peers, Still(p)'
      PROVE  p # PeerOf[t] /\ Still(p) /\ nodes'[p] = nodes[p]
             /\ \A u \in Workers : PeerOf[u] = p => doing'[u] = doing[u]
  BY <1>1, <1>3 DEF Still
<1>4. WrittenIsCurrent'
  BY <1>3 DEF PublishInv, WrittenIsCurrent
<1> QED
  BY <1>1, <1>2, <1>4 DEF PublishInv

\* The view of the local nodes, under publish_mutex_.
LEMMA ViewKeepsPublish ==
    ASSUME MetadataInv, NEW t \in Workers, ViewLocal(t)
    PROVE  PublishInv'
<1>1. /\ doing' \in [Workers -> Places] /\ doing[t] = "view" /\ doing'[t] = "write"
      /\ \A u \in Workers : u # t => doing'[u] = doing[u] /\ copy'[u] = copy[u]
      /\ UNCHANGED <<nodes, history, lost>>
  BY DEF ViewLocal, MetadataInv, MetadataTypeOK, To, Places, Runs, localGraph, wire
<1>2. copy'[t].nodes = nodes[PeerOf[t]]
  <2>1. copy'[t] = BuildLocalSnapshot(PeerOf[t])
    BY DEF ViewLocal, MetadataInv, MetadataTypeOK
  <2> QED
    BY <2>1 DEF BuildLocalSnapshot, Sample
<1>3. OneWriter'
  BY <1>1 DEF MetadataInv, PublishInv, OneWriter, HoldsPublish
<1>4. ASSUME NEW p \in Peers, Still(p)', p # PeerOf[t]
      PROVE  Still(p)
             /\ \A u \in Workers : PeerOf[u] = p => doing'[u] = doing[u] /\ copy'[u] = copy[u]
  BY <1>1, <1>4 DEF Still
<1>5. ASSUME NEW u \in Workers, PeerOf[u] = PeerOf[t], doing'[u] = "write"
      PROVE  u = t
  BY <1>1, <1>5 DEF MetadataInv, PublishInv, OneWriter, HoldsPublish
<1>6. ASSUME NEW p \in Peers, Still(p)'
      PROVE  /\ \A u \in Workers : PeerOf[u] = p /\ doing'[u] = "write"
                                     => copy'[u].nodes = nodes'[p]
             /\ (/\ ~lost'[p]
                 /\ \A u \in Workers : PeerOf[u] = p => doing'[u] # "write")
                => history'[p].nodes = nodes'[p]
  <2>1. CASE p = PeerOf[t]
    BY <1>1, <1>2, <1>5, <2>1
  <2>2. CASE p # PeerOf[t]
    BY <1>1, <1>4, <1>6, <2>2 DEF MetadataInv, PublishInv, WrittenIsCurrent
  <2> QED
    BY <2>1, <2>2
<1>7. WrittenIsCurrent'
  BY <1>6 DEF WrittenIsCurrent
<1> QED
  BY <1>1, <1>3, <1>7 DEF PublishInv

\* The write of the view, under the same publish_mutex_.
LEMMA WriteKeepsPublish ==
    ASSUME MetadataInv, NEW t \in Workers, WriteSnapshot(t)
    PROVE  PublishInv'
<1>1. /\ doing' \in [Workers -> Places] /\ doing[t] = "write" /\ doing'[t] = "idle"
      /\ \A u \in Workers : u # t => doing'[u] = doing[u] /\ copy'[u] = copy[u]
      /\ UNCHANGED nodes /\ PeerOf[t] \in Peers
  BY MetadataAssumption
     DEF WriteSnapshot, MetadataInv, MetadataTypeOK, To, Places, Runs, localGraph
<1>2. \/ history'[PeerOf[t]] = copy[t]
      \/ lost'[PeerOf[t]]
  BY <1>1 DEF WriteSnapshot, MetadataInv, MetadataTypeOK
<1>3. \A p \in Peers : p # PeerOf[t] => history'[p] = history[p] /\ lost'[p] = lost[p]
  BY <1>1 DEF WriteSnapshot, MetadataInv, MetadataTypeOK
<1>4. OneWriter'
  BY <1>1 DEF MetadataInv, PublishInv, OneWriter, HoldsPublish
<1>5. ASSUME NEW p \in Peers, Still(p)'
      PROVE  /\ \A u \in Workers : PeerOf[u] = p /\ doing'[u] = "write"
                                     => copy'[u].nodes = nodes'[p]
             /\ (/\ ~lost'[p]
                 /\ \A u \in Workers : PeerOf[u] = p => doing'[u] # "write")
                => history'[p].nodes = nodes'[p]
  <2>1. Still(p)
    BY <1>1, <1>5 DEF Still
  <2>2. CASE p = PeerOf[t]
    <3>1. copy[t].nodes = nodes[p]
      BY <1>1, <2>1, <2>2 DEF MetadataInv, PublishInv, WrittenIsCurrent
    <3>2. \A u \in Workers : PeerOf[u] = p /\ doing'[u] = "write" => copy'[u].nodes = nodes'[p]
      BY <1>1, <2>1 DEF MetadataInv, PublishInv, WrittenIsCurrent
    <3> QED
      BY <1>1, <1>2, <2>2, <3>1, <3>2
  <2>3. CASE p # PeerOf[t]
    BY <1>1, <1>3, <2>1, <2>3 DEF MetadataInv, PublishInv, WrittenIsCurrent
  <2> QED
    BY <2>2, <2>3
<1>6. WrittenIsCurrent'
  BY <1>5 DEF WrittenIsCurrent
<1> QED
  BY <1>1, <1>4, <1>6 DEF PublishInv

\* Every step of GraphMetadata keeps the invariant.
LEMMA MetadataNextInv == MetadataInv /\ [MetadataNext]_metaVars => MetadataInv'
<1> SUFFICES ASSUME MetadataInv, [MetadataNext]_metaVars
             PROVE  MetadataInv'
  OBVIOUS
<1>1. /\ PeerOf \in [Workers -> Peers] /\ NoNodesYet \in NodeLists
      /\ MaxCommits \in [Peers -> Nat] /\ MaxLostWrites \in Nat
  BY MetadataAssumption
<1>2. MetadataTypeOK /\ PublishInv
  BY DEF MetadataInv
<1>3. ASSUME NEW t \in Workers, CommitLocal(t)
      PROVE  MetadataInv'
  <2>1. MetadataTypeOK'
    BY <1>1, <1>2, <1>3 DEF CommitLocal, MetadataTypeOK, To, Places, remoteGraph, wire
  <2>2. PublishInv'
    <3>1. \A p \in Peers : p # PeerOf[t] => nodes'[p] = nodes[p]
      BY <1>1, <1>2, <1>3 DEF CommitLocal, MetadataTypeOK
    <3> QED
      BY <1>2, <1>3, <3>1, NotifyKeepsPublish DEF CommitLocal, wire
  <2> QED
    BY <2>1, <2>2 DEF MetadataInv
<1>4. ASSUME NEW t \in Workers, LockPublish(t)
      PROVE  MetadataInv'
  <2>1. MetadataTypeOK'
    BY <1>1, <1>2, <1>4 DEF LockPublish, MetadataTypeOK, To, Places, localGraph, remoteGraph, wire
  <2>2. PublishInv'
    BY <1>2, <1>4, NotifyKeepsPublish DEF LockPublish, localGraph, wire
  <2> QED
    BY <2>1, <2>2 DEF MetadataInv
<1>5. ASSUME NEW t \in Workers, ViewLocal(t)
      PROVE  MetadataInv'
  <2>1. BuildLocalSnapshot(PeerOf[t]) \in MetadataSamples
    BY <1>1, <1>2, SampleTyped DEF BuildLocalSnapshot, MetadataTypeOK
  <2>2. copy' \in [Workers -> MetadataSamples] /\ doing' \in [Workers -> Places]
    BY <1>2, <1>5, <2>1 DEF ViewLocal, MetadataTypeOK, To, Places
  <2>3. MetadataTypeOK'
    BY <1>2, <1>5, <2>2 DEF ViewLocal, MetadataTypeOK, localGraph, remoteGraph, wire
  <2> QED
    BY <1>5, <2>3, ViewKeepsPublish DEF MetadataInv
<1>6. ASSUME NEW t \in Workers, WriteSnapshot(t)
      PROVE  MetadataInv'
  <2>1. Sample(PeerOf[t], NoNodesYet, 0) \in MetadataSamples
    BY <1>1, SampleTyped
  <2>2. copy' \in [Workers -> MetadataSamples] /\ doing' \in [Workers -> Places]
    BY <1>2, <1>6, <2>1 DEF WriteSnapshot, MetadataTypeOK, To, Places
  <2>3. history' \in [Peers -> MetadataSamples]
    <3>1. history \in [Peers -> MetadataSamples] /\ copy[t] \in MetadataSamples
      BY <1>2 DEF MetadataTypeOK
    <3>2. history' = history \/ history' = [history EXCEPT ![PeerOf[t]] = copy[t]]
      BY <1>6 DEF WriteSnapshot
    <3> QED
      BY <3>1, <3>2
  <2>4. undelivered' \in [Peers -> [Peers -> BOOLEAN]]
    <3>1. CASE undelivered' = undelivered
      BY <1>2, <3>1 DEF MetadataTypeOK
    <3>2. CASE undelivered' = [q \in Peers |-> [undelivered[q] EXCEPT ![PeerOf[t]] = linked[q][PeerOf[t]]]]
      <4>1. ASSUME NEW q \in Peers
            PROVE  [undelivered[q] EXCEPT ![PeerOf[t]] = linked[q][PeerOf[t]]] \in [Peers -> BOOLEAN]
        <5>1. undelivered[q] \in [Peers -> BOOLEAN] /\ linked[q][PeerOf[t]] \in BOOLEAN
          BY <1>1, <1>2 DEF MetadataTypeOK
        <5> QED
          BY <5>1
      <4> QED
        BY <3>2, <4>1
    <3> QED
      BY <1>6, <3>1, <3>2 DEF WriteSnapshot
  <2>5. lost' \in [Peers -> BOOLEAN] /\ losses' \in 0..MaxLostWrites
    <3>1. lost \in [Peers -> BOOLEAN] /\ losses \in 0..MaxLostWrites /\ losses \in Nat
      BY <1>1, <1>2 DEF MetadataTypeOK
    <3>2. \/ lost' = [lost EXCEPT ![PeerOf[t]] = FALSE] /\ losses' = losses
          \/ /\ lost' = [lost EXCEPT ![PeerOf[t]] = TRUE] /\ losses < MaxLostWrites
             /\ losses' = losses + 1
      BY <1>6 DEF WriteSnapshot
    <3>3. losses' \in 0..MaxLostWrites
      BY <1>1, <3>1, <3>2
    <3>4. lost' \in [Peers -> BOOLEAN]
      BY <3>1, <3>2
    <3> QED
      BY <3>3, <3>4
  <2>6. UNCHANGED <<up, localGraph, remoteGraph, linked, unreadSamples, inListener, budget>>
    BY <1>6 DEF WriteSnapshot
  <2>7. MetadataTypeOK'
    BY <1>2, <2>2, <2>3, <2>4, <2>5, <2>6 DEF MetadataTypeOK, localGraph, remoteGraph
  <2> QED
    BY <1>6, <2>7, WriteKeepsPublish DEF MetadataInv
<1>7. ASSUME NEW t \in Workers, NEW p \in Peers, DiscoverPeer(t, p) \/ DiscoverDeath(t, p)
      PROVE  MetadataInv'
  <2>1. lifecycle' \in [Peers -> [Peers -> {"none", "Added", "Removed"}]]
    <3>1. \E change \in {"none", "Added", "Removed"} :
             lifecycle' = [lifecycle EXCEPT ![PeerOf[t]][p] = change]
      BY <1>7 DEF DiscoverPeer, DiscoverDeath, Discovers
    <3> QED
      BY <1>1, <1>2, <3>1, NestedTyped DEF MetadataTypeOK
  <2>2. doing' \in [Workers -> Places]
    BY <1>2, <1>7 DEF DiscoverPeer, DiscoverDeath, Discovers, MetadataTypeOK, To, Places
  <2>3. /\ linked' \in [Peers -> [Peers -> BOOLEAN]]
        /\ undelivered' \in [Peers -> [Peers -> BOOLEAN]]
    <3>1. \/ UNCHANGED <<linked, undelivered>>
          \/ /\ linked' = [linked EXCEPT ![PeerOf[t]][p] = FALSE]
             /\ undelivered' = [undelivered EXCEPT ![PeerOf[t]][p] = FALSE]
      BY <1>7 DEF DiscoverPeer, DiscoverDeath
    <3>2. FALSE \in BOOLEAN
      OBVIOUS
    <3>3. /\ linked \in [Peers -> [Peers -> BOOLEAN]] /\ PeerOf[t] \in Peers
          /\ undelivered \in [Peers -> [Peers -> BOOLEAN]]
      BY <1>1, <1>2 DEF MetadataTypeOK
    <3>4. [linked EXCEPT ![PeerOf[t]][p] = FALSE] \in [Peers -> [Peers -> BOOLEAN]]
      BY <3>2, <3>3, NestedTyped
    <3>5. [undelivered EXCEPT ![PeerOf[t]][p] = FALSE] \in [Peers -> [Peers -> BOOLEAN]]
      BY <3>2, <3>3, NestedTyped
    <3> QED
      BY <3>1, <3>3, <3>4, <3>5
  <2>4. unreadSamples' \in [Peers -> Seq(MetadataSamples)]
    <3>1. NoData(p) \in MetadataSamples
      BY <1>1, SampleTyped
    <3>2. unreadSamples[PeerOf[t]] \in Seq(MetadataSamples)
      BY <1>1, <1>2 DEF MetadataTypeOK
    <3>3. Append(unreadSamples[PeerOf[t]], NoData(p)) \in Seq(MetadataSamples)
      BY <3>1, <3>2
    <3>4. \/ unreadSamples' = unreadSamples
          \/ unreadSamples' = [unreadSamples EXCEPT ![PeerOf[t]] =
                                 Append(unreadSamples[PeerOf[t]], NoData(p))]
      BY <1>7 DEF DiscoverPeer, DiscoverDeath
    <3> QED
      BY <1>2, <3>3, <3>4 DEF MetadataTypeOK
  <2>5. UNCHANGED <<up, localGraph, remoteOf, believed, history, copy, budget, lost, losses,
                    inListener>>
    BY <1>7 DEF DiscoverPeer, DiscoverDeath, Discovers
  <2>6. MetadataTypeOK'
    BY <1>2, <2>1, <2>2, <2>3, <2>4, <2>5 DEF MetadataTypeOK, localGraph
  <2>7. To(t, "notify")
    BY <1>7 DEF DiscoverPeer, DiscoverDeath, Discovers
  <2>8. PublishInv'
    BY <1>2, <2>5, <2>7, NotifyKeepsPublish DEF localGraph
  <2> QED
    BY <2>6, <2>8 DEF MetadataInv
<1>8. ASSUME NEW t \in Workers, BeginIngest(t)
      PROVE  MetadataInv'
  <2>1. PassBudget(PeerOf[t]) \in Nat
    BY <1>1, <1>2 DEF PassBudget, MetadataTypeOK
  <2>2. MetadataTypeOK'
    BY <1>2, <1>8, <2>1 DEF BeginIngest, MetadataTypeOK, To, Places, localGraph, remoteGraph, wire
  <2>3. PublishInv'
    BY <1>2, <1>8, IdleKeepsPublish DEF BeginIngest, Starts, Runs, localGraph, wire
  <2> QED
    BY <2>2, <2>3 DEF MetadataInv
<1>9. ASSUME NEW t \in Workers, TakeSample(t)
      PROVE  MetadataInv'
  <2> DEFINE q == PeerOf[t]
             sample == Head(unreadSamples[q])
  <2>1. /\ unreadSamples[q] \in Seq(MetadataSamples) /\ unreadSamples[q] # <<>> /\ q \in Peers
        /\ budget[t] > 0 /\ budget[t] \in Nat
    BY <1>1, <1>2, <1>9 DEF TakeSample, MetadataTypeOK
  <2>2. sample \in MetadataSamples /\ Tail(unreadSamples[q]) \in Seq(MetadataSamples)
    BY <2>1, HeadTailProperties
  <2>3. sample.from \in Peers /\ sample.nodes \in NodeLists /\ sample.version \in Nat
    BY <2>2 DEF MetadataSamples
  <2>4. \/ UNCHANGED <<remoteOf, believed>>
        \/ /\ remoteOf' = [remoteOf EXCEPT ![q][sample.from] = sample.nodes]
           /\ believed' = [believed EXCEPT ![q][sample.from] = sample.version]
    BY <1>9 DEF TakeSample
  <2>5. /\ budget' = [budget EXCEPT ![t] = @ - 1]
        /\ unreadSamples' = [unreadSamples EXCEPT ![q] = Tail(unreadSamples[q])]
        /\ UNCHANGED <<up, localGraph, lifecycle, wire, inListener, doing, copy, lost, losses>>
    BY <1>9 DEF TakeSample
  <2> HIDE DEF q, sample
  <2>6. remoteOf' \in [Peers -> [Peers -> NodeLists]] /\ believed' \in [Peers -> [Peers -> Nat]]
    <3>1. remoteOf \in [Peers -> [Peers -> NodeLists]] /\ believed \in [Peers -> [Peers -> Nat]]
      BY <1>2 DEF MetadataTypeOK
    <3>2. /\ [remoteOf EXCEPT ![q][sample.from] = sample.nodes] \in [Peers -> [Peers -> NodeLists]]
          /\ [believed EXCEPT ![q][sample.from] = sample.version] \in [Peers -> [Peers -> Nat]]
      BY <2>1, <2>3, <3>1, NestedTyped
    <3> QED
      BY <2>4, <3>1, <3>2
  <2>7. budget' \in [Workers -> Nat] /\ unreadSamples' \in [Peers -> Seq(MetadataSamples)]
    BY <1>2, <2>1, <2>2, <2>5 DEF MetadataTypeOK
  <2>8. MetadataTypeOK'
    BY <1>2, <2>5, <2>6, <2>7 DEF MetadataTypeOK, localGraph, wire
  <2>9. PublishInv'
    BY <1>2, <2>5, IdleKeepsPublish DEF localGraph, wire
  <2> QED
    BY <2>8, <2>9 DEF MetadataInv
<1>10. ASSUME NEW t \in Workers, EndIngest(t)
       PROVE  MetadataInv'
  <2>1. MetadataTypeOK'
    BY <1>2, <1>10 DEF EndIngest, MetadataTypeOK, To, Places, localGraph, remoteGraph, wire
  <2>2. PublishInv'
    BY <1>2, <1>10, IdleKeepsPublish DEF EndIngest, Runs, localGraph, wire
  <2> QED
    BY <2>1, <2>2 DEF MetadataInv
<1>11. ASSUME NEW p \in Peers, Die(p) \/ ListenerReturns(p)
       PROVE  MetadataInv'
  <2>1. MetadataTypeOK'
    BY <1>2, <1>11 DEF Die, ListenerReturns, MetadataTypeOK, localGraph, remoteGraph, wire
  <2>2. UNCHANGED <<nodes, history, lost, copy, doing>>
    BY <1>11 DEF Die, ListenerReturns, localGraph, wire
  <2>3. PublishInv'
    BY <1>2, <2>2 DEF PublishInv, OneWriter, HoldsPublish, WrittenIsCurrent, Still
  <2> QED
    BY <2>1, <2>3 DEF MetadataInv
<1>12. ASSUME NEW p \in Peers, NEW q \in Peers, MatchEndpoints(q, p) \/ Deliver(q, p)
       PROVE  MetadataInv'
  <2>1. unreadSamples' \in [Peers -> Seq(MetadataSamples)]
    <3>1. unreadSamples[q] \in Seq(MetadataSamples) /\ history[p] \in MetadataSamples
      BY <1>2 DEF MetadataTypeOK
    <3>2. Append(unreadSamples[q], history[p]) \in Seq(MetadataSamples)
      BY <3>1
    <3>3. \/ unreadSamples' = unreadSamples
          \/ unreadSamples' = [unreadSamples EXCEPT ![q] = Append(unreadSamples[q], history[p])]
      BY <1>12 DEF MatchEndpoints, Deliver
    <3> QED
      BY <1>2, <3>2, <3>3 DEF MetadataTypeOK
  <2>2. /\ linked' \in [Peers -> [Peers -> BOOLEAN]]
        /\ undelivered' \in [Peers -> [Peers -> BOOLEAN]]
        /\ inListener' \in [Peers -> BOOLEAN]
    <3>1. /\ linked' = linked \/ linked' = [linked EXCEPT ![q][p] = TRUE]
          /\ \/ undelivered' = [undelivered EXCEPT ![q][p] = TRUE]
             \/ undelivered' = [undelivered EXCEPT ![q][p] = FALSE]
          /\ inListener' = inListener \/ inListener' = [inListener EXCEPT ![q] = TRUE]
      BY <1>12 DEF MatchEndpoints, Deliver
    <3>2. TRUE \in BOOLEAN /\ FALSE \in BOOLEAN
      OBVIOUS
    <3>3. /\ [linked EXCEPT ![q][p] = TRUE] \in [Peers -> [Peers -> BOOLEAN]]
          /\ [undelivered EXCEPT ![q][p] = TRUE] \in [Peers -> [Peers -> BOOLEAN]]
          /\ [undelivered EXCEPT ![q][p] = FALSE] \in [Peers -> [Peers -> BOOLEAN]]
      BY <1>2, <3>2, NestedTyped DEF MetadataTypeOK
    <3>4. inListener' \in [Peers -> BOOLEAN]
      BY <1>2, <3>1 DEF MetadataTypeOK
    <3> QED
      BY <1>2, <3>1, <3>3, <3>4 DEF MetadataTypeOK
  <2>3. UNCHANGED <<up, localGraph, remoteGraph, history, doing, copy, budget, lost, losses>>
    BY <1>12 DEF MatchEndpoints, Deliver
  <2>4. MetadataTypeOK'
    BY <1>2, <2>1, <2>2, <2>3 DEF MetadataTypeOK, localGraph, remoteGraph
  <2>5. PublishInv'
    BY <1>2, <2>3 DEF PublishInv, OneWriter, HoldsPublish, WrittenIsCurrent, Still, localGraph
  <2> QED
    BY <2>4, <2>5 DEF MetadataInv
<1>13. CASE UNCHANGED metaVars
  <2>1. MetadataTypeOK'
    BY <1>2, <1>13 DEF metaVars, localGraph, remoteGraph, wire, MetadataTypeOK
  <2>2. PublishInv'
    BY <1>2, <1>13 DEF metaVars, localGraph, wire, PublishInv, OneWriter, HoldsPublish,
                       WrittenIsCurrent, Still
  <2> QED
    BY <2>1, <2>2 DEF MetadataInv
<1> QED
  BY <1>3, <1>4, <1>5, <1>6, <1>7, <1>8, <1>9, <1>10, <1>11, <1>12, <1>13
     DEF MetadataNext, Publishing, Ingesting

\* What was written last is what a late joiner is offered.
LEMMA MetadataOffers == MetadataInv => MetadataTypeOK /\ OfferedIsCurrent
<1> SUFFICES ASSUME MetadataInv
             PROVE  OfferedIsCurrent
  BY DEF MetadataInv
<1> QED
  BY DEF MetadataInv, PublishInv, WrittenIsCurrent, Still, OfferedIsCurrent

-----------------------------------------------------------------------------
(* The parts together: a behaviour moves one of them.                      *)

messagingVars == <<subject, vars, serviceVars, metaVars, regVars>>

\* A step of the whole is a step or a stutter of each part.
LEMMA MessagingParts ==
    ASSUME [MessagingNext]_messagingVars
    PROVE  [Next]_vars /\ [ServiceNext]_serviceVars /\ [MetadataNext]_metaVars
<1>1. CASE MessagingNext
  BY <1>1 DEF MessagingNext
<1>2. CASE UNCHANGED messagingVars
  BY <1>2 DEF messagingVars
<1> QED
  BY <1>1, <1>2

\* Nobody misses what is due to it, for a table of any size: a server with room
\* hears the next request (server_impl.cpp) unless its enabled reader was disabled
\* by a decision taken earlier, and waits for a service and late joiners miss nothing.
THEOREM NothingIsMissed == MessagingSpec => []NothingMissed
<1> DEFINE Whole == IInv /\ RoomInv /\ ServiceInv /\ MetadataInv
<1>1. MessagingInit => Whole
  BY InitInv, InitRoom, ServiceInitInv, MetadataInitInv DEF MessagingInit
<1>2. Whole /\ [MessagingNext]_messagingVars => Whole'
  BY MessagingParts, NextInv, NextRoom, ServiceNextInv, MetadataNextInv
<1>3. Whole => NothingMissed
  BY ServiceTyped, MetadataOffers DEF RoomInv, ServiceInv, NothingMissed
<1> QED
  BY <1>1, <1>2, <1>3, PTL DEF MessagingSpec, messagingVars
=============================================================================
