--------------------------- MODULE WaitSetProofs ---------------------------
(***************************************************************************)
(* Proofs about WaitSet for every number of threads, guards, readers and   *)
(* registrations: type correctness, the handoff between a sleeping waiter  *)
(* and the threads that change the topology, the registrations (who owns a *)
(* waitable and whose condition the native WaitSet holds), and what a      *)
(* sleeping thread relies on.                                              *)
(***************************************************************************)
EXTENDS WaitSet, TLAPS

\* The initial states of a fresh WaitSet, some waitables registered, are typed.
LEMMA InitType == Init => TypeOK
  <1> SUFFICES ASSUME Init PROVE TypeOK
    OBVIOUS
  <1>1. AnyWaitable \in Waitables
    BY WaitSetAssumption DEF AnyWaitable
  <1>2. /\ Len(InitialRegs) \in Nat /\ Len(InitialRegs) <= MaxRegistrations
        /\ MaxRegistrations \in Nat
    BY WaitSetAssumption
  <1>3. \A n \in 1..Len(InitialRegs) : InitialRegs[n] \in Waitables
    BY WaitSetAssumption
  <1>4. target \in [Regs -> Waitables]
    BY <1>1, <1>2, <1>3 DEF Init, Regs
  <1>5. owner \in [Waitables -> RegIds]
    <2>1. ASSUME NEW x \in Waitables, InitialOf(x) # {}
          PROVE (CHOOSE n \in InitialOf(x) : TRUE) \in RegIds
      BY <1>2, <2>1 DEF InitialOf, RegIds
    <2>2. QED
      BY <1>2, <2>1 DEF Init, RegIds
  <1>6. RegistrationType
    BY <1>2, <1>4, <1>5 DEF Init, Regs, RegIds, RegistrationType, Phases
  <1>7. LockType /\ TopologyType /\ FlagType /\ ContextType /\ WakeType
    BY DEF Init, LockType, TopologyType, FlagType, ContextType, WakeType
  <1>8. GuardType /\ ReaderType /\ BoundType
    BY WaitSetAssumption DEF Init, GuardType, ReaderType, BoundType
  <1>9. WaitType /\ PcType
    BY DEF Init, WaitType, PcType, Pcs, CallPcs, RegIds
  <1>10. CallType
    BY <1>1, <1>2 DEF Init, CallType, AllOperations, RegIds
  <1>11. QED
    BY <1>6, <1>7, <1>8, <1>9, <1>10 DEF TypeOK

\* Every step of a thread, of Fast DDS or of the clock keeps the types: one step
\* per action, and under it one per group of variables the action assigns.
LEMMA NextType == TypeOK /\ [Next]_vars => TypeOK'
  <1>0. /\ Waiters \subseteq Threads /\ Clients \subseteq Threads
        /\ MaxRegistrations \in Nat /\ MaxTrigger \in Nat /\ MaxCalls \in Nat
        /\ MaxArrivals \in Nat /\ MaxFaults \in Nat
        /\ Guards \subseteq Waitables /\ Readers \subseteq Waitables
        /\ Timeouts \subseteq {"poll", "finite", "infinite"}
        /\ Operations \subseteq AllOperations
        /\ 0 \in RegIds /\ Regs \subseteq RegIds
    BY WaitSetAssumption DEF Threads, Waitables, Regs, RegIds
  <1>1. ASSUME TypeOK, NEW t \in Threads, Publish(t) PROVE TypeOK'
    <2>1. ContextType' /\ WakeType' /\ LockType' /\ RegistrationType' /\ GuardType' /\
       ReaderType' /\ FlagType' /\ WaitType' /\ CallType' /\ BoundType'
      BY <1>1 DEF Publish, TypeOK, ContextType, WakeType, LockType, RegistrationType,
         GuardType, ReaderType, FlagType, WaitType, CallType, BoundType, ctxVars,
         wakeVars, lockVars, regVars, guardVars, readerVars, waitVars, callVars, boundVars
    <2>2. TopologyType'
      BY <1>0, <1>1 DEF Publish, Goto, TypeOK, TopologyType, topoVars
    <2>3. PcType'
      BY <1>0, <1>1 DEF Publish, Goto, TypeOK, PcType, Pcs, WaitPcs, MutationPcs, CallPcs
    <2>4. QED
      BY <2>1, <2>2, <2>3 DEF TypeOK
  <1>2. ASSUME TypeOK, NEW t \in Threads, MutBump(t) PROVE TypeOK'
    <2>1. ContextType' /\ TopologyType' /\ LockType' /\ RegistrationType' /\ GuardType' /\
       ReaderType' /\ FlagType' /\ WaitType' /\ CallType' /\ BoundType'
      BY <1>2 DEF MutBump, TypeOK, ContextType, TopologyType, LockType, RegistrationType,
         GuardType, ReaderType, FlagType, WaitType, CallType, BoundType, ctxVars,
         topoVars, lockVars, regVars, guardVars, readerVars, waitVars, callVars, boundVars
    <2>2. WakeType'
      BY <1>0, <1>2 DEF MutBump, Bump, Goto, TypeOK, WakeType, wakeVars
    <2>3. PcType'
      BY <1>0, <1>2 DEF MutBump, Bump, Goto, TypeOK, PcType, Pcs, WaitPcs, MutationPcs,
         CallPcs
    <2>4. QED
      BY <2>1, <2>2, <2>3 DEF TypeOK
  <1>3. ASSUME TypeOK, NEW t \in Threads, MutWake(t) PROVE TypeOK'
    <2>1. ContextType' /\ TopologyType' /\ LockType' /\ RegistrationType' /\ GuardType' /\
       ReaderType' /\ FlagType' /\ WaitType' /\ CallType'
      BY <1>3 DEF MutWake, TypeOK, ContextType, TopologyType, LockType, RegistrationType,
         GuardType, ReaderType, FlagType, WaitType, CallType, ctxVars, topoVars, lockVars,
         regVars, guardVars, readerVars, waitVars, callVars
    <2>2. WakeType'
      BY <1>0, <1>3 DEF MutWake, SetControl, Body, Goto, TypeOK, WakeType, wakeVars
    <2>3. PcType'
      BY <1>0, <1>3 DEF MutWake, SetControl, Body, Goto, TypeOK, PcType, Pcs, WaitPcs,
         MutationPcs, CallPcs
    <2>4. BoundType'
      BY <1>0, <1>3 DEF MutWake, SetControl, Body, Goto, TypeOK, BoundType, boundVars
    <2>5. QED
      BY <2>1, <2>2, <2>3, <2>4 DEF TypeOK
  <1>4. ASSUME TypeOK, NEW t \in Threads, EndTopology(t) PROVE TypeOK'
    <2>1. ContextType' /\ WakeType' /\ LockType' /\ RegistrationType' /\ GuardType' /\
       ReaderType' /\ FlagType' /\ WaitType' /\ CallType' /\ BoundType'
      BY <1>4 DEF EndTopology, TypeOK, ContextType, WakeType, LockType, RegistrationType,
         GuardType, ReaderType, FlagType, WaitType, CallType, BoundType, ctxVars,
         wakeVars, lockVars, regVars, guardVars, readerVars, waitVars, callVars, boundVars
    <2>2. TopologyType'
      BY <1>0, <1>4 DEF EndTopology, Goto, TypeOK, TopologyType, topoVars
    <2>3. PcType'
      BY <1>0, <1>4 DEF EndTopology, Goto, TypeOK, PcType, Pcs, WaitPcs, MutationPcs,
         CallPcs
    <2>4. QED
      BY <2>1, <2>2, <2>3 DEF TypeOK
  <1>5. ASSUME TypeOK, NEW t \in Threads, Retire(t) PROVE TypeOK'
    <2>1. ContextType' /\ WakeType' /\ LockType' /\ RegistrationType' /\ GuardType' /\
       ReaderType' /\ FlagType' /\ WaitType' /\ CallType' /\ BoundType'
      BY <1>5 DEF Retire, TypeOK, ContextType, WakeType, LockType, RegistrationType,
         GuardType, ReaderType, FlagType, WaitType, CallType, BoundType, ctxVars,
         wakeVars, lockVars, regVars, guardVars, readerVars, waitVars, callVars, boundVars
    <2>2. TopologyType'
      BY <1>0, <1>5 DEF Retire, Goto, TypeOK, TopologyType, topoVars
    <2>3. PcType'
      BY <1>0, <1>5 DEF Retire, Goto, TypeOK, PcType, Pcs, WaitPcs, MutationPcs, CallPcs
    <2>4. QED
      BY <2>1, <2>2, <2>3 DEF TypeOK
  <1>6. ASSUME TypeOK, NEW t \in Threads, EndBump(t) PROVE TypeOK'
    <2>1. ContextType' /\ TopologyType' /\ LockType' /\ RegistrationType' /\ GuardType' /\
       ReaderType' /\ FlagType' /\ WaitType' /\ CallType' /\ BoundType'
      BY <1>6 DEF EndBump, TypeOK, ContextType, TopologyType, LockType, RegistrationType,
         GuardType, ReaderType, FlagType, WaitType, CallType, BoundType, ctxVars,
         topoVars, lockVars, regVars, guardVars, readerVars, waitVars, callVars, boundVars
    <2>2. WakeType'
      BY <1>0, <1>6 DEF EndBump, Bump, Goto, TypeOK, WakeType, wakeVars
    <2>3. PcType'
      BY <1>0, <1>6 DEF EndBump, Bump, Goto, TypeOK, PcType, Pcs, WaitPcs, MutationPcs,
         CallPcs
    <2>4. QED
      BY <2>1, <2>2, <2>3 DEF TypeOK
  <1>7. ASSUME TypeOK, NEW t \in Threads, EndWake(t) PROVE TypeOK'
    <2>1. ContextType' /\ TopologyType' /\ LockType' /\ RegistrationType' /\ GuardType' /\
       ReaderType' /\ FlagType' /\ WaitType' /\ CallType'
      BY <1>7 DEF EndWake, TypeOK, ContextType, TopologyType, LockType, RegistrationType,
         GuardType, ReaderType, FlagType, WaitType, CallType, ctxVars, topoVars, lockVars,
         regVars, guardVars, readerVars, waitVars, callVars
    <2>2. WakeType'
      BY <1>0, <1>7 DEF EndWake, SetControl, Goto, TypeOK, WakeType, wakeVars
    <2>3. PcType'
      BY <1>0, <1>7 DEF EndWake, SetControl, Goto, TypeOK, PcType, Pcs, WaitPcs,
         MutationPcs, CallPcs
    <2>4. BoundType'
      BY <1>0, <1>7 DEF EndWake, SetControl, Goto, TypeOK, BoundType, boundVars
    <2>5. QED
      BY <2>1, <2>2, <2>3, <2>4 DEF TypeOK
  <1>8. ASSUME TypeOK, NEW t \in Threads, Poison(t) PROVE TypeOK'
    <2>1. ContextType' /\ WakeType' /\ TopologyType' /\ LockType' /\ RegistrationType' /\
       GuardType' /\ ReaderType' /\ WaitType' /\ CallType' /\ BoundType'
      BY <1>8 DEF Poison, TypeOK, ContextType, WakeType, TopologyType, LockType,
         RegistrationType, GuardType, ReaderType, WaitType, CallType, BoundType, ctxVars,
         wakeVars, topoVars, lockVars, regVars, guardVars, readerVars, waitVars, callVars,
         boundVars
    <2>2. FlagType'
      BY <1>0, <1>8 DEF Poison, Goto, TypeOK, FlagType
    <2>3. PcType'
      BY <1>0, <1>8 DEF Poison, Goto, TypeOK, PcType, Pcs, WaitPcs, MutationPcs, CallPcs
    <2>4. QED
      BY <2>1, <2>2, <2>3 DEF TypeOK
  <1>9. ASSUME TypeOK, NEW t \in Threads, DetachCas(t) PROVE TypeOK'
    <2>1. ContextType' /\ WakeType' /\ TopologyType' /\ LockType' /\ GuardType' /\
       ReaderType' /\ FlagType' /\ WaitType' /\ CallType' /\ BoundType'
      BY <1>9 DEF DetachCas, TypeOK, ContextType, WakeType, TopologyType, LockType,
         GuardType, ReaderType, FlagType, WaitType, CallType, BoundType, ctxVars,
         wakeVars, topoVars, lockVars, guardVars, readerVars, waitVars, callVars,
         boundVars
    <2>2. RegistrationType'
      BY <1>0, <1>9 DEF DetachCas, AfterDetach, Goto, TypeOK, RegistrationType, CallType,
         Phases, AllOperations, regVars
    <2>3. PcType'
      BY <1>0, <1>9 DEF DetachCas, AfterDetach, Goto, TypeOK, PcType, Pcs, WaitPcs,
         MutationPcs, CallPcs
    <2>4. QED
      BY <2>1, <2>2, <2>3 DEF TypeOK
  <1>10. ASSUME TypeOK, NEW t \in Threads, DetachLock(t) PROVE TypeOK'
    <2>1. ContextType' /\ WakeType' /\ TopologyType' /\ RegistrationType' /\ GuardType' /\
       ReaderType' /\ FlagType' /\ WaitType' /\ CallType' /\ BoundType'
      BY <1>10 DEF DetachLock, TypeOK, ContextType, WakeType, TopologyType,
         RegistrationType, GuardType, ReaderType, FlagType, WaitType, CallType, BoundType,
         ctxVars, wakeVars, topoVars, regVars, guardVars, readerVars, waitVars, callVars,
         boundVars
    <2>2. LockType'
      BY <1>0, <1>10 DEF DetachLock, Goto, TypeOK, LockType, CallType, Regs,
         AllOperations, lockVars
    <2>3. PcType'
      BY <1>0, <1>10 DEF DetachLock, Goto, TypeOK, PcType, Pcs, WaitPcs, MutationPcs,
         CallPcs
    <2>4. QED
      BY <2>1, <2>2, <2>3 DEF TypeOK
  <1>11. ASSUME TypeOK, NEW t \in Threads, Release(t) PROVE TypeOK'
    <2>1. ContextType' /\ WakeType' /\ TopologyType' /\ LockType' /\ GuardType' /\
       ReaderType' /\ FlagType' /\ WaitType' /\ CallType' /\ BoundType'
      BY <1>11 DEF Release, TypeOK, ContextType, WakeType, TopologyType, LockType,
         GuardType, ReaderType, FlagType, WaitType, CallType, BoundType, ctxVars,
         wakeVars, topoVars, lockVars, guardVars, readerVars, waitVars, callVars,
         boundVars
    <2>2. RegistrationType'
      BY <1>0, <1>11 DEF Release, ReleaseStep, Goto, TypeOK, RegistrationType, CallType,
         Phases, AllOperations, regVars
    <2>3. PcType'
      BY <1>0, <1>11 DEF Release, ReleaseStep, Goto, TypeOK, PcType, Pcs, WaitPcs,
         MutationPcs, CallPcs
    <2>4. QED
      BY <2>1, <2>2, <2>3 DEF TypeOK
  <1>12. ASSUME TypeOK, NEW t \in Threads, DetachNative(t) PROVE TypeOK'
    <2>1. ContextType' /\ WakeType' /\ TopologyType' /\ LockType' /\ GuardType' /\
       ReaderType' /\ FlagType' /\ WaitType' /\ CallType'
      BY <1>12 DEF DetachNative, TypeOK, ContextType, WakeType, TopologyType, LockType,
         GuardType, ReaderType, FlagType, WaitType, CallType, ctxVars, wakeVars, topoVars,
         lockVars, guardVars, readerVars, waitVars, callVars
    <2>2. RegistrationType'
      BY <1>0, <1>12 DEF DetachNative, Goto, TypeOK, RegistrationType, CallType, Phases,
         AllOperations, regVars
    <2>3. PcType'
      BY <1>0, <1>12 DEF DetachNative, Goto, TypeOK, PcType, Pcs, WaitPcs, MutationPcs,
         CallPcs
    <2>4. BoundType'
      BY <1>0, <1>12 DEF DetachNative, Goto, TypeOK, BoundType, boundVars
    <2>5. QED
      BY <2>1, <2>2, <2>3, <2>4 DEF TypeOK
  <1>13. ASSUME TypeOK, NEW t \in Threads, Unclaim(t) PROVE TypeOK'
    <2>1. ContextType' /\ WakeType' /\ TopologyType' /\ LockType' /\ GuardType' /\
       ReaderType' /\ FlagType' /\ WaitType' /\ CallType' /\ BoundType'
      BY <1>13 DEF Unclaim, TypeOK, ContextType, WakeType, TopologyType, LockType,
         GuardType, ReaderType, FlagType, WaitType, CallType, BoundType, ctxVars,
         wakeVars, topoVars, lockVars, guardVars, readerVars, waitVars, callVars,
         boundVars
    <2>2. RegistrationType'
      BY <1>0, <1>13 DEF Unclaim, Goto, TypeOK, RegistrationType, CallType, Phases,
         AllOperations, regVars
    <2>3. PcType'
      BY <1>0, <1>13 DEF Unclaim, Goto, TypeOK, PcType, Pcs, WaitPcs, MutationPcs, CallPcs
    <2>4. QED
      BY <2>1, <2>2, <2>3 DEF TypeOK
  <1>14. ASSUME TypeOK, NEW t \in Threads, Erase(t) PROVE TypeOK'
    <2>1. ContextType' /\ WakeType' /\ TopologyType' /\ LockType' /\ GuardType' /\
       ReaderType' /\ FlagType' /\ WaitType' /\ CallType' /\ BoundType'
      BY <1>14 DEF Erase, TypeOK, ContextType, WakeType, TopologyType, LockType,
         GuardType, ReaderType, FlagType, WaitType, CallType, BoundType, ctxVars,
         wakeVars, topoVars, lockVars, guardVars, readerVars, waitVars, callVars,
         boundVars
    <2>2. RegistrationType'
      BY <1>0, <1>14 DEF Erase, Goto, TypeOK, RegistrationType, CallType, Phases,
         AllOperations, regVars
    <2>3. PcType'
      BY <1>0, <1>14 DEF Erase, Goto, TypeOK, PcType, Pcs, WaitPcs, MutationPcs, CallPcs
    <2>4. QED
      BY <2>1, <2>2, <2>3 DEF TypeOK
  <1>15. ASSUME TypeOK, NEW t \in Threads, DetachUnlock(t) PROVE TypeOK'
    <2>1. ContextType' /\ WakeType' /\ TopologyType' /\ RegistrationType' /\ GuardType' /\
       ReaderType' /\ FlagType' /\ WaitType' /\ CallType' /\ BoundType'
      BY <1>15 DEF DetachUnlock, TypeOK, ContextType, WakeType, TopologyType,
         RegistrationType, GuardType, ReaderType, FlagType, WaitType, CallType, BoundType,
         ctxVars, wakeVars, topoVars, regVars, guardVars, readerVars, waitVars, callVars,
         boundVars
    <2>2. LockType'
      BY <1>0, <1>15 DEF DetachUnlock, AfterDetach, Goto, TypeOK, LockType, CallType,
         Regs, AllOperations, lockVars
    <2>3. PcType'
      BY <1>0, <1>15 DEF DetachUnlock, AfterDetach, Goto, TypeOK, PcType, Pcs, WaitPcs,
         MutationPcs, CallPcs
    <2>4. QED
      BY <2>1, <2>2, <2>3 DEF TypeOK
  <1>16. ASSUME TypeOK, NEW t \in Threads, OpEnd(t) PROVE TypeOK'
    <2>1. WakeType' /\ TopologyType' /\ LockType' /\ RegistrationType' /\ GuardType' /\
       ReaderType' /\ FlagType' /\ WaitType' /\ BoundType'
      BY <1>16 DEF OpEnd, TypeOK, WakeType, TopologyType, LockType, RegistrationType,
         GuardType, ReaderType, FlagType, WaitType, BoundType, wakeVars, topoVars,
         lockVars, regVars, guardVars, readerVars, waitVars, boundVars
    <2>2. ContextType'
      BY <1>0, <1>16 DEF OpEnd, Goto, TypeOK, ContextType, ctxVars
    <2>3. CallType'
      BY <1>0, <1>16 DEF OpEnd, Goto, TypeOK, CallType, RegistrationType, AllOperations,
         Phases, callVars
    <2>4. PcType'
      BY <1>0, <1>16 DEF OpEnd, Goto, TypeOK, PcType, Pcs, WaitPcs, MutationPcs, CallPcs
    <2>5. QED
      BY <2>1, <2>2, <2>3, <2>4 DEF TypeOK
  <1>17. ASSUME TypeOK, NEW t \in Clients, StageTrigger(t) PROVE TypeOK'
    <2>1. ContextType' /\ WakeType' /\ TopologyType' /\ LockType' /\ RegistrationType' /\
       ReaderType' /\ FlagType' /\ WaitType' /\ CallType' /\ BoundType'
      BY <1>17 DEF StageTrigger, TypeOK, ContextType, WakeType, TopologyType, LockType,
         RegistrationType, ReaderType, FlagType, WaitType, CallType, BoundType, ctxVars,
         wakeVars, topoVars, lockVars, regVars, readerVars, waitVars, callVars, boundVars
    <2>2. GuardType'
      BY <1>0, <1>17 DEF StageTrigger, Exhausted, Goto, TypeOK, GuardType, CallType,
         AllOperations, guardVars
    <2>3. PcType'
      BY <1>0, <1>17 DEF StageTrigger, Exhausted, Goto, TypeOK, PcType, Pcs, WaitPcs,
         MutationPcs, CallPcs
    <2>4. QED
      BY <2>1, <2>2, <2>3 DEF TypeOK
  <1>18. ASSUME TypeOK, NEW t \in Clients, NotifyLock(t) PROVE TypeOK'
    <2>1. ContextType' /\ TopologyType' /\ RegistrationType' /\ GuardType' /\ ReaderType'
       /\ FlagType' /\ WaitType' /\ CallType' /\ BoundType'
      BY <1>18 DEF NotifyLock, TypeOK, ContextType, TopologyType, RegistrationType,
         GuardType, ReaderType, FlagType, WaitType, CallType, BoundType, ctxVars,
         topoVars, regVars, guardVars, readerVars, waitVars, callVars, boundVars
    <2>2. WakeType'
      BY <1>0, <1>18 DEF NotifyLock, Bump, Goto, TypeOK, WakeType, wakeVars
    <2>3. LockType'
      BY <1>0, <1>18 DEF NotifyLock, Bump, Goto, TypeOK, LockType, CallType, Regs,
         AllOperations, lockVars
    <2>4. PcType'
      BY <1>0, <1>18 DEF NotifyLock, Bump, Goto, TypeOK, PcType, Pcs, WaitPcs,
         MutationPcs, CallPcs
    <2>5. QED
      BY <2>1, <2>2, <2>3, <2>4 DEF TypeOK
  <1>19. ASSUME TypeOK, NEW t \in Clients, NotifyWake(t) PROVE TypeOK'
    <2>1. ContextType' /\ TopologyType' /\ RegistrationType' /\ GuardType' /\ ReaderType'
       /\ FlagType' /\ WaitType' /\ CallType'
      BY <1>19 DEF NotifyWake, TypeOK, ContextType, TopologyType, RegistrationType,
         GuardType, ReaderType, FlagType, WaitType, CallType, ctxVars, topoVars, regVars,
         guardVars, readerVars, waitVars, callVars
    <2>2. WakeType'
      BY <1>0, <1>19 DEF NotifyWake, SetControl, Goto, TypeOK, WakeType, wakeVars
    <2>3. LockType'
      BY <1>0, <1>19 DEF NotifyWake, SetControl, Goto, TypeOK, LockType, CallType, Regs,
         AllOperations, lockVars
    <2>4. PcType'
      BY <1>0, <1>19 DEF NotifyWake, SetControl, Goto, TypeOK, PcType, Pcs, WaitPcs,
         MutationPcs, CallPcs
    <2>5. BoundType'
      BY <1>0, <1>19 DEF NotifyWake, SetControl, Goto, TypeOK, BoundType, boundVars
    <2>6. QED
      BY <2>1, <2>2, <2>3, <2>4, <2>5 DEF TypeOK
  <1>20. ASSUME TypeOK, NEW t \in Clients, CloseCopy(t) PROVE TypeOK'
    <2>1. ContextType' /\ WakeType' /\ TopologyType' /\ LockType' /\ RegistrationType' /\
       GuardType' /\ ReaderType' /\ FlagType' /\ WaitType' /\ BoundType'
      BY <1>20 DEF CloseCopy, TypeOK, ContextType, WakeType, TopologyType, LockType,
         RegistrationType, GuardType, ReaderType, FlagType, WaitType, BoundType, ctxVars,
         wakeVars, topoVars, lockVars, regVars, guardVars, readerVars, waitVars, boundVars
    <2>2. CallType'
      BY <1>0, <1>20 DEF CloseCopy, Goto, TypeOK, CallType, RegistrationType,
         AllOperations, Phases, callVars
    <2>3. PcType'
      BY <1>0, <1>20 DEF CloseCopy, Goto, TypeOK, PcType, Pcs, WaitPcs, MutationPcs,
         CallPcs
    <2>4. QED
      BY <2>1, <2>2, <2>3 DEF TypeOK
  <1>21. ASSUME TypeOK, NEW t \in Clients, AddLock(t) PROVE TypeOK'
    <2>1. ContextType' /\ WakeType' /\ TopologyType' /\ GuardType' /\ ReaderType' /\
       FlagType' /\ WaitType' /\ BoundType'
      BY <1>21 DEF AddLock, TypeOK, ContextType, WakeType, TopologyType, GuardType,
         ReaderType, FlagType, WaitType, BoundType, ctxVars, wakeVars, topoVars,
         guardVars, readerVars, waitVars, boundVars
    <2>2. LockType'
      BY <1>0, <1>21 DEF AddLock, Goto, TypeOK, LockType, CallType, Regs, AllOperations,
         lockVars
    <2>3. RegistrationType'
      <3>1. CASE poisoned \/ created = MaxRegistrations
        BY <1>21, <3>1 DEF AddLock, TypeOK, RegistrationType
      <3>2. CASE ~(poisoned \/ created = MaxRegistrations)
        <4>1. created + 1 \in Regs /\ created' = created + 1
          BY <1>0, <1>21, <3>2 DEF AddLock, TypeOK, RegistrationType, Regs
        <4>2. created' \in 0..MaxRegistrations
          BY <1>0, <4>1 DEF Regs
        <4>3. phase' \in [Regs -> Phases] /\ target' \in [Regs -> Waitables]
          BY <1>0, <1>21, <3>2, <4>1 DEF AddLock, TypeOK, RegistrationType, CallType, Phases
        <4>4. QED
          BY <1>21, <3>2, <4>2, <4>3 DEF AddLock, TypeOK, RegistrationType
      <3>3. QED
        BY <3>1, <3>2
    <2>4. CallType'
      <3>1. CASE poisoned \/ created = MaxRegistrations
        BY <1>21, <3>1 DEF AddLock, TypeOK, CallType
      <3>2. CASE ~(poisoned \/ created = MaxRegistrations)
        <4>1. created + 1 \in RegIds
          BY <1>0, <1>21, <3>2 DEF TypeOK, RegistrationType, RegIds
        <4>2. QED
          BY <1>21, <3>2, <4>1 DEF AddLock, TypeOK, CallType
      <3>3. QED
        BY <3>1, <3>2
    <2>5. PcType'
      BY <1>0, <1>21 DEF AddLock, Goto, TypeOK, PcType, Pcs, WaitPcs, MutationPcs, CallPcs
    <2>6. QED
      BY <2>1, <2>2, <2>3, <2>4, <2>5 DEF TypeOK
  <1>22. ASSUME TypeOK, NEW t \in Clients, Claim(t) PROVE TypeOK'
    <2>1. ContextType' /\ WakeType' /\ TopologyType' /\ LockType' /\ GuardType' /\
       ReaderType' /\ FlagType' /\ WaitType' /\ CallType' /\ BoundType'
      BY <1>22 DEF Claim, TypeOK, ContextType, WakeType, TopologyType, LockType,
         GuardType, ReaderType, FlagType, WaitType, CallType, BoundType, ctxVars,
         wakeVars, topoVars, lockVars, guardVars, readerVars, waitVars, callVars,
         boundVars
    <2>2. RegistrationType'
      BY <1>0, <1>22 DEF Claim, Goto, TypeOK, RegistrationType, CallType, Phases,
         AllOperations, regVars
    <2>3. PcType'
      BY <1>0, <1>22 DEF Claim, Goto, TypeOK, PcType, Pcs, WaitPcs, MutationPcs, CallPcs
    <2>4. QED
      BY <2>1, <2>2, <2>3 DEF TypeOK
  <1>23. ASSUME TypeOK, NEW t \in Clients, AttachReader(t) PROVE TypeOK'
    <2>1. ContextType' /\ WakeType' /\ TopologyType' /\ LockType' /\ GuardType' /\
       ReaderType' /\ FlagType' /\ WaitType' /\ CallType'
      BY <1>23 DEF AttachReader, TypeOK, ContextType, WakeType, TopologyType, LockType,
         GuardType, ReaderType, FlagType, WaitType, CallType, ctxVars, wakeVars, topoVars,
         lockVars, guardVars, readerVars, waitVars, callVars
    <2>2. RegistrationType'
      BY <1>0, <1>23 DEF AttachReader, Goto, TypeOK, RegistrationType, CallType, Phases,
         AllOperations, regVars
    <2>3. PcType'
      BY <1>0, <1>23 DEF AttachReader, Goto, TypeOK, PcType, Pcs, WaitPcs, MutationPcs,
         CallPcs
    <2>4. BoundType'
      BY <1>0, <1>23 DEF AttachReader, Goto, TypeOK, BoundType, boundVars
    <2>5. QED
      BY <2>1, <2>2, <2>3, <2>4 DEF TypeOK
  <1>24. ASSUME TypeOK, NEW t \in Clients, Claimed(t) PROVE TypeOK'
    <2>1. ContextType' /\ WakeType' /\ TopologyType' /\ LockType' /\ GuardType' /\
       ReaderType' /\ FlagType' /\ WaitType' /\ CallType' /\ BoundType'
      BY <1>24 DEF Claimed, TypeOK, ContextType, WakeType, TopologyType, LockType,
         GuardType, ReaderType, FlagType, WaitType, CallType, BoundType, ctxVars,
         wakeVars, topoVars, lockVars, guardVars, readerVars, waitVars, callVars,
         boundVars
    <2>2. RegistrationType'
      BY <1>0, <1>24 DEF Claimed, Goto, TypeOK, RegistrationType, CallType, Phases,
         AllOperations, regVars
    <2>3. PcType'
      BY <1>0, <1>24 DEF Claimed, Goto, TypeOK, PcType, Pcs, WaitPcs, MutationPcs, CallPcs
    <2>4. QED
      BY <2>1, <2>2, <2>3 DEF TypeOK
  <1>25. ASSUME TypeOK, NEW t \in Clients, Insert(t) PROVE TypeOK'
    <2>1. ContextType' /\ WakeType' /\ TopologyType' /\ LockType' /\ GuardType' /\
       ReaderType' /\ FlagType' /\ WaitType' /\ CallType' /\ BoundType'
      BY <1>25 DEF Insert, TypeOK, ContextType, WakeType, TopologyType, LockType,
         GuardType, ReaderType, FlagType, WaitType, CallType, BoundType, ctxVars,
         wakeVars, topoVars, lockVars, guardVars, readerVars, waitVars, callVars,
         boundVars
    <2>2. RegistrationType'
      BY <1>0, <1>25 DEF Insert, Goto, TypeOK, RegistrationType, CallType, Phases,
         AllOperations, regVars
    <2>3. PcType'
      BY <1>0, <1>25 DEF Insert, Goto, TypeOK, PcType, Pcs, WaitPcs, MutationPcs, CallPcs
    <2>4. QED
      BY <2>1, <2>2, <2>3 DEF TypeOK
  <1>26. ASSUME TypeOK, NEW t \in Clients, AddUnlock(t) PROVE TypeOK'
    <2>1. ContextType' /\ WakeType' /\ TopologyType' /\ RegistrationType' /\ GuardType' /\
       ReaderType' /\ FlagType' /\ WaitType' /\ CallType' /\ BoundType'
      BY <1>26 DEF AddUnlock, TypeOK, ContextType, WakeType, TopologyType,
         RegistrationType, GuardType, ReaderType, FlagType, WaitType, CallType, BoundType,
         ctxVars, wakeVars, topoVars, regVars, guardVars, readerVars, waitVars, callVars,
         boundVars
    <2>2. LockType'
      BY <1>0, <1>26 DEF AddUnlock, Goto, TypeOK, LockType, CallType, Regs, AllOperations,
         lockVars
    <2>3. PcType'
      BY <1>0, <1>26 DEF AddUnlock, Goto, TypeOK, PcType, Pcs, WaitPcs, MutationPcs,
         CallPcs
    <2>4. QED
      BY <2>1, <2>2, <2>3 DEF TypeOK
  <1>27. ASSUME TypeOK, NEW t \in Clients, RemoveFind(t) PROVE TypeOK'
    <2>1. ContextType' /\ WakeType' /\ TopologyType' /\ LockType' /\ RegistrationType' /\
       GuardType' /\ ReaderType' /\ FlagType' /\ WaitType' /\ CallType' /\ BoundType'
      BY <1>27 DEF RemoveFind, TypeOK, ContextType, WakeType, TopologyType, LockType,
         RegistrationType, GuardType, ReaderType, FlagType, WaitType, CallType, BoundType,
         ctxVars, wakeVars, topoVars, lockVars, regVars, guardVars, readerVars, waitVars,
         callVars, boundVars
    <2>2. PcType'
      BY <1>0, <1>27 DEF RemoveFind, Goto, TypeOK, PcType, Pcs, WaitPcs, MutationPcs,
         CallPcs
    <2>3. QED
      BY <2>1, <2>2 DEF TypeOK
  <1>28. ASSUME TypeOK, NEW t \in Clients, BlockCopy(t) PROVE TypeOK'
    <2>1. ContextType' /\ WakeType' /\ TopologyType' /\ LockType' /\ RegistrationType' /\
       GuardType' /\ FlagType' /\ WaitType' /\ BoundType'
      BY <1>28 DEF BlockCopy, TypeOK, ContextType, WakeType, TopologyType, LockType,
         RegistrationType, GuardType, FlagType, WaitType, BoundType, ctxVars,
         wakeVars, topoVars, lockVars, regVars, guardVars, waitVars, boundVars
    <2>2. CallType'
      BY <1>0, <1>28 DEF BlockCopy, Goto, TypeOK, CallType, RegistrationType,
         AllOperations, Phases, callVars
    <2>3. PcType'
      BY <1>0, <1>28 DEF BlockCopy, Goto, TypeOK, PcType, Pcs, WaitPcs, MutationPcs,
         CallPcs
    <2>4. ReaderType'
      BY <1>0, <1>28 DEF BlockCopy, TypeOK, ReaderType, CallType
    <2>5. QED
      BY <2>1, <2>2, <2>3, <2>4 DEF TypeOK
  <1>29. ASSUME TypeOK, NEW t \in Clients, BlockLock(t) PROVE TypeOK'
    <2>1. ContextType' /\ WakeType' /\ TopologyType' /\ RegistrationType' /\ GuardType' /\
       ReaderType' /\ FlagType' /\ WaitType' /\ CallType' /\ BoundType'
      BY <1>29 DEF BlockLock, TypeOK, ContextType, WakeType, TopologyType,
         RegistrationType, GuardType, ReaderType, FlagType, WaitType, CallType, BoundType,
         ctxVars, wakeVars, topoVars, regVars, guardVars, readerVars, waitVars, callVars,
         boundVars
    <2>2. LockType'
      BY <1>0, <1>29 DEF BlockLock, Goto, TypeOK, LockType, CallType, Regs, AllOperations,
         lockVars
    <2>3. PcType'
      BY <1>0, <1>29 DEF BlockLock, Goto, TypeOK, PcType, Pcs, WaitPcs, MutationPcs,
         CallPcs
    <2>4. QED
      BY <2>1, <2>2, <2>3 DEF TypeOK
  <1>30. ASSUME TypeOK, NEW t \in Clients, Reconcile(t) PROVE TypeOK'
    <2>1. ContextType' /\ WakeType' /\ TopologyType' /\ LockType' /\ RegistrationType' /\
       GuardType' /\ ReaderType' /\ FlagType' /\ WaitType' /\ CallType' /\ BoundType'
      BY <1>30 DEF Reconcile, TypeOK, ContextType, WakeType, TopologyType, LockType,
         RegistrationType, GuardType, ReaderType, FlagType, WaitType, CallType, BoundType,
         ctxVars, wakeVars, topoVars, lockVars, regVars, guardVars, readerVars, waitVars,
         callVars, boundVars
    <2>2. PcType'
      BY <1>0, <1>30 DEF Reconcile, ReconcileStep, Goto, TypeOK, PcType, Pcs, WaitPcs,
         MutationPcs, CallPcs
    <2>3. QED
      BY <2>1, <2>2 DEF TypeOK
  <1>31. ASSUME TypeOK, NEW t \in Clients, ReconcileNative(t) PROVE TypeOK'
    <2>1. ContextType' /\ WakeType' /\ TopologyType' /\ LockType' /\ GuardType' /\
       ReaderType' /\ FlagType' /\ WaitType' /\ CallType'
      BY <1>31 DEF ReconcileNative, TypeOK, ContextType, WakeType, TopologyType, LockType,
         GuardType, ReaderType, FlagType, WaitType, CallType, ctxVars, wakeVars, topoVars,
         lockVars, guardVars, readerVars, waitVars, callVars
    <2>2. RegistrationType'
      BY <1>0, <1>31 DEF ReconcileNative, Goto, TypeOK, RegistrationType, CallType,
         Phases, AllOperations, regVars
    <2>3. PcType'
      BY <1>0, <1>31 DEF ReconcileNative, Goto, TypeOK, PcType, Pcs, WaitPcs, MutationPcs,
         CallPcs
    <2>4. BoundType'
      BY <1>0, <1>31 DEF ReconcileNative, Goto, TypeOK, BoundType, boundVars
    <2>5. QED
      BY <2>1, <2>2, <2>3, <2>4 DEF TypeOK
  <1>32. ASSUME TypeOK, NEW t \in Clients, Children(t) PROVE TypeOK'
    <2>1. ContextType' /\ TopologyType' /\ LockType' /\ RegistrationType' /\ GuardType' /\
       ReaderType' /\ FlagType' /\ WaitType' /\ CallType' /\ BoundType'
      BY <1>32 DEF Children, TypeOK, ContextType, TopologyType, LockType,
         RegistrationType, GuardType, ReaderType, FlagType, WaitType, CallType, BoundType,
         ctxVars, topoVars, lockVars, regVars, guardVars, readerVars, waitVars, callVars,
         boundVars
    <2>2. WakeType'
      BY <1>0, <1>32 DEF Children, Bump, Goto, TypeOK, WakeType, wakeVars
    <2>3. PcType'
      BY <1>0, <1>32 DEF Children, Bump, Goto, TypeOK, PcType, Pcs, WaitPcs, MutationPcs,
         CallPcs
    <2>4. QED
      BY <2>1, <2>2, <2>3 DEF TypeOK
  <1>33. ASSUME TypeOK, NEW t \in Clients, ChildrenWake(t) PROVE TypeOK'
    <2>1. ContextType' /\ TopologyType' /\ LockType' /\ RegistrationType' /\ GuardType' /\
       ReaderType' /\ FlagType' /\ WaitType' /\ CallType'
      BY <1>33 DEF ChildrenWake, TypeOK, ContextType, TopologyType, LockType,
         RegistrationType, GuardType, ReaderType, FlagType, WaitType, CallType, ctxVars,
         topoVars, lockVars, regVars, guardVars, readerVars, waitVars, callVars
    <2>2. WakeType'
      BY <1>0, <1>33 DEF ChildrenWake, SetControl, Goto, TypeOK, WakeType, wakeVars
    <2>3. PcType'
      BY <1>0, <1>33 DEF ChildrenWake, SetControl, Goto, TypeOK, PcType, Pcs, WaitPcs,
         MutationPcs, CallPcs
    <2>4. BoundType'
      BY <1>0, <1>33 DEF ChildrenWake, SetControl, Goto, TypeOK, BoundType, boundVars
    <2>5. QED
      BY <2>1, <2>2, <2>3, <2>4 DEF TypeOK
  <1>34. ASSUME TypeOK, NEW t \in Clients, Drain(t) PROVE TypeOK'
    <2>1. WakeType' /\ TopologyType' /\ LockType' /\ RegistrationType' /\ GuardType' /\
       ReaderType' /\ FlagType' /\ WaitType' /\ CallType' /\ BoundType'
      BY <1>34 DEF Drain, TypeOK, WakeType, TopologyType, LockType, RegistrationType,
         GuardType, ReaderType, FlagType, WaitType, CallType, BoundType, wakeVars,
         topoVars, lockVars, regVars, guardVars, readerVars, waitVars, callVars, boundVars
    <2>2. ContextType'
      BY <1>0, <1>34 DEF Drain, Goto, TypeOK, ContextType, ctxVars
    <2>3. PcType'
      BY <1>0, <1>34 DEF Drain, Goto, TypeOK, PcType, Pcs, WaitPcs, MutationPcs, CallPcs
    <2>4. QED
      BY <2>1, <2>2, <2>3 DEF TypeOK
  <1>35. ASSUME TypeOK, NEW w \in Waiters, BeginWait(w) PROVE TypeOK'
    <2>1. ContextType' /\ WakeType' /\ TopologyType' /\ LockType' /\ RegistrationType' /\
       GuardType' /\ ReaderType' /\ FlagType' /\ CallType' /\ BoundType'
      BY <1>35 DEF BeginWait, TypeOK, ContextType, WakeType, TopologyType, LockType,
         RegistrationType, GuardType, ReaderType, FlagType, CallType, BoundType, ctxVars,
         wakeVars, topoVars, lockVars, regVars, guardVars, readerVars, callVars, boundVars
    <2>2. WaitType'
      BY <1>0, <1>35 DEF BeginWait, Goto, TypeOK, WaitType, TopologyType, WakeType,
         RegistrationType, Phases, waitVars
    <2>3. PcType'
      BY <1>0, <1>35 DEF BeginWait, Goto, TypeOK, PcType, Pcs, WaitPcs, MutationPcs,
         CallPcs
    <2>4. QED
      BY <2>1, <2>2, <2>3 DEF TypeOK
  <1>36. ASSUME TypeOK, NEW w \in Waiters, Top(w) PROVE TypeOK'
    <2>1. ContextType' /\ LockType' /\ RegistrationType' /\ GuardType' /\ ReaderType' /\
       CallType'
      BY <1>36 DEF Top, TypeOK, ContextType, LockType, RegistrationType, GuardType,
         ReaderType, CallType, ctxVars, lockVars, regVars, guardVars, readerVars, callVars
    <2>2. WakeType'
      BY <1>0, <1>36 DEF Top, Goto, TypeOK, WakeType, wakeVars
    <2>3. TopologyType'
      BY <1>0, <1>36 DEF Top, Goto, TypeOK, TopologyType, topoVars
    <2>4. FlagType'
      BY <1>0, <1>36 DEF Top, Goto, TypeOK, FlagType
    <2>5. WaitType'
      BY <1>0, <1>36 DEF Top, Goto, TypeOK, WaitType, TopologyType, WakeType,
         RegistrationType, Phases, waitVars
    <2>6. PcType'
      BY <1>0, <1>36 DEF Top, Goto, TypeOK, PcType, Pcs, WaitPcs, MutationPcs, CallPcs
    <2>7. BoundType'
      BY <1>0, <1>36 DEF Top, Goto, TypeOK, BoundType, boundVars
    <2>8. QED
      BY <2>1, <2>2, <2>3, <2>4, <2>5, <2>6, <2>7 DEF TypeOK
  <1>37. ASSUME TypeOK, NEW w \in Waiters, IsShutdown(w) PROVE TypeOK'
    <2>1. ContextType' /\ WakeType' /\ TopologyType' /\ LockType' /\ RegistrationType' /\
       GuardType' /\ ReaderType' /\ FlagType' /\ WaitType' /\ CallType' /\ BoundType'
      BY <1>37 DEF IsShutdown, TypeOK, ContextType, WakeType, TopologyType, LockType,
         RegistrationType, GuardType, ReaderType, FlagType, WaitType, CallType, BoundType,
         ctxVars, wakeVars, topoVars, lockVars, regVars, guardVars, readerVars, waitVars,
         callVars, boundVars
    <2>2. PcType'
      BY <1>0, <1>37 DEF IsShutdown, Goto, TypeOK, PcType, Pcs, WaitPcs, MutationPcs,
         CallPcs
    <2>3. QED
      BY <2>1, <2>2 DEF TypeOK
  <1>38. ASSUME TypeOK, NEW w \in Waiters, ObserveTopology(w) PROVE TypeOK'
    <2>1. ContextType' /\ WakeType' /\ TopologyType' /\ LockType' /\ RegistrationType' /\
       GuardType' /\ ReaderType' /\ FlagType' /\ CallType' /\ BoundType'
      BY <1>38 DEF ObserveTopology, TypeOK, ContextType, WakeType, TopologyType, LockType,
         RegistrationType, GuardType, ReaderType, FlagType, CallType, BoundType, ctxVars,
         wakeVars, topoVars, lockVars, regVars, guardVars, readerVars, callVars, boundVars
    <2>2. WaitType'
      BY <1>0, <1>38 DEF ObserveTopology, Goto, TypeOK, WaitType, TopologyType, WakeType,
         RegistrationType, Phases, waitVars
    <2>3. PcType'
      BY <1>0, <1>38 DEF ObserveTopology, Goto, TypeOK, PcType, Pcs, WaitPcs, MutationPcs,
         CallPcs
    <2>4. QED
      BY <2>1, <2>2, <2>3 DEF TypeOK
  <1>39. ASSUME TypeOK, NEW w \in Waiters, ObserveWake(w) PROVE TypeOK'
    <2>1. ContextType' /\ WakeType' /\ TopologyType' /\ LockType' /\ RegistrationType' /\
       GuardType' /\ ReaderType' /\ FlagType' /\ CallType' /\ BoundType'
      BY <1>39 DEF ObserveWake, TypeOK, ContextType, WakeType, TopologyType, LockType,
         RegistrationType, GuardType, ReaderType, FlagType, CallType, BoundType, ctxVars,
         wakeVars, topoVars, lockVars, regVars, guardVars, readerVars, callVars, boundVars
    <2>2. WaitType'
      BY <1>0, <1>39 DEF ObserveWake, Goto, TypeOK, WaitType, TopologyType, WakeType,
         RegistrationType, Phases, waitVars
    <2>3. PcType'
      BY <1>0, <1>39 DEF ObserveWake, Goto, TypeOK, PcType, Pcs, WaitPcs, MutationPcs,
         CallPcs
    <2>4. QED
      BY <2>1, <2>2, <2>3 DEF TypeOK
  <1>40. ASSUME TypeOK, NEW w \in Waiters, Snapshot(w) PROVE TypeOK'
    <2>1. ContextType' /\ WakeType' /\ TopologyType' /\ LockType' /\ RegistrationType' /\
       GuardType' /\ ReaderType' /\ FlagType' /\ CallType' /\ BoundType'
      BY <1>40 DEF Snapshot, TypeOK, ContextType, WakeType, TopologyType, LockType,
         RegistrationType, GuardType, ReaderType, FlagType, CallType, BoundType, ctxVars,
         wakeVars, topoVars, lockVars, regVars, guardVars, readerVars, callVars, boundVars
    <2>2. WaitType'
      BY <1>0, <1>40 DEF Snapshot, Goto, TypeOK, WaitType, TopologyType, WakeType,
         RegistrationType, Phases, waitVars
    <2>3. PcType'
      BY <1>0, <1>40 DEF Snapshot, Goto, TypeOK, PcType, Pcs, WaitPcs, MutationPcs,
         CallPcs
    <2>4. QED
      BY <2>1, <2>2, <2>3 DEF TypeOK
  <1>41. ASSUME TypeOK, NEW w \in Waiters, NEW n \in Regs, Scan(w, n) PROVE TypeOK'
    <2>1. ContextType' /\ WakeType' /\ TopologyType' /\ LockType' /\ RegistrationType' /\
       ReaderType' /\ FlagType' /\ BoundType'
      BY <1>41 DEF Scan, TypeOK, ContextType, WakeType, TopologyType, LockType,
         RegistrationType, ReaderType, FlagType, BoundType, ctxVars, wakeVars, topoVars,
         lockVars, regVars, readerVars, boundVars
    <2>2. GuardType'
      BY <1>0, <1>41 DEF Scan, IsReady, Goto, TypeOK, GuardType, CallType, AllOperations,
         guardVars
    <2>3. WaitType'
      <3>1. todo' \in [Waiters -> SUBSET RegIds]
        BY <1>41 DEF Scan, TypeOK, WaitType
      <3>2. n \in RegIds
        BY <1>0
      <3>3. ready' \in [Waiters -> SUBSET RegIds]
        <4>1. CASE closing[target[n]]
          BY <1>41, <4>1 DEF Scan, TypeOK, WaitType
        <4>2. CASE ~closing[target[n]]
          BY <1>41, <3>2, <4>2 DEF Scan, TypeOK, WaitType
        <4>3. QED
          BY <4>1, <4>2
      <3>4. QED
        BY <1>41, <3>1, <3>3 DEF Scan, TypeOK, WaitType
    <2>4. CallType'
      <3>1. n \in RegIds /\ target[n] \in Waitables /\ w \in Threads
        BY <1>0, <1>41 DEF TypeOK, RegistrationType
      <3>2. CASE closing[target[n]]
        BY <1>41, <3>1, <3>2 DEF Scan, TypeOK, CallType
      <3>3. CASE ~closing[target[n]]
        BY <1>41, <3>3 DEF Scan, TypeOK, CallType
      <3>4. QED
        BY <3>2, <3>3
    <2>5. PcType'
      BY <1>0, <1>41 DEF Scan, IsReady, Goto, TypeOK, PcType, Pcs, WaitPcs, MutationPcs,
         CallPcs
    <2>6. QED
      BY <2>1, <2>2, <2>3, <2>4, <2>5 DEF TypeOK
  <1>42. ASSUME TypeOK, NEW w \in Waiters, Check(w) PROVE TypeOK'
    <2>1. ContextType' /\ WakeType' /\ TopologyType' /\ LockType' /\ RegistrationType' /\
       ReaderType' /\ FlagType' /\ WaitType' /\ CallType' /\ BoundType'
      BY <1>42 DEF Check, TypeOK, ContextType, WakeType, TopologyType, LockType,
         RegistrationType, ReaderType, FlagType, WaitType, CallType, BoundType, ctxVars,
         wakeVars, topoVars, lockVars, regVars, readerVars, waitVars, callVars, boundVars
    <2>2. GuardType'
      BY <1>0, <1>42 DEF Check, Goto, TypeOK, GuardType, CallType, AllOperations,
         guardVars
    <2>3. PcType'
      BY <1>0, <1>42 DEF Check, Goto, TypeOK, PcType, Pcs, WaitPcs, MutationPcs, CallPcs
    <2>4. QED
      BY <2>1, <2>2, <2>3 DEF TypeOK
  <1>43. ASSUME TypeOK, NEW w \in Waiters, Recheck(w) PROVE TypeOK'
    <2>1. ContextType' /\ WakeType' /\ TopologyType' /\ LockType' /\ RegistrationType' /\
       GuardType' /\ ReaderType' /\ FlagType' /\ WaitType' /\ CallType' /\ BoundType'
      BY <1>43 DEF Recheck, TypeOK, ContextType, WakeType, TopologyType, LockType,
         RegistrationType, GuardType, ReaderType, FlagType, WaitType, CallType, BoundType,
         ctxVars, wakeVars, topoVars, lockVars, regVars, guardVars, readerVars, waitVars,
         callVars, boundVars
    <2>2. PcType'
      BY <1>0, <1>43 DEF Recheck, Goto, TypeOK, PcType, Pcs, WaitPcs, MutationPcs, CallPcs
    <2>3. QED
      BY <2>1, <2>2 DEF TypeOK
  <1>44. ASSUME TypeOK, NEW w \in Waiters, Handoff(w) PROVE TypeOK'
    <2>1. ContextType' /\ WakeType' /\ TopologyType' /\ RegistrationType' /\ GuardType' /\
       ReaderType' /\ FlagType' /\ WaitType' /\ CallType' /\ BoundType'
      BY <1>44 DEF Handoff, TypeOK, ContextType, WakeType, TopologyType, RegistrationType,
         GuardType, ReaderType, FlagType, WaitType, CallType, BoundType, ctxVars,
         wakeVars, topoVars, regVars, guardVars, readerVars, waitVars, callVars, boundVars
    <2>2. LockType'
      BY <1>0, <1>44 DEF Handoff, TopologyQuiet, Goto, TypeOK, LockType, CallType, Regs,
         AllOperations, lockVars
    <2>3. PcType'
      BY <1>0, <1>44 DEF Handoff, TopologyQuiet, Goto, TypeOK, PcType, Pcs, WaitPcs,
         MutationPcs, CallPcs
    <2>4. QED
      BY <2>1, <2>2, <2>3 DEF TypeOK
  <1>45. ASSUME TypeOK, NEW w \in Waiters, NativeLock(w) PROVE TypeOK'
    <2>1. ContextType' /\ TopologyType' /\ RegistrationType' /\ GuardType' /\ ReaderType'
       /\ FlagType' /\ WaitType' /\ CallType'
      BY <1>45 DEF NativeLock, TypeOK, ContextType, TopologyType, RegistrationType,
         GuardType, ReaderType, FlagType, WaitType, CallType, ctxVars, topoVars, regVars,
         guardVars, readerVars, waitVars, callVars
    <2>2. WakeType'
      BY <1>0, <1>45 DEF NativeLock, Goto, TypeOK, WakeType, wakeVars
    <2>3. LockType'
      BY <1>0, <1>45 DEF NativeLock, Goto, TypeOK, LockType, CallType, Regs,
         AllOperations, lockVars
    <2>4. PcType'
      BY <1>0, <1>45 DEF NativeLock, Goto, TypeOK, PcType, Pcs, WaitPcs, MutationPcs,
         CallPcs
    <2>5. BoundType'
      BY <1>0, <1>45 DEF NativeLock, Goto, TypeOK, BoundType, boundVars
    <2>6. QED
      BY <2>1, <2>2, <2>3, <2>4, <2>5 DEF TypeOK
  <1>46. ASSUME TypeOK, NEW w \in Waiters, NativeReturn(w) PROVE TypeOK'
    <2>1. ContextType' /\ WakeType' /\ TopologyType' /\ RegistrationType' /\ GuardType' /\
       ReaderType' /\ FlagType' /\ WaitType' /\ CallType' /\ BoundType'
      BY <1>46 DEF NativeReturn, TypeOK, ContextType, WakeType, TopologyType,
         RegistrationType, GuardType, ReaderType, FlagType, WaitType, CallType, BoundType,
         ctxVars, wakeVars, topoVars, regVars, guardVars, readerVars, waitVars, callVars,
         boundVars
    <2>2. LockType'
      BY <1>0, <1>46 DEF NativeReturn, NativeTriggered, Goto, TypeOK, LockType, CallType,
         Regs, AllOperations, lockVars
    <2>3. PcType'
      BY <1>0, <1>46 DEF NativeReturn, NativeTriggered, Goto, TypeOK, PcType, Pcs,
         WaitPcs, MutationPcs, CallPcs
    <2>4. QED
      BY <2>1, <2>2, <2>3 DEF TypeOK
  <1>47. ASSUME TypeOK, NEW w \in Waiters, WaitEnd(w) PROVE TypeOK'
    <2>1. ContextType' /\ WakeType' /\ TopologyType' /\ LockType' /\ RegistrationType' /\
       GuardType' /\ ReaderType' /\ FlagType' /\ CallType' /\ BoundType'
      BY <1>47 DEF WaitEnd, TypeOK, ContextType, WakeType, TopologyType, LockType,
         RegistrationType, GuardType, ReaderType, FlagType, CallType, BoundType, ctxVars,
         wakeVars, topoVars, lockVars, regVars, guardVars, readerVars, callVars, boundVars
    <2>2. WaitType'
      BY <1>0, <1>47 DEF WaitEnd, Goto, TypeOK, WaitType, TopologyType, WakeType,
         RegistrationType, Phases, waitVars
    <2>3. PcType'
      BY <1>0, <1>47 DEF WaitEnd, Goto, TypeOK, PcType, Pcs, WaitPcs, MutationPcs, CallPcs
    <2>4. QED
      BY <2>1, <2>2, <2>3 DEF TypeOK
  <1>48. ASSUME TypeOK, NEW w \in Waiters, NativeFault(w) PROVE TypeOK'
    <2>1. ContextType' /\ WakeType' /\ TopologyType' /\ RegistrationType' /\ GuardType' /\
       ReaderType' /\ FlagType' /\ WaitType' /\ CallType'
      BY <1>48 DEF NativeFault, TypeOK, ContextType, WakeType, TopologyType,
         RegistrationType, GuardType, ReaderType, FlagType, WaitType, CallType, ctxVars,
         wakeVars, topoVars, regVars, guardVars, readerVars, waitVars, callVars
    <2>2. LockType'
      BY <1>0, <1>48 DEF NativeFault, Goto, TypeOK, LockType, CallType, Regs,
         AllOperations, lockVars
    <2>3. PcType'
      BY <1>0, <1>48 DEF NativeFault, Goto, TypeOK, PcType, Pcs, WaitPcs, MutationPcs,
         CallPcs
    <2>4. BoundType'
      BY <1>0, <1>48 DEF NativeFault, Goto, TypeOK, BoundType, boundVars
    <2>5. QED
      BY <2>1, <2>2, <2>3, <2>4 DEF TypeOK
  <1>49. ASSUME TypeOK, NEW w \in Waiters, Expire(w) PROVE TypeOK'
    <2>1. ContextType' /\ WakeType' /\ TopologyType' /\ LockType' /\ RegistrationType' /\
       GuardType' /\ ReaderType' /\ FlagType' /\ CallType' /\ PcType' /\ BoundType'
      BY <1>49 DEF Expire, TypeOK, ContextType, WakeType, TopologyType, LockType,
         RegistrationType, GuardType, ReaderType, FlagType, CallType, PcType, BoundType,
         ctxVars, wakeVars, topoVars, lockVars, regVars, guardVars, readerVars, callVars,
         boundVars
    <2>2. WaitType'
      BY <1>0, <1>49 DEF Expire, TypeOK, WaitType, TopologyType, WakeType,
         RegistrationType, Phases, waitVars
    <2>3. QED
      BY <2>1, <2>2 DEF TypeOK
  <1>50. ASSUME TypeOK, NEW w \in Waiters, NEW k \in Timeouts, Wait(w, k) PROVE TypeOK'
    <2>1. WakeType' /\ TopologyType' /\ LockType' /\ RegistrationType' /\ GuardType' /\
       ReaderType' /\ FlagType' /\ BoundType'
      BY <1>50 DEF Wait, TypeOK, WakeType, TopologyType, LockType, RegistrationType,
         GuardType, ReaderType, FlagType, BoundType, wakeVars, topoVars, lockVars,
         regVars, guardVars, readerVars, boundVars
    <2>2. ContextType'
      BY <1>0, <1>50 DEF Wait, Goto, TypeOK, ContextType, ctxVars
    <2>3. WaitType'
      BY <1>0, <1>50 DEF Wait, Goto, TypeOK, WaitType, TopologyType, WakeType,
         RegistrationType, Phases, waitVars
    <2>4. CallType'
      BY <1>0, <1>50 DEF Wait, Goto, TypeOK, CallType, RegistrationType, AllOperations,
         Phases, callVars
    <2>5. PcType'
      BY <1>0, <1>50 DEF Wait, Goto, TypeOK, PcType, Pcs, WaitPcs, MutationPcs, CallPcs
    <2>6. QED
      BY <2>1, <2>2, <2>3, <2>4, <2>5 DEF TypeOK
  <1>51. ASSUME TypeOK, NEW t \in Clients, NEW g \in Guards, Trigger(t, g) PROVE TypeOK'
    <2>1. WakeType' /\ TopologyType' /\ LockType' /\ RegistrationType' /\ GuardType' /\
       ReaderType' /\ FlagType' /\ WaitType'
      BY <1>51 DEF Trigger, Begin, TypeOK, WakeType, TopologyType, LockType,
         RegistrationType, GuardType, ReaderType, FlagType, WaitType, wakeVars, topoVars,
         lockVars, regVars, guardVars, readerVars, waitVars
    <2>2. ContextType'
      BY <1>0, <1>51 DEF Trigger, Begin, TypeOK, ContextType, ctxVars
    <2>3. CallType'
      BY <1>0, <1>51 DEF Trigger, Begin, TypeOK, CallType, RegistrationType,
         AllOperations, Phases, callVars
    <2>4. PcType'
      BY <1>0, <1>51 DEF Trigger, Begin, TypeOK, PcType, Pcs, WaitPcs, MutationPcs,
         CallPcs
    <2>5. BoundType'
      BY <1>0, <1>51 DEF Trigger, Begin, TypeOK, BoundType, boundVars
    <2>6. QED
      BY <2>1, <2>2, <2>3, <2>4, <2>5 DEF TypeOK
  <1>52. ASSUME TypeOK, NEW t \in Clients, NEW g \in Guards, CloseGuard(t, g) PROVE TypeOK'
    <2>1. ContextType' /\ WakeType' /\ TopologyType' /\ LockType' /\ RegistrationType' /\
       GuardType' /\ ReaderType' /\ WaitType'
      BY <1>52 DEF CloseGuard, TypeOK, ContextType, WakeType, TopologyType, LockType,
         RegistrationType, GuardType, ReaderType, WaitType, ctxVars, wakeVars, topoVars,
         lockVars, regVars, guardVars, readerVars, waitVars
    <2>2. FlagType'
      BY <1>0, <1>52 DEF CloseGuard, Goto, TypeOK, FlagType
    <2>3. CallType'
      BY <1>0, <1>52 DEF CloseGuard, Goto, TypeOK, CallType, RegistrationType,
         AllOperations, Phases, callVars
    <2>4. PcType'
      BY <1>0, <1>52 DEF CloseGuard, Goto, TypeOK, PcType, Pcs, WaitPcs, MutationPcs,
         CallPcs
    <2>5. BoundType'
      BY <1>0, <1>52 DEF CloseGuard, Goto, TypeOK, BoundType, boundVars
    <2>6. QED
      BY <2>1, <2>2, <2>3, <2>4, <2>5 DEF TypeOK
  <1>53. ASSUME TypeOK, NEW t \in Clients, NEW x \in Waitables, Add(t, x) PROVE TypeOK'
    <2>1. WakeType' /\ TopologyType' /\ LockType' /\ RegistrationType' /\ GuardType' /\
       ReaderType' /\ FlagType' /\ WaitType'
      BY <1>53 DEF Add, Begin, TypeOK, WakeType, TopologyType, LockType, RegistrationType,
         GuardType, ReaderType, FlagType, WaitType, wakeVars, topoVars, lockVars, regVars,
         guardVars, readerVars, waitVars
    <2>2. ContextType'
      BY <1>0, <1>53 DEF Add, Begin, TypeOK, ContextType, ctxVars
    <2>3. CallType'
      BY <1>0, <1>53 DEF Add, Begin, TypeOK, CallType, RegistrationType, AllOperations,
         Phases, callVars
    <2>4. PcType'
      BY <1>0, <1>53 DEF Add, Begin, TypeOK, PcType, Pcs, WaitPcs, MutationPcs, CallPcs
    <2>5. BoundType'
      BY <1>0, <1>53 DEF Add, Begin, TypeOK, BoundType, boundVars
    <2>6. QED
      BY <2>1, <2>2, <2>3, <2>4, <2>5 DEF TypeOK
  <1>54. ASSUME TypeOK, NEW t \in Clients, NEW m \in Regs, Remove(t, m) PROVE TypeOK'
    <2>1. WakeType' /\ TopologyType' /\ LockType' /\ RegistrationType' /\ GuardType' /\
       ReaderType' /\ FlagType' /\ WaitType'
      BY <1>54 DEF Remove, Begin, TypeOK, WakeType, TopologyType, LockType,
         RegistrationType, GuardType, ReaderType, FlagType, WaitType, wakeVars, topoVars,
         lockVars, regVars, guardVars, readerVars, waitVars
    <2>2. ContextType'
      BY <1>0, <1>54 DEF Remove, Begin, TypeOK, ContextType, ctxVars
    <2>3. CallType'
      BY <1>0, <1>54 DEF Remove, Begin, TypeOK, CallType, RegistrationType, AllOperations,
         Phases, callVars
    <2>4. PcType'
      BY <1>0, <1>54 DEF Remove, Begin, TypeOK, PcType, Pcs, WaitPcs, MutationPcs, CallPcs
    <2>5. BoundType'
      BY <1>0, <1>54 DEF Remove, Begin, TypeOK, BoundType, boundVars
    <2>6. QED
      BY <2>1, <2>2, <2>3, <2>4, <2>5 DEF TypeOK
  <1>55. ASSUME TypeOK, NEW t \in Clients, NEW r \in Readers, SetBlocking(t, r) PROVE TypeOK'
    <2>1. WakeType' /\ TopologyType' /\ LockType' /\ RegistrationType' /\ GuardType' /\
       FlagType' /\ WaitType'
      BY <1>55 DEF SetBlocking, Begin, TypeOK, WakeType, TopologyType, LockType,
         RegistrationType, GuardType, FlagType, WaitType, wakeVars, topoVars, lockVars,
         regVars, guardVars, waitVars
    <2>2. ContextType'
      BY <1>0, <1>55 DEF SetBlocking, Begin, TypeOK, ContextType, ctxVars
    <2>3. ReaderType'
      BY <1>0, <1>55 DEF SetBlocking, Begin, TypeOK, ReaderType, readerVars
    <2>4. CallType'
      BY <1>0, <1>55 DEF SetBlocking, Begin, TypeOK, CallType, RegistrationType,
         AllOperations, Phases, callVars
    <2>5. PcType'
      BY <1>0, <1>55 DEF SetBlocking, Begin, TypeOK, PcType, Pcs, WaitPcs, MutationPcs,
         CallPcs
    <2>6. BoundType'
      BY <1>0, <1>55 DEF SetBlocking, Begin, TypeOK, BoundType, boundVars
    <2>7. QED
      BY <2>1, <2>2, <2>3, <2>4, <2>5, <2>6 DEF TypeOK
  <1>56. ASSUME TypeOK, NEW t \in Clients, Shutdown(t) PROVE TypeOK'
    <2>1. WakeType' /\ TopologyType' /\ LockType' /\ RegistrationType' /\ GuardType' /\
       ReaderType' /\ FlagType' /\ WaitType'
      BY <1>56 DEF Shutdown, TypeOK, WakeType, TopologyType, LockType, RegistrationType,
         GuardType, ReaderType, FlagType, WaitType, wakeVars, topoVars, lockVars, regVars,
         guardVars, readerVars, waitVars
    <2>2. ContextType'
      BY <1>0, <1>56 DEF Shutdown, Goto, TypeOK, ContextType, ctxVars
    <2>3. CallType'
      BY <1>0, <1>56 DEF Shutdown, Goto, TypeOK, CallType, RegistrationType,
         AllOperations, Phases, callVars
    <2>4. PcType'
      BY <1>0, <1>56 DEF Shutdown, Goto, TypeOK, PcType, Pcs, WaitPcs, MutationPcs,
         CallPcs
    <2>5. BoundType'
      BY <1>0, <1>56 DEF Shutdown, Goto, TypeOK, BoundType, boundVars
    <2>6. QED
      BY <2>1, <2>2, <2>3, <2>4, <2>5 DEF TypeOK
  <1>57. ASSUME TypeOK, NEW r \in Readers, DataArrives(r) PROVE TypeOK'
    <2>1. ContextType' /\ WakeType' /\ TopologyType' /\ LockType' /\ RegistrationType' /\
       GuardType' /\ FlagType' /\ WaitType' /\ CallType' /\ PcType'
      BY <1>57 DEF DataArrives, TypeOK, ContextType, WakeType, TopologyType, LockType,
         RegistrationType, GuardType, FlagType, WaitType, CallType, PcType, ctxVars,
         wakeVars, topoVars, lockVars, regVars, guardVars, waitVars, callVars
    <2>2. ReaderType'
      BY <1>0, <1>57 DEF DataArrives, TypeOK, ReaderType, readerVars
    <2>3. BoundType'
      BY <1>0, <1>57 DEF DataArrives, TypeOK, BoundType, boundVars
    <2>4. QED
      BY <2>1, <2>2, <2>3 DEF TypeOK
  <1>58. ASSUME TypeOK, NEW r \in Readers, Take(r) PROVE TypeOK'
    <2>1. ContextType' /\ WakeType' /\ TopologyType' /\ LockType' /\ RegistrationType' /\
       GuardType' /\ FlagType' /\ WaitType' /\ CallType' /\ PcType' /\ BoundType'
      BY <1>58 DEF Take, TypeOK, ContextType, WakeType, TopologyType, LockType,
         RegistrationType, GuardType, FlagType, WaitType, CallType, PcType, BoundType,
         ctxVars, wakeVars, topoVars, lockVars, regVars, guardVars, waitVars, callVars,
         boundVars
    <2>2. ReaderType'
      BY <1>0, <1>58 DEF Take, TypeOK, ReaderType, readerVars
    <2>3. QED
      BY <2>1, <2>2 DEF TypeOK
  <1>59. ASSUME TypeOK, UNCHANGED vars PROVE TypeOK'
    BY <1>59 DEF vars, TypeOK, ContextType, WakeType, TopologyType, LockType,
       RegistrationType, GuardType, ReaderType, FlagType, WaitType, CallType, PcType,
       BoundType, ctxVars, wakeVars, topoVars, lockVars, regVars, guardVars, readerVars,
       waitVars, callVars, boundVars
  <1>60. ASSUME TypeOK, NEW t \in Clients, InsertThrows(t) PROVE TypeOK'
    <2>1. ContextType' /\ WakeType' /\ TopologyType' /\ LockType' /\ GuardType' /\
       ReaderType' /\ FlagType' /\ WaitType' /\ CallType'
      BY <1>60 DEF InsertThrows, TypeOK, ContextType, WakeType, TopologyType, LockType,
         GuardType, ReaderType, FlagType, WaitType, CallType, ctxVars, wakeVars, topoVars,
         lockVars, guardVars, readerVars, waitVars, callVars
    <2>2. RegistrationType'
      BY <1>0, <1>60 DEF InsertThrows, Goto, TypeOK, RegistrationType, CallType, Phases,
         AllOperations, regVars
    <2>3. PcType'
      BY <1>0, <1>60 DEF InsertThrows, Goto, TypeOK, PcType, Pcs, WaitPcs, MutationPcs,
         CallPcs
    <2>4. BoundType'
      BY <1>0, <1>60 DEF InsertThrows, Goto, TypeOK, BoundType, boundVars
    <2>5. QED
      BY <2>1, <2>2, <2>3, <2>4 DEF TypeOK
  <1>61. QED
    BY <1>1, <1>2, <1>3, <1>4, <1>5, <1>6, <1>7, <1>8, <1>9, <1>10, <1>11, <1>12, <1>13,
       <1>14, <1>15, <1>16, <1>17, <1>18, <1>19, <1>20, <1>21, <1>22, <1>23, <1>24, <1>25,
       <1>26, <1>27, <1>28, <1>29, <1>30, <1>31, <1>32, <1>33, <1>34, <1>35, <1>36, <1>37,
       <1>38, <1>39, <1>40, <1>41, <1>42, <1>43, <1>44, <1>45, <1>46, <1>47, <1>48, <1>49,
       <1>50, <1>51, <1>52, <1>53, <1>54, <1>55, <1>56, <1>57, <1>58, <1>59, <1>60
       DEF Next, MutationStep, ClientStep, WaiterStep, Call

\* Type correctness of the WaitSet specification.
THEOREM TypeCorrect == Spec => []TypeOK
  BY InitType, NextType, PTL DEF Spec

-----------------------------------------------------------------------------
\* No thread sleeps or changes the topology initially.
LEMMA InitHandoff == Init => HandoffInv
  BY DEF Init, HandoffInv, MutatorWakesSleeper, Mutating, Reconciling, MutationPcs, Threads

\* The handoff invariant is inductive: NativeLock clears the control condition
\* only while the handoff mutex has kept every mutation out, and a mutation that
\* starts later raises it again before it needs native_mutex_.
LEMMA NextHandoff == TypeOK /\ HandoffInv /\ [Next]_vars => HandoffInv'
  <1>0. /\ Waiters \subseteq Threads /\ Clients \subseteq Threads
        /\ Waiters \intersect Clients = {} /\ NoThread \notin Threads
    BY WaitSetAssumption DEF Threads
  <1>1. ASSUME TypeOK, HandoffInv, NEW t \in Threads, Publish(t) PROVE HandoffInv'
    BY <1>0, <1>1 DEF Publish, Goto, TypeOK, PcType, HandoffInv, MutatorWakesSleeper,
       Mutating, Reconciling, MutationPcs, wakeVars, lockVars, topoVars
  <1>2. ASSUME TypeOK, HandoffInv, NEW t \in Threads, MutBump(t) PROVE HandoffInv'
    BY <1>0, <1>2 DEF MutBump, Bump, Goto, TypeOK, PcType, HandoffInv,
       MutatorWakesSleeper, Mutating, Reconciling, MutationPcs, wakeVars, lockVars,
       topoVars
  <1>3. ASSUME TypeOK, HandoffInv, NEW t \in Threads, MutWake(t) PROVE HandoffInv'
    BY <1>0, <1>3 DEF MutWake, SetControl, Body, Goto, TypeOK, PcType, HandoffInv,
       MutatorWakesSleeper, Mutating, Reconciling, MutationPcs, wakeVars, lockVars,
       topoVars
  <1>4. ASSUME TypeOK, HandoffInv, NEW t \in Threads, EndTopology(t) PROVE HandoffInv'
    BY <1>0, <1>4 DEF EndTopology, Goto, TypeOK, PcType, HandoffInv, MutatorWakesSleeper,
       Mutating, Reconciling, MutationPcs, wakeVars, lockVars, topoVars
  <1>5. ASSUME TypeOK, HandoffInv, NEW t \in Threads, Retire(t) PROVE HandoffInv'
    BY <1>0, <1>5 DEF Retire, Goto, TypeOK, PcType, HandoffInv, MutatorWakesSleeper,
       Mutating, Reconciling, MutationPcs, wakeVars, lockVars, topoVars
  <1>6. ASSUME TypeOK, HandoffInv, NEW t \in Threads, EndBump(t) PROVE HandoffInv'
    BY <1>0, <1>6 DEF EndBump, Bump, Goto, TypeOK, PcType, HandoffInv,
       MutatorWakesSleeper, Mutating, Reconciling, MutationPcs, wakeVars, lockVars,
       topoVars
  <1>7. ASSUME TypeOK, HandoffInv, NEW t \in Threads, EndWake(t) PROVE HandoffInv'
    BY <1>0, <1>7 DEF EndWake, SetControl, Goto, TypeOK, PcType, HandoffInv,
       MutatorWakesSleeper, Mutating, Reconciling, MutationPcs, wakeVars, lockVars,
       topoVars
  <1>8. ASSUME TypeOK, HandoffInv, NEW t \in Threads, Poison(t) PROVE HandoffInv'
    BY <1>0, <1>8 DEF Poison, Goto, TypeOK, PcType, HandoffInv, MutatorWakesSleeper,
       Mutating, Reconciling, MutationPcs, wakeVars, lockVars, topoVars
  <1>9. ASSUME TypeOK, HandoffInv, NEW t \in Threads, DetachCas(t) PROVE HandoffInv'
    BY <1>0, <1>9 DEF DetachCas, AfterDetach, Goto, TypeOK, PcType, HandoffInv,
       MutatorWakesSleeper, Mutating, Reconciling, MutationPcs, wakeVars, lockVars,
       topoVars
  <1>10. ASSUME TypeOK, HandoffInv, NEW t \in Threads, DetachLock(t) PROVE HandoffInv'
    BY <1>0, <1>10 DEF DetachLock, Goto, TypeOK, PcType, HandoffInv, MutatorWakesSleeper,
       Mutating, Reconciling, MutationPcs, wakeVars, lockVars, topoVars
  <1>11. ASSUME TypeOK, HandoffInv, NEW t \in Threads, Release(t) PROVE HandoffInv'
    BY <1>0, <1>11 DEF Release, ReleaseStep, Goto, TypeOK, PcType, HandoffInv,
       MutatorWakesSleeper, Mutating, Reconciling, MutationPcs, wakeVars, lockVars,
       topoVars
  <1>12. ASSUME TypeOK, HandoffInv, NEW t \in Threads, DetachNative(t) PROVE HandoffInv'
    BY <1>0, <1>12 DEF DetachNative, Goto, TypeOK, PcType, HandoffInv,
       MutatorWakesSleeper, Mutating, Reconciling, MutationPcs, wakeVars, lockVars,
       topoVars
  <1>13. ASSUME TypeOK, HandoffInv, NEW t \in Threads, Unclaim(t) PROVE HandoffInv'
    BY <1>0, <1>13 DEF Unclaim, Goto, TypeOK, PcType, HandoffInv, MutatorWakesSleeper,
       Mutating, Reconciling, MutationPcs, wakeVars, lockVars, topoVars
  <1>14. ASSUME TypeOK, HandoffInv, NEW t \in Threads, Erase(t) PROVE HandoffInv'
    BY <1>0, <1>14 DEF Erase, Goto, TypeOK, PcType, HandoffInv, MutatorWakesSleeper,
       Mutating, Reconciling, MutationPcs, wakeVars, lockVars, topoVars
  <1>15. ASSUME TypeOK, HandoffInv, NEW t \in Threads, DetachUnlock(t) PROVE HandoffInv'
    BY <1>0, <1>15 DEF DetachUnlock, AfterDetach, Goto, TypeOK, PcType, HandoffInv,
       MutatorWakesSleeper, Mutating, Reconciling, MutationPcs, wakeVars, lockVars,
       topoVars
  <1>16. ASSUME TypeOK, HandoffInv, NEW t \in Threads, OpEnd(t) PROVE HandoffInv'
    BY <1>0, <1>16 DEF OpEnd, Goto, TypeOK, PcType, HandoffInv, MutatorWakesSleeper,
       Mutating, Reconciling, MutationPcs, wakeVars, lockVars, topoVars
  <1>17. ASSUME TypeOK, HandoffInv, NEW t \in Clients, StageTrigger(t) PROVE HandoffInv'
    BY <1>0, <1>17 DEF StageTrigger, Exhausted, Goto, TypeOK, PcType, HandoffInv,
       MutatorWakesSleeper, Mutating, Reconciling, MutationPcs, wakeVars, lockVars,
       topoVars
  <1>18. ASSUME TypeOK, HandoffInv, NEW t \in Clients, NotifyLock(t) PROVE HandoffInv'
    BY <1>0, <1>18 DEF NotifyLock, Bump, Goto, TypeOK, PcType, HandoffInv,
       MutatorWakesSleeper, Mutating, Reconciling, MutationPcs, wakeVars, lockVars,
       topoVars
  <1>19. ASSUME TypeOK, HandoffInv, NEW t \in Clients, NotifyWake(t) PROVE HandoffInv'
    BY <1>0, <1>19 DEF NotifyWake, SetControl, Goto, TypeOK, PcType, HandoffInv,
       MutatorWakesSleeper, Mutating, Reconciling, MutationPcs, wakeVars, lockVars,
       topoVars
  <1>20. ASSUME TypeOK, HandoffInv, NEW t \in Clients, CloseCopy(t) PROVE HandoffInv'
    BY <1>0, <1>20 DEF CloseCopy, Goto, TypeOK, PcType, HandoffInv, MutatorWakesSleeper,
       Mutating, Reconciling, MutationPcs, wakeVars, lockVars, topoVars
  <1>21. ASSUME TypeOK, HandoffInv, NEW t \in Clients, AddLock(t) PROVE HandoffInv'
    BY <1>0, <1>21 DEF AddLock, Goto, TypeOK, PcType, HandoffInv, MutatorWakesSleeper,
       Mutating, Reconciling, MutationPcs, wakeVars, lockVars, topoVars
  <1>22. ASSUME TypeOK, HandoffInv, NEW t \in Clients, Claim(t) PROVE HandoffInv'
    BY <1>0, <1>22 DEF Claim, Goto, TypeOK, PcType, HandoffInv, MutatorWakesSleeper,
       Mutating, Reconciling, MutationPcs, wakeVars, lockVars, topoVars
  <1>23. ASSUME TypeOK, HandoffInv, NEW t \in Clients, AttachReader(t) PROVE HandoffInv'
    BY <1>0, <1>23 DEF AttachReader, Goto, TypeOK, PcType, HandoffInv,
       MutatorWakesSleeper, Mutating, Reconciling, MutationPcs, wakeVars, lockVars,
       topoVars
  <1>24. ASSUME TypeOK, HandoffInv, NEW t \in Clients, Claimed(t) PROVE HandoffInv'
    BY <1>0, <1>24 DEF Claimed, Goto, TypeOK, PcType, HandoffInv, MutatorWakesSleeper,
       Mutating, Reconciling, MutationPcs, wakeVars, lockVars, topoVars
  <1>25. ASSUME TypeOK, HandoffInv, NEW t \in Clients, Insert(t) PROVE HandoffInv'
    BY <1>0, <1>25 DEF Insert, Goto, TypeOK, PcType, HandoffInv, MutatorWakesSleeper,
       Mutating, Reconciling, MutationPcs, wakeVars, lockVars, topoVars
  <1>26. ASSUME TypeOK, HandoffInv, NEW t \in Clients, AddUnlock(t) PROVE HandoffInv'
    BY <1>0, <1>26 DEF AddUnlock, Goto, TypeOK, PcType, HandoffInv, MutatorWakesSleeper,
       Mutating, Reconciling, MutationPcs, wakeVars, lockVars, topoVars
  <1>27. ASSUME TypeOK, HandoffInv, NEW t \in Clients, RemoveFind(t) PROVE HandoffInv'
    BY <1>0, <1>27 DEF RemoveFind, Goto, TypeOK, PcType, HandoffInv, MutatorWakesSleeper,
       Mutating, Reconciling, MutationPcs, wakeVars, lockVars, topoVars
  <1>28. ASSUME TypeOK, HandoffInv, NEW t \in Clients, BlockCopy(t) PROVE HandoffInv'
    BY <1>0, <1>28 DEF BlockCopy, Goto, TypeOK, PcType, HandoffInv, MutatorWakesSleeper,
       Mutating, Reconciling, MutationPcs, wakeVars, lockVars, topoVars
  <1>29. ASSUME TypeOK, HandoffInv, NEW t \in Clients, BlockLock(t) PROVE HandoffInv'
    BY <1>0, <1>29 DEF BlockLock, Goto, TypeOK, PcType, HandoffInv, MutatorWakesSleeper,
       Mutating, Reconciling, MutationPcs, wakeVars, lockVars, topoVars
  <1>30. ASSUME TypeOK, HandoffInv, NEW t \in Clients, Reconcile(t) PROVE HandoffInv'
    BY <1>0, <1>30 DEF Reconcile, ReconcileStep, Goto, TypeOK, PcType, HandoffInv,
       MutatorWakesSleeper, Mutating, Reconciling, MutationPcs, wakeVars, lockVars,
       topoVars
  <1>31. ASSUME TypeOK, HandoffInv, NEW t \in Clients, ReconcileNative(t) PROVE HandoffInv'
    BY <1>0, <1>31 DEF ReconcileNative, Goto, TypeOK, PcType, HandoffInv,
       MutatorWakesSleeper, Mutating, Reconciling, MutationPcs, wakeVars, lockVars,
       topoVars
  <1>32. ASSUME TypeOK, HandoffInv, NEW t \in Clients, Children(t) PROVE HandoffInv'
    BY <1>0, <1>32 DEF Children, Bump, Goto, TypeOK, PcType, HandoffInv,
       MutatorWakesSleeper, Mutating, Reconciling, MutationPcs, wakeVars, lockVars,
       topoVars
  <1>33. ASSUME TypeOK, HandoffInv, NEW t \in Clients, ChildrenWake(t) PROVE HandoffInv'
    BY <1>0, <1>33 DEF ChildrenWake, SetControl, Goto, TypeOK, PcType, HandoffInv,
       MutatorWakesSleeper, Mutating, Reconciling, MutationPcs, wakeVars, lockVars,
       topoVars
  <1>34. ASSUME TypeOK, HandoffInv, NEW t \in Clients, Drain(t) PROVE HandoffInv'
    BY <1>0, <1>34 DEF Drain, Goto, TypeOK, PcType, HandoffInv, MutatorWakesSleeper,
       Mutating, Reconciling, MutationPcs, wakeVars, lockVars, topoVars
  <1>35. ASSUME TypeOK, HandoffInv, NEW w \in Waiters, BeginWait(w) PROVE HandoffInv'
    BY <1>0, <1>35 DEF BeginWait, Goto, TypeOK, PcType, HandoffInv, MutatorWakesSleeper,
       Mutating, Reconciling, MutationPcs, wakeVars, lockVars, topoVars
  <1>36. ASSUME TypeOK, HandoffInv, NEW w \in Waiters, Top(w) PROVE HandoffInv'
    BY <1>0, <1>36 DEF Top, Goto, TypeOK, PcType, HandoffInv, MutatorWakesSleeper,
       Mutating, Reconciling, MutationPcs, wakeVars, lockVars, topoVars
  <1>37. ASSUME TypeOK, HandoffInv, NEW w \in Waiters, IsShutdown(w) PROVE HandoffInv'
    BY <1>0, <1>37 DEF IsShutdown, Goto, TypeOK, PcType, HandoffInv, MutatorWakesSleeper,
       Mutating, Reconciling, MutationPcs, wakeVars, lockVars, topoVars
  <1>38. ASSUME TypeOK, HandoffInv, NEW w \in Waiters, ObserveTopology(w) PROVE HandoffInv'
    BY <1>0, <1>38 DEF ObserveTopology, Goto, TypeOK, PcType, HandoffInv,
       MutatorWakesSleeper, Mutating, Reconciling, MutationPcs, wakeVars, lockVars,
       topoVars
  <1>39. ASSUME TypeOK, HandoffInv, NEW w \in Waiters, ObserveWake(w) PROVE HandoffInv'
    BY <1>0, <1>39 DEF ObserveWake, Goto, TypeOK, PcType, HandoffInv, MutatorWakesSleeper,
       Mutating, Reconciling, MutationPcs, wakeVars, lockVars, topoVars
  <1>40. ASSUME TypeOK, HandoffInv, NEW w \in Waiters, Snapshot(w) PROVE HandoffInv'
    BY <1>0, <1>40 DEF Snapshot, Goto, TypeOK, PcType, HandoffInv, MutatorWakesSleeper,
       Mutating, Reconciling, MutationPcs, wakeVars, lockVars, topoVars
  <1>41. ASSUME TypeOK, HandoffInv, NEW w \in Waiters, NEW n \in Regs, Scan(w, n) PROVE HandoffInv'
    BY <1>0, <1>41 DEF Scan, IsReady, Goto, TypeOK, PcType, HandoffInv,
       MutatorWakesSleeper, Mutating, Reconciling, MutationPcs, wakeVars, lockVars,
       topoVars
  <1>42. ASSUME TypeOK, HandoffInv, NEW w \in Waiters, Check(w) PROVE HandoffInv'
    BY <1>0, <1>42 DEF Check, Goto, TypeOK, PcType, HandoffInv, MutatorWakesSleeper,
       Mutating, Reconciling, MutationPcs, wakeVars, lockVars, topoVars
  <1>43. ASSUME TypeOK, HandoffInv, NEW w \in Waiters, Recheck(w) PROVE HandoffInv'
    BY <1>0, <1>43 DEF Recheck, Goto, TypeOK, PcType, HandoffInv, MutatorWakesSleeper,
       Mutating, Reconciling, MutationPcs, wakeVars, lockVars, topoVars
  <1>44. ASSUME TypeOK, HandoffInv, NEW w \in Waiters, Handoff(w) PROVE HandoffInv'
    BY <1>0, <1>44 DEF Handoff, TopologyQuiet, Goto, TypeOK, PcType, HandoffInv,
       MutatorWakesSleeper, Mutating, Reconciling, MutationPcs, wakeVars, lockVars,
       topoVars
  <1>45. ASSUME TypeOK, HandoffInv, NEW w \in Waiters, NativeLock(w) PROVE HandoffInv'
    BY <1>0, <1>45 DEF NativeLock, Goto, TypeOK, PcType, HandoffInv, MutatorWakesSleeper,
       Mutating, Reconciling, MutationPcs, wakeVars, lockVars, topoVars
  <1>46. ASSUME TypeOK, HandoffInv, NEW w \in Waiters, NativeReturn(w) PROVE HandoffInv'
    BY <1>0, <1>46 DEF NativeReturn, NativeTriggered, Goto, TypeOK, PcType, HandoffInv,
       MutatorWakesSleeper, Mutating, Reconciling, MutationPcs, wakeVars, lockVars,
       topoVars
  <1>47. ASSUME TypeOK, HandoffInv, NEW w \in Waiters, WaitEnd(w) PROVE HandoffInv'
    BY <1>0, <1>47 DEF WaitEnd, Goto, TypeOK, PcType, HandoffInv, MutatorWakesSleeper,
       Mutating, Reconciling, MutationPcs, wakeVars, lockVars, topoVars
  <1>48. ASSUME TypeOK, HandoffInv, NEW w \in Waiters, NativeFault(w) PROVE HandoffInv'
    BY <1>0, <1>48 DEF NativeFault, Goto, TypeOK, PcType, HandoffInv, MutatorWakesSleeper,
       Mutating, Reconciling, MutationPcs, wakeVars, lockVars, topoVars
  <1>49. ASSUME TypeOK, HandoffInv, NEW w \in Waiters, Expire(w) PROVE HandoffInv'
    BY <1>49 DEF Expire, HandoffInv, MutatorWakesSleeper, Mutating, Reconciling, wakeVars,
       lockVars, topoVars
  <1>50. ASSUME TypeOK, HandoffInv, NEW w \in Waiters, NEW k \in Timeouts, Wait(w, k) PROVE HandoffInv'
    BY <1>0, <1>50 DEF Wait, Goto, TypeOK, PcType, HandoffInv, MutatorWakesSleeper,
       Mutating, Reconciling, MutationPcs, wakeVars, lockVars, topoVars
  <1>51. ASSUME TypeOK, HandoffInv, NEW t \in Clients, NEW g \in Guards, Trigger(t, g) PROVE HandoffInv'
    BY <1>0, <1>51 DEF Trigger, Begin, TypeOK, PcType, HandoffInv, MutatorWakesSleeper,
       Mutating, Reconciling, MutationPcs, wakeVars, lockVars, topoVars
  <1>52. ASSUME TypeOK, HandoffInv, NEW t \in Clients, NEW g \in Guards, CloseGuard(t, g) PROVE HandoffInv'
    BY <1>0, <1>52 DEF CloseGuard, Goto, TypeOK, PcType, HandoffInv, MutatorWakesSleeper,
       Mutating, Reconciling, MutationPcs, wakeVars, lockVars, topoVars
  <1>53. ASSUME TypeOK, HandoffInv, NEW t \in Clients, NEW x \in Waitables, Add(t, x) PROVE HandoffInv'
    BY <1>0, <1>53 DEF Add, Begin, TypeOK, PcType, HandoffInv, MutatorWakesSleeper,
       Mutating, Reconciling, MutationPcs, wakeVars, lockVars, topoVars
  <1>54. ASSUME TypeOK, HandoffInv, NEW t \in Clients, NEW m \in Regs, Remove(t, m) PROVE HandoffInv'
    BY <1>0, <1>54 DEF Remove, Begin, TypeOK, PcType, HandoffInv, MutatorWakesSleeper,
       Mutating, Reconciling, MutationPcs, wakeVars, lockVars, topoVars
  <1>55. ASSUME TypeOK, HandoffInv, NEW t \in Clients, NEW r \in Readers, SetBlocking(t, r) PROVE HandoffInv'
    BY <1>0, <1>55 DEF SetBlocking, Begin, TypeOK, PcType, HandoffInv,
       MutatorWakesSleeper, Mutating, Reconciling, MutationPcs, wakeVars, lockVars,
       topoVars
  <1>56. ASSUME TypeOK, HandoffInv, NEW t \in Clients, Shutdown(t) PROVE HandoffInv'
    BY <1>0, <1>56 DEF Shutdown, Goto, TypeOK, PcType, HandoffInv, MutatorWakesSleeper,
       Mutating, Reconciling, MutationPcs, wakeVars, lockVars, topoVars
  <1>57. ASSUME TypeOK, HandoffInv, NEW r \in Readers, DataArrives(r) PROVE HandoffInv'
    BY <1>57 DEF DataArrives, HandoffInv, MutatorWakesSleeper, Mutating, Reconciling,
       wakeVars, lockVars, topoVars
  <1>58. ASSUME TypeOK, HandoffInv, NEW r \in Readers, Take(r) PROVE HandoffInv'
    BY <1>58 DEF Take, HandoffInv, MutatorWakesSleeper, Mutating, Reconciling, wakeVars,
       lockVars, topoVars
  <1>59. ASSUME HandoffInv, UNCHANGED vars PROVE HandoffInv'
    BY <1>59 DEF vars, wakeVars, lockVars, topoVars, HandoffInv, MutatorWakesSleeper,
       Mutating, Reconciling
  <1>60. ASSUME TypeOK, HandoffInv, NEW t \in Clients, InsertThrows(t) PROVE HandoffInv'
    BY <1>0, <1>60 DEF InsertThrows, Goto, TypeOK, PcType, HandoffInv, MutatorWakesSleeper,
       Mutating, Reconciling, MutationPcs, wakeVars, lockVars, topoVars
  <1>61. QED
    BY <1>1, <1>2, <1>3, <1>4, <1>5, <1>6, <1>7, <1>8, <1>9, <1>10, <1>11, <1>12, <1>13,
       <1>14, <1>15, <1>16, <1>17, <1>18, <1>19, <1>20, <1>21, <1>22, <1>23, <1>24, <1>25,
       <1>26, <1>27, <1>28, <1>29, <1>30, <1>31, <1>32, <1>33, <1>34, <1>35, <1>36, <1>37,
       <1>38, <1>39, <1>40, <1>41, <1>42, <1>43, <1>44, <1>45, <1>46, <1>47, <1>48, <1>49,
       <1>50, <1>51, <1>52, <1>53, <1>54, <1>55, <1>56, <1>57, <1>58, <1>59, <1>60
       DEF Next, MutationStep, ClientStep, WaiterStep, Call

\* A mutator blocked on native_mutex_ never faces a sleeper without a pending
\* wake: MutatorWakesSleeper for every number of threads and waitables.
THEOREM HandoffCorrect == Spec => []MutatorWakesSleeper
  <1>1. HandoffInv => MutatorWakesSleeper
    BY DEF HandoffInv
  <1>2. QED
    BY <1>1, TypeCorrect, InitHandoff, NextHandoff, PTL DEF Spec

-----------------------------------------------------------------------------
(* The registrations: who owns a waitable and whose condition the native   *)
(* WaitSet holds.  The inductive invariant, part by part.                  *)

\* A thread at these places works on registration cur[t].
WorkPcs == MutationPcs \union {"add_unlock", "remove_find", "detach_cas", "detach_lock",
                               "detach_unlock", "block_lock"}

DetachPcs == {"detach_cas", "detach_lock", "release", "detach", "unclaim", "erase"}
BlockPcs  == {"block_copy", "block_lock", "reconcile", "rec_attach", "rec_detach"}
AddPcs    == {"add_lock", "claim", "attach", "claimed", "insert", "add_unlock"}
Bracket   == {"publish", "mut_bump", "mut_wake", "end_topology", "retire", "end_bump",
              "end_wake"}

\* Which operation a place belongs to.
OpShape ==
    \A t \in Threads :
        /\ pc[t] = "idle" => op[t] = "none"
        /\ pc[t] \in WaitPcs => op[t] = "wait"
        /\ pc[t] \in AddPcs => op[t] = "add"
        /\ pc[t] \in BlockPcs => op[t] = "block"
        /\ pc[t] \in DetachPcs => op[t] \in {"remove", "close", "wait"}
        /\ pc[t] \in Bracket => op[t] \in {"add", "block", "remove", "close", "wait"}
        /\ pc[t] \in {"poison", "detach_unlock"} => op[t] \in {"block", "remove", "close", "wait"}
        /\ pc[t] = "remove_find" => op[t] = "remove"
        /\ pc[t] = "close_copy" => op[t] = "close"
        /\ pc[t] \in {"poison", "attach", "claimed", "detach", "unclaim"} => arg[t] \in Readers
        /\ op[t] = "block" => arg[t] \in Readers
        /\ op[t] = "close" => arg[t] \in Guards
        /\ op[t] = "wait" /\ pc[t] \in WorkPcs => arg[t] \in Guards

WaiterShape ==
    /\ \A r \in Readers : ~closing[r]
    /\ \A w \in Waiters : op[w] \in {"none", "wait"}

\* Registrations are numbered in the order of their creation.
Numbered ==
    /\ listed \subseteq 1..created /\ attached \subseteq 1..created
    /\ \A w \in Waiters : todo[w] \subseteq 1..created
    /\ \A n \in Regs : n > created => phase[n] = "unused"

\* A waitable names a registration of its own, and so does a thread that works
\* on one.
Named ==
    /\ \A x \in Waitables : owner[x] <= created /\ (owner[x] # 0 => target[owner[x]] = x)
    /\ \A t \in Threads :
        /\ cur[t] <= created
        /\ pc[t] \in WorkPcs => cur[t] # 0 /\ target[cur[t]] = arg[t]

\* add() keeps mutex_ and everyone else conditions_mutex for a whole mutation.
Locks ==
    \A t \in Threads :
        /\ op[t] = "add" /\ pc[t] \in WorkPcs => mutex = t
        /\ op[t] # "add" /\ pc[t] \in MutationPcs \union {"detach_unlock"} => conditions[cur[t]] = t

\* The registration of add() before anyone else can know of it.
Unpublished(t) ==
    /\ op[t] = "add"
    /\ \/ pc[t] \in {"publish", "mut_bump", "mut_wake", "claim", "attach", "claimed"}
       \/ pc[t] = "insert" /\ arg[t] \in Readers

Fresh ==
    \A t \in Threads : Unpublished(t) =>
        /\ phase[cur[t]] = "Attached" /\ cur[t] \notin listed
        /\ \A u \in Threads : u # t => cur[u] # cur[t]
        /\ \A w \in Waiters : cur[t] \notin todo[w]
        /\ pc[t] # "insert" => \A x \in Waitables : owner[x] # cur[t]
        /\ pc[t] \notin {"claimed", "insert"} => cur[t] \notin attached

\* What add() knows of the waitable it claims.
Claiming ==
    \A t \in Threads :
        /\ pc[t] \in {"attach", "claimed"} => owner[arg[t]] = 0
        /\ pc[t] = "insert" => /\ arg[t] \notin topologyCb
                               /\ phase[cur[t]] = "Attached" => owner[arg[t]] = cur[t]

\* One thread at a time detaches a registration.
Detaching(t) ==
    /\ op[t] \notin {"add", "block"}
    /\ pc[t] \in {"detach_lock", "publish", "mut_bump", "mut_wake", "release", "detach",
                  "unclaim", "erase"}

DetachAlone ==
    \A t \in Threads : Detaching(t) =>
        /\ phase[cur[t]] = "Detaching"
        /\ \A u \in Threads : Detaching(u) /\ cur[u] = cur[t] => u = t
        /\ pc[t] \in {"detach", "unclaim"} => owner[arg[t]] = cur[t]
        /\ pc[t] \in {"unclaim", "erase"} => cur[t] \notin attached

\* While a capacity change is applied its registration owns the reader.
BlockPinned ==
    \A t \in Threads :
        /\ op[t] = "block" /\ pc[t] \in {"publish", "mut_bump", "mut_wake", "reconcile",
                                         "rec_attach", "rec_detach"}
           => owner[arg[t]] = cur[t] /\ phase[cur[t]] \in {"Attached", "Detaching"}
        /\ pc[t] = "block_lock" => (phase[cur[t]] = "Attached" => owner[arg[t]] = cur[t])

\* A registered waitable names its registration, and a reader with an installed
\* topology callback is owned.
Owned ==
    /\ \A n \in listed : phase[n] = "Attached" => owner[target[n]] = n
    /\ \A r \in topologyCb : owner[r] # 0

AttachedReaders == \A n \in attached : target[n] \in Readers

OwnershipInv ==
    /\ OpShape /\ WaiterShape /\ Numbered /\ Named /\ Locks /\ Fresh /\ Claiming
    /\ DetachAlone /\ BlockPinned /\ Owned /\ AttachedReaders /\ NoStaleCondition

-----------------------------------------------------------------------------

\* What the assumptions on the constants say of the sets of the module.
LEMMA Constants ==
    /\ Waiters \intersect Clients = {} /\ Waiters \subseteq Threads /\ Clients \subseteq Threads
    /\ NoThread \notin Threads /\ MaxRegistrations \in Nat
    /\ Waitables = Guards \union Readers /\ Guards \intersect Readers = {}
    /\ Regs = 1..MaxRegistrations /\ RegIds = 0..MaxRegistrations
  BY WaitSetAssumption DEF Threads, Waitables, Regs, RegIds

\* The numbers in use are registrations, the arguments waitables.
LEMMA InRange ==
    ASSUME TypeOK, OwnershipInv
    PROVE  /\ listed \subseteq Regs /\ attached \subseteq Regs /\ created \in Nat
           /\ \A x \in Waitables : owner[x] \in RegIds /\ (owner[x] # 0 => owner[x] \in Regs)
           /\ \A t \in Threads : arg[t] \in Waitables /\ cur[t] \in RegIds
           /\ \A t \in Threads : pc[t] \in WorkPcs => cur[t] \in Regs
           /\ \A n \in Regs : target[n] \in Waitables
           /\ topologyCb \subseteq Readers
  BY Constants DEF TypeOK, RegistrationType, CallType, OwnershipInv, Numbered, Named

-----------------------------------------------------------------------------
(* Steps that leave the registrations alone.                               *)

\* A thread works on no registration.
Away == Pcs \ (WorkPcs \union {"add_lock", "close_copy", "block_copy"})

\* Steps of a thread that is done with its registration: they leave the
\* registrations alone, and the thread ends at a place that claims nothing.
QuietStep(t) ==
    /\ pc[t] # "claimed" /\ pc'[t] \in Away
    /\ pc'[t] = "idle" => op'[t] = "none"
    /\ pc'[t] \in WaitPcs => op'[t] = "wait"
    /\ \/ op'[t] = op[t] /\ arg'[t] = arg[t]
       \/ op'[t] \in {"none", IF t \in Waiters THEN "wait" ELSE "trigger"}
       \/ op'[t] = "shutdown" /\ t \in Clients
    /\ \A u \in Threads \ {t} : pc'[u] = pc[u] /\ op'[u] = op[u] /\ arg'[u] = arg[u]
    /\ UNCHANGED <<regVars, cur, mutex, conditions, todo, closing>>

\* Such a step disturbs no part of the invariant.
LEMMA QuietKeepsOwnership ==
    ASSUME TypeOK, OwnershipInv, NEW t \in Threads, QuietStep(t)
    PROVE  OwnershipInv'
  <1>0. Waiters \intersect Clients = {} /\ Waiters \subseteq Threads /\ Clients \subseteq Threads
    BY WaitSetAssumption DEF Threads
  <1> DEFINE busy == WorkPcs \union {"add_lock", "close_copy", "block_copy"}
  <1>1. /\ UNCHANGED <<listed, created, phase, target, attached, owner, topologyCb, cur,
                       mutex, conditions, todo, closing>>
        /\ pc'[t] \notin busy
        /\ \A u \in Threads : pc'[u] \in busy => u # t
        /\ \A u \in Threads : u # t => pc'[u] = pc[u] /\ op'[u] = op[u] /\ arg'[u] = arg[u]
    BY DEF QuietStep, Away, regVars
  <1>2. OpShape'
    BY <1>0, <1>1 DEF QuietStep, OwnershipInv, OpShape, WorkPcs, DetachPcs, BlockPcs, AddPcs,
       Bracket,
       MutationPcs, WaitPcs
  <1>3. WaiterShape'
    BY <1>0, <1>1 DEF QuietStep, OwnershipInv, WaiterShape
  <1>4. Numbered'
    BY <1>1 DEF OwnershipInv, Numbered
  <1>5. Named'
    BY <1>1 DEF OwnershipInv, Named
  <1>6. Locks'
    BY <1>1 DEF OwnershipInv, Locks, WorkPcs
  <1>7. Fresh'
    <2>1. \A u \in Threads : Unpublished(u)' => Unpublished(u)
      BY <1>1 DEF Unpublished, WorkPcs, MutationPcs
    <2>2. \A u \in Threads : Unpublished(u)' => pc'[u] = pc[u]
      BY <1>1 DEF Unpublished, WorkPcs, MutationPcs
    <2>3. QED
      BY <1>1, <2>1, <2>2 DEF OwnershipInv, Fresh
  <1>8. Claiming'
    BY <1>1 DEF OwnershipInv, Claiming, WorkPcs, MutationPcs
  <1>9. DetachAlone'
    <2>1. \A u \in Threads : Detaching(u)' => Detaching(u) /\ pc'[u] = pc[u] /\ arg'[u] = arg[u]
      BY <1>1 DEF Detaching, WorkPcs, MutationPcs
    <2>2. QED
      BY <1>1, <2>1 DEF OwnershipInv, DetachAlone
  <1>10. BlockPinned'
    BY <1>1 DEF OwnershipInv, BlockPinned, WorkPcs, MutationPcs
  <1>11. Owned' /\ AttachedReaders'
    BY <1>1 DEF OwnershipInv, Owned, AttachedReaders
  <1>12. NoStaleCondition'
    BY <1>0, <1>1 DEF QuietStep, OwnershipInv, NoStaleCondition
  <1>13. QED
    BY <1>2, <1>3, <1>4, <1>5, <1>6, <1>7, <1>8, <1>9, <1>10, <1>11, <1>12 DEF OwnershipInv

\* Steps inside a topology mutation that only move the thread on: the bracket of
\* the TopologyMutationGuard, and a body that ends without a change.
Advance(t) ==
    /\ \/ pc[t] = "publish" /\ pc'[t] = "mut_bump"
       \/ pc[t] = "mut_bump" /\ pc'[t] = "mut_wake"
       \/ pc[t] = "mut_wake" /\ pc'[t] = Body(op[t])
       \/ pc[t] \in {"claim", "attach", "reconcile", "poison"} /\ pc'[t] = "end_topology"
       \/ pc[t] = "reconcile" /\ pc'[t] \in {"rec_attach", "rec_detach"}
       \/ pc[t] \in {"rec_attach", "rec_detach"} /\ pc'[t] = "poison"
       \/ pc[t] = "end_topology" /\ pc'[t] = "retire"
       \/ pc[t] = "retire" /\ pc'[t] = "end_bump"
       \/ pc[t] = "end_bump" /\ pc'[t] = "end_wake"
       \/ pc[t] = "end_wake" /\ pc'[t] = IF op[t] = "add" THEN "add_unlock" ELSE "detach_unlock"
       \/ pc[t] = "remove_find" /\ pc'[t] = "detach_cas"
    /\ \A u \in Threads \ {t} : pc'[u] = pc[u]
    /\ UNCHANGED <<regVars, op, arg, cur, mutex, conditions, todo, closing>>

\* Neither does such a step: the place it leads to claims no more than the one
\* it leaves.
LEMMA AdvanceKeepsOwnership ==
    ASSUME TypeOK, OwnershipInv, NEW t \in Threads, Advance(t)
    PROVE  OwnershipInv'
  <1>1. UNCHANGED <<op, arg, cur, listed, created, phase, target, attached, owner, topologyCb,
                    mutex, conditions, todo, closing>>
    BY DEF Advance, regVars
  <1>2. \A u \in Threads : u # t => pc'[u] = pc[u]
    BY DEF Advance
  <1>3. OpShape' /\ WaiterShape'
    BY <1>1, <1>2 DEF Advance, Body, OwnershipInv, OpShape, WaiterShape, WorkPcs, DetachPcs,
       BlockPcs, AddPcs, Bracket, MutationPcs, WaitPcs
  <1>4. pc[t] \in WorkPcs /\ pc'[t] \in WorkPcs
    BY DEF Advance, Body, WorkPcs, MutationPcs
  <1>5. Numbered' /\ Named'
    BY <1>1, <1>2, <1>4 DEF OwnershipInv, Numbered, Named
  <1>6. Locks'
    BY <1>1, <1>2, <1>4 DEF Advance, Body, OwnershipInv, OpShape, Locks, WorkPcs, MutationPcs
  <1>7. Fresh'
    <2>1. \A u \in Threads : Unpublished(u)' => Unpublished(u)
      BY <1>1, <1>2 DEF Advance, Body, Unpublished, OwnershipInv, OpShape, AddPcs, BlockPcs,
         Bracket
    <2>2. \A u \in Threads : pc'[u] \in {"claimed", "insert"} => pc'[u] = pc[u]
      BY <1>2 DEF Advance, Body
    <2>3. \A u \in Threads : pc[u] \in {"claimed", "insert"} => pc'[u] = pc[u]
      BY <1>2 DEF Advance, Body
    <2>4. QED
      BY <1>1, <2>1, <2>2, <2>3 DEF OwnershipInv, Fresh
  <1>8. Claiming'
    BY <1>1, <1>2 DEF Advance, Body, OwnershipInv, Claiming
  <1>9. DetachAlone'
    <2>1. \A u \in Threads : Detaching(u)' => Detaching(u)
      BY <1>1, <1>2 DEF Advance, Body, Detaching, OwnershipInv, OpShape, AddPcs, BlockPcs, Bracket
    <2>2. \A u \in Threads : pc'[u] \in {"detach", "unclaim", "erase"} => pc'[u] = pc[u]
      BY <1>2 DEF Advance, Body
    <2>3. QED
      BY <1>1, <2>1, <2>2 DEF OwnershipInv, DetachAlone
  <1>10. BlockPinned'
    BY <1>1, <1>2 DEF Advance, Body, OwnershipInv, OpShape, BlockPinned, WorkPcs, DetachPcs,
       BlockPcs, AddPcs, Bracket
  <1>11. Owned' /\ AttachedReaders'
    BY <1>1 DEF OwnershipInv, Owned, AttachedReaders
  <1>12. NoStaleCondition'
    <2>1. \A u \in Threads : pc[u] = "claimed" => pc'[u] = "claimed"
      BY <1>2 DEF Advance
    <2>2. QED
      BY <1>1, <2>1, Constants DEF OwnershipInv, NoStaleCondition
  <1>13. QED
    BY <1>3, <1>5, <1>6, <1>7, <1>8, <1>9, <1>10, <1>11, <1>12 DEF OwnershipInv

\* The invariant is about these variables only.
LEMMA StutterKeepsOwnership ==
    ASSUME OwnershipInv,
           UNCHANGED <<listed, created, phase, target, attached, owner, topologyCb, op, arg, cur,
                       mutex, conditions, todo, closing, pc>>
    PROVE  OwnershipInv'
  <1>1. (OpShape /\ WaiterShape /\ Numbered /\ Named /\ Locks)'
    BY DEF OwnershipInv, OpShape, WaiterShape, Numbered, Named, Locks
  <1>2. (Fresh /\ Claiming /\ DetachAlone /\ BlockPinned)'
    BY DEF OwnershipInv, Fresh, Unpublished, Claiming, DetachAlone, Detaching, BlockPinned
  <1>3. (Owned /\ AttachedReaders /\ NoStaleCondition)'
    BY DEF OwnershipInv, Owned, AttachedReaders, NoStaleCondition
  <1>4. QED
    BY <1>1, <1>2, <1>3 DEF OwnershipInv

-----------------------------------------------------------------------------
(* Steps that change them.                                                 *)

\* add() takes its registration back, which nobody else works on: for a reader
\* nobody knows of it, and no one detaches what is Attached.
LEMMA TakeBackKeepsOwnership ==
    ASSUME TypeOK, OwnershipInv, NEW t \in Clients, InsertThrows(t)
    PROVE  OwnershipInv'
  <1>1. /\ pc[t] = "insert" /\ op[t] = "add" /\ mutex = t
        /\ cur[t] \in Regs /\ cur[t] <= created /\ target[cur[t]] = arg[t]
        /\ owner[arg[t]] = cur[t] /\ phase[cur[t]] = "Attached"
        /\ arg[t] \notin topologyCb
    BY Constants, InRange DEF InsertThrows, OwnershipInv, OpShape, Named, Locks, Claiming,
       WorkPcs, AddPcs, MutationPcs
  <1>2. /\ pc'[t] = "end_topology" /\ \A u \in Threads : u # t => pc'[u] = pc[u]
        /\ \A x \in Waitables : owner'[x] = IF x = arg[t] THEN 0 ELSE owner[x]
        /\ \A n \in Regs : phase'[n] = IF n = cur[t] THEN "Detached" ELSE phase[n]
        /\ attached' = attached \ {cur[t]}
    BY Constants, <1>1 DEF InsertThrows, Goto, TypeOK, RegistrationType, CallType, PcType
  <1>3. UNCHANGED <<op, arg, cur, listed, created, target, topologyCb, mutex, conditions,
                    todo, closing>>
    BY DEF InsertThrows, ctxVars, lockVars, callVars, waitVars
  <1>4. OpShape' /\ WaiterShape'
    BY Constants, <1>1, <1>2, <1>3 DEF OwnershipInv, OpShape, WaiterShape, WorkPcs, DetachPcs,
       BlockPcs, AddPcs, Bracket, MutationPcs, WaitPcs
  <1>5. Numbered' /\ Named'
    <2>1. Numbered'
      BY <1>1, <1>2, <1>3, InRange DEF OwnershipInv, Numbered
    <2>2. \A x \in Waitables : owner'[x] <= created' /\ (owner'[x] # 0 => target'[owner'[x]] = x)
      BY <1>2, <1>3, InRange DEF OwnershipInv, Named
    <2>3. \A u \in Threads : pc'[u] \in WorkPcs => pc[u] \in WorkPcs
      BY <1>1, <1>2 DEF WorkPcs, MutationPcs
    <2>4. QED
      BY <1>3, <2>1, <2>2, <2>3 DEF OwnershipInv, Named
  <1>6. Locks'
    BY Constants, <1>1, <1>2, <1>3, InRange DEF OwnershipInv, Locks, WorkPcs, MutationPcs
  <1>7. Fresh'
    <2>1. \A u \in Threads : u # t /\ Unpublished(u)' =>
             Unpublished(u) /\ cur[u] # cur[t] /\ cur[u] \in Regs
      BY Constants, <1>1, <1>2, <1>3, InRange DEF OwnershipInv, Fresh, Unpublished, WorkPcs,
         MutationPcs
    <2>2. ~Unpublished(t)'
      BY Constants, <1>1, <1>2, <1>3 DEF Unpublished
    <2>3. QED
      BY Constants, <1>1, <1>2, <1>3, <2>1, <2>2, InRange DEF OwnershipInv, Fresh
  <1>8. Claiming'
    BY Constants, <1>1, <1>2, <1>3, InRange DEF OwnershipInv, Claiming, WorkPcs, MutationPcs,
       OpShape, AddPcs, Locks
  <1>9. DetachAlone'
    <2>1. \A u \in Threads : u # t /\ Detaching(u)' =>
             Detaching(u) /\ cur[u] \in Regs /\ cur[u] # cur[t] /\ target[cur[u]] = arg[u]
      BY Constants, <1>1, <1>2, <1>3, InRange DEF OwnershipInv, DetachAlone, Detaching, Named,
         WorkPcs, MutationPcs
    <2>2. ~Detaching(t)'
      BY Constants, <1>1, <1>2, <1>3 DEF Detaching
    <2>3. QED
      BY Constants, <1>1, <1>2, <1>3, <2>1, <2>2, InRange DEF OwnershipInv, DetachAlone
  <1>10. BlockPinned'
    <2>1. \A u \in Threads : u # t /\ op[u] = "block" /\ arg[u] = arg[t] => cur[u] # cur[t]
      BY Constants, <1>1 DEF OwnershipInv, Fresh, Unpublished, OpShape
    <2>2. QED
      BY Constants, <1>1, <1>2, <1>3, <2>1, InRange DEF OwnershipInv, BlockPinned, Named,
         OpShape, BlockPcs, WorkPcs, MutationPcs
  <1>11. Owned' /\ AttachedReaders'
    BY Constants, <1>1, <1>2, <1>3, InRange DEF OwnershipInv, Owned, AttachedReaders
  <1>12. NoStaleCondition'
    BY Constants, <1>1, <1>2, <1>3, InRange DEF OwnershipInv, NoStaleCondition
  <1>13. QED
    BY <1>4, <1>5, <1>6, <1>7, <1>8, <1>9, <1>10, <1>11, <1>12 DEF OwnershipInv

\* add() creates a registration object: the next number, known to nobody else.
LEMMA CreateKeepsOwnership ==
    ASSUME TypeOK, OwnershipInv, NEW t \in Clients, AddLock(t)
    PROVE  OwnershipInv'
  <1>0. /\ Waiters \intersect Clients = {} /\ Waiters \subseteq Threads /\ Clients \subseteq Threads
        /\ NoThread \notin Threads /\ MaxRegistrations \in Nat
        /\ Regs = 1..MaxRegistrations /\ RegIds = 0..MaxRegistrations
    BY WaitSetAssumption DEF Threads, Regs, RegIds
  <1>1. CASE poisoned \/ created = MaxRegistrations
    <2>1. QuietStep(t)
      BY <1>0, <1>1 DEF AddLock, Goto, QuietStep, Away, TypeOK, PcType, Pcs, CallPcs, WorkPcs,
         WaitPcs, MutationPcs, lockVars, regVars, callVars, waitVars
    <2>2. QED
      BY <1>0, <2>1, QuietKeepsOwnership
  <1>2. CASE ~(poisoned \/ created = MaxRegistrations)
    <2> DEFINE m == created + 1
    <2>1. /\ created \in Nat /\ m \in Regs /\ created' = m /\ op[t] = "add"
          /\ mutex = NoThread /\ mutex' = t /\ pc'[t] = "publish" /\ cur'[t] = m
          /\ \A u \in Threads : u # t => pc'[u] = pc[u] /\ cur'[u] = cur[u]
          /\ phase'[m] = "Attached" /\ target'[m] = arg[t]
          /\ \A n \in Regs : n # m => phase'[n] = phase[n] /\ target'[n] = target[n]
      BY <1>0, <1>2 DEF AddLock, Goto, TypeOK, RegistrationType, CallType, PcType, OwnershipInv,
         OpShape, AddPcs
    <2>2. UNCHANGED <<op, arg, listed, attached, owner, topologyCb, conditions, todo, closing>>
      BY <1>2 DEF AddLock, guardVars, waitVars
    <2>3. /\ \A n \in listed : n \in Regs /\ n # m
          /\ \A n \in attached : n \in Regs /\ n # m
          /\ \A w \in Waiters : m \notin todo[w]
          /\ \A x \in Waitables : owner[x] # m /\ (owner[x] # 0 => owner[x] \in Regs)
          /\ \A u \in Threads : cur[u] # m /\ (cur[u] # 0 => cur[u] \in Regs)
      BY <1>0, <2>1 DEF TypeOK, RegistrationType, CallType, OwnershipInv, Numbered, Named
    <2>4. \A u \in Threads : op[u] = "add" => pc[u] \notin WorkPcs
      BY <1>0, <2>1 DEF OwnershipInv, Locks
    <2>5. OpShape' /\ WaiterShape'
      BY <2>1, <2>2 DEF OwnershipInv, OpShape, WaiterShape, WorkPcs, DetachPcs, BlockPcs,
         AddPcs, Bracket, WaitPcs
    <2>6. Numbered'
      BY <1>0, <2>1, <2>2, <2>3 DEF OwnershipInv, Numbered
    <2>7. Named'
      <3>1. \A x \in Waitables : owner[x] <= m /\ (owner[x] # 0 => target'[owner[x]] = x)
        BY <1>0, <2>1, <2>3 DEF TypeOK, RegistrationType, OwnershipInv, Named
      <3>2. ASSUME NEW u \in Threads
            PROVE  cur'[u] <= m /\ (pc'[u] \in WorkPcs => cur'[u] # 0 /\ target'[cur'[u]] = arg[u])
        BY <1>0, <2>1, <2>3 DEF TypeOK, CallType, OwnershipInv, Named
      <3>3. QED
        BY <2>1, <2>2, <3>1, <3>2 DEF Named
    <2>8. Locks'
      BY <1>0, <2>1, <2>2, <2>4 DEF OwnershipInv, Locks, WorkPcs, MutationPcs
    <2>9. Fresh'
      <3>1. \A u \in Threads : Unpublished(u)' => u = t
        BY <2>1, <2>2, <2>4 DEF Unpublished, WorkPcs, MutationPcs
      <3>2. QED
        BY <1>0, <2>1, <2>2, <2>3, <3>1 DEF Fresh
    <2>10. Claiming'
      BY <2>1, <2>2, <2>4 DEF OwnershipInv, Claiming, OpShape, AddPcs, WorkPcs, MutationPcs
    <2>11. DetachAlone'
      <3>1. \A u \in Threads : Detaching(u)' => Detaching(u) /\ u # t /\ cur[u] # 0
        BY <2>1, <2>2 DEF OwnershipInv, Named, Detaching, WorkPcs, MutationPcs
      <3>2. QED
        BY <2>1, <2>2, <2>3, <3>1 DEF OwnershipInv, DetachAlone
    <2>12. BlockPinned'
      BY <2>1, <2>2, <2>3 DEF OwnershipInv, Named, BlockPinned, WorkPcs, MutationPcs
    <2>13. Owned' /\ AttachedReaders'
      BY <2>1, <2>2, <2>3 DEF OwnershipInv, Owned, AttachedReaders
    <2>14. NoStaleCondition'
      BY <1>0, <2>1, <2>2, <2>3, <2>4 DEF OwnershipInv, NoStaleCondition, OpShape, AddPcs,
         WorkPcs, MutationPcs
    <2>15. QED
      BY <2>5, <2>6, <2>7, <2>8, <2>9, <2>10, <2>11, <2>12, <2>13, <2>14 DEF OwnershipInv
  <1>3. QED
    BY <1>1, <1>2

\* A wait that meets a closing waitable of its snapshot goes on to detach it.
LEMMA ScanKeepsOwnership ==
    ASSUME TypeOK, OwnershipInv, NEW w \in Waiters, NEW n \in Regs, Scan(w, n)
    PROVE  OwnershipInv'
  <1>0. /\ Waiters \subseteq Threads /\ Clients \subseteq Threads
        /\ Waitables = Guards \union Readers /\ Guards \intersect Readers = {}
    BY WaitSetAssumption DEF Threads, Waitables
  <1>1. /\ op[w] = "wait" /\ pc[w] = "scan" /\ n \in todo[w] /\ n <= created /\ n # 0
        /\ target[n] \in Waitables /\ \A v \in Waiters : todo'[v] \subseteq todo[v]
    BY <1>0 DEF Scan, TypeOK, WaitType, RegistrationType, Regs, OwnershipInv, OpShape, WaitPcs,
       Numbered
  <1>2. UNCHANGED <<regVars, op, mutex, conditions, closing>>
    BY DEF Scan, lockVars
  <1>3. CASE ~closing[target[n]]
    <2>1. UNCHANGED <<pc, arg, cur>>
      BY <1>3 DEF Scan
    <2>2. OpShape' /\ WaiterShape' /\ Named' /\ Locks' /\ Claiming' /\ DetachAlone'
      BY <1>2, <2>1 DEF OwnershipInv, OpShape, WaiterShape, Named, Locks, Claiming, DetachAlone,
         Detaching, regVars
    <2>3. Numbered' /\ Fresh'
      BY <1>1, <1>2, <2>1 DEF OwnershipInv, Numbered, Fresh, Unpublished, regVars
    <2>4. BlockPinned' /\ Owned' /\ AttachedReaders' /\ NoStaleCondition'
      BY <1>2, <2>1 DEF OwnershipInv, BlockPinned, Owned, AttachedReaders, NoStaleCondition,
         regVars
    <2>5. QED
      BY <2>2, <2>3, <2>4 DEF OwnershipInv
  <1>4. CASE closing[target[n]]
    <2>1. /\ pc'[w] = "detach_cas" /\ cur'[w] = n /\ arg'[w] = target[n]
          /\ \A u \in Threads : u # w => pc'[u] = pc[u] /\ cur'[u] = cur[u] /\ arg'[u] = arg[u]
      BY <1>0, <1>4 DEF Scan, Goto, TypeOK, CallType, PcType
    <2>2. target[n] \in Guards
      BY <1>0, <1>1, <1>4 DEF OwnershipInv, WaiterShape
    <2>3. OpShape' /\ WaiterShape'
      BY <1>0, <1>1, <1>2, <2>1, <2>2 DEF OwnershipInv, OpShape, WaiterShape, WorkPcs, DetachPcs,
         BlockPcs, AddPcs, Bracket, MutationPcs, WaitPcs
    <2>4. Numbered' /\ Named'
      BY <1>0, <1>1, <1>2, <2>1 DEF OwnershipInv, Numbered, Named, regVars
    <2>5. Locks'
      BY <1>1, <1>2, <2>1 DEF OwnershipInv, Locks, WorkPcs, MutationPcs
    <2>6. Fresh'
      <3>1. \A u \in Threads : Unpublished(u)' => u # w /\ Unpublished(u) /\ cur[u] # n
        BY <1>0, <1>1, <1>2, <2>1 DEF OwnershipInv, Fresh, Unpublished
      <3>2. QED
        BY <1>0, <1>1, <1>2, <2>1, <3>1 DEF OwnershipInv, Fresh, regVars
    <2>7. Claiming' /\ BlockPinned'
      BY <1>1, <1>2, <2>1 DEF OwnershipInv, Claiming, BlockPinned, regVars
    <2>8. DetachAlone'
      <3>1. \A u \in Threads : Detaching(u)' => u # w /\ Detaching(u)
        BY <1>2, <2>1 DEF Detaching
      <3>2. QED
        BY <1>2, <2>1, <3>1 DEF OwnershipInv, DetachAlone, regVars
    <2>9. Owned' /\ AttachedReaders'
      BY <1>2 DEF OwnershipInv, Owned, AttachedReaders, regVars
    <2>10. NoStaleCondition'
      BY <1>0, <1>1, <1>2, <2>1 DEF OwnershipInv, NoStaleCondition, regVars
    <2>11. QED
      BY <2>3, <2>4, <2>5, <2>6, <2>7, <2>8, <2>9, <2>10 DEF OwnershipInv
  <1>5. QED
    BY <1>3, <1>4

\* Every step keeps the invariant: one step per action, and under it the facts
\* the action starts from, what it assigns, and the parts one by one.
LEMMA OwnershipNext == TypeOK /\ OwnershipInv /\ [Next]_vars => OwnershipInv'
  <1>1. ASSUME TypeOK, OwnershipInv, NEW t \in Threads, Publish(t) PROVE OwnershipInv'
    <2>1. Advance(t)
      BY Constants, <1>1 DEF Publish, Goto, Advance, TypeOK, PcType, ctxVars,
         lockVars, regVars, callVars, waitVars
    <2>2. QED
      BY Constants, <1>1, <2>1, AdvanceKeepsOwnership
  <1>2. ASSUME TypeOK, OwnershipInv, NEW t \in Threads, MutBump(t) PROVE OwnershipInv'
    <2>1. Advance(t)
      BY Constants, <1>2 DEF MutBump, Goto, Advance, TypeOK, PcType, ctxVars,
         lockVars, regVars, callVars, waitVars
    <2>2. QED
      BY Constants, <1>2, <2>1, AdvanceKeepsOwnership
  <1>3. ASSUME TypeOK, OwnershipInv, NEW t \in Threads, MutWake(t) PROVE OwnershipInv'
    <2>1. Advance(t)
      BY Constants, <1>3 DEF MutWake, Goto, Advance, TypeOK, PcType, ctxVars,
         lockVars, regVars, callVars, waitVars
    <2>2. QED
      BY Constants, <1>3, <2>1, AdvanceKeepsOwnership
  <1>4. ASSUME TypeOK, OwnershipInv, NEW t \in Threads, EndTopology(t) PROVE OwnershipInv'
    <2>1. Advance(t)
      BY Constants, <1>4 DEF EndTopology, Goto, Advance, TypeOK, PcType, ctxVars,
         lockVars, regVars, callVars, waitVars
    <2>2. QED
      BY Constants, <1>4, <2>1, AdvanceKeepsOwnership
  <1>5. ASSUME TypeOK, OwnershipInv, NEW t \in Threads, Retire(t) PROVE OwnershipInv'
    <2>1. Advance(t)
      BY Constants, <1>5 DEF Retire, Goto, Advance, TypeOK, PcType, ctxVars, lockVars,
         regVars, callVars, waitVars
    <2>2. QED
      BY Constants, <1>5, <2>1, AdvanceKeepsOwnership
  <1>6. ASSUME TypeOK, OwnershipInv, NEW t \in Threads, EndBump(t) PROVE OwnershipInv'
    <2>1. Advance(t)
      BY Constants, <1>6 DEF EndBump, Goto, Advance, TypeOK, PcType, ctxVars,
         lockVars, regVars, callVars, waitVars
    <2>2. QED
      BY Constants, <1>6, <2>1, AdvanceKeepsOwnership
  <1>7. ASSUME TypeOK, OwnershipInv, NEW t \in Threads, EndWake(t) PROVE OwnershipInv'
    <2>1. Advance(t)
      BY Constants, <1>7 DEF EndWake, Goto, Advance, TypeOK, PcType, ctxVars,
         lockVars, regVars, callVars, waitVars
    <2>2. QED
      BY Constants, <1>7, <2>1, AdvanceKeepsOwnership
  <1>8. ASSUME TypeOK, OwnershipInv, NEW t \in Threads, Poison(t) PROVE OwnershipInv'
    <2>1. Advance(t)
      BY Constants, <1>8 DEF Poison, Goto, Advance, TypeOK, PcType, ctxVars, lockVars,
         regVars, callVars, waitVars
    <2>2. QED
      BY Constants, <1>8, <2>1, AdvanceKeepsOwnership
  <1>9. ASSUME TypeOK, OwnershipInv, NEW t \in Clients, Reconcile(t) PROVE OwnershipInv'
    <2>1. Advance(t)
      BY Constants, <1>9 DEF Reconcile, ReconcileStep, Goto, Advance, TypeOK, PcType,
         ctxVars, lockVars, regVars, callVars, waitVars
    <2>2. QED
      BY Constants, <1>9, <2>1, AdvanceKeepsOwnership
  <1>10. ASSUME TypeOK, OwnershipInv, NEW t \in Threads, DetachCas(t) PROVE OwnershipInv'
    <2>1. CASE phase[cur[t]] # "Attached"
      <3>1. QuietStep(t)
        BY Constants, <1>10, <2>1 DEF DetachCas, AfterDetach, Goto, QuietStep, Away,
           TypeOK, CallType, PcType, OwnershipInv, OpShape, Pcs, CallPcs, WorkPcs,
           DetachPcs, BlockPcs, AddPcs, Bracket, MutationPcs, WaitPcs, ctxVars,
           lockVars, regVars, callVars, waitVars
      <3>2. QED
        BY Constants, <1>10, <3>1, QuietKeepsOwnership
    <2>2. CASE phase[cur[t]] = "Attached"
      <3>1. /\ pc[t] = "detach_cas" /\ op[t] \in {"remove", "close", "wait"}
            /\ cur[t] \in Regs /\ cur[t] <= created /\ target[cur[t]] = arg[t]
            /\ \A u \in Threads : Detaching(u) => cur[u] # cur[t]
        BY Constants, InRange, <1>10, <2>2 DEF DetachCas, OwnershipInv, OpShape,
           Named, DetachAlone, Detaching, WorkPcs, DetachPcs, BlockPcs, AddPcs,
           MutationPcs, WaitPcs
      <3>2. /\ pc'[t] = "detach_lock"
            /\ \A u \in Threads : u # t => pc'[u] = pc[u]
            /\ phase'[cur[t]] = "Detaching"
            /\ \A n \in Regs : n # cur[t] => phase'[n] = phase[n]
        BY Constants, <1>10, <2>2, <3>1 DEF DetachCas, Goto, TypeOK,
           RegistrationType, LockType, CallType, PcType, WaitType, FlagType
      <3>3. UNCHANGED <<op, arg, cur, listed, created, target, attached, owner, topologyCb,
                        mutex, conditions, todo, closing>>
        BY <1>10, <2>2 DEF DetachCas, ctxVars, lockVars, regVars, callVars, waitVars
      <3>4. OpShape' /\ WaiterShape'
        BY Constants, <1>10, <3>1, <3>2, <3>3 DEF OwnershipInv, OpShape,
           WaiterShape, WorkPcs, DetachPcs, BlockPcs, AddPcs, Bracket, MutationPcs,
           WaitPcs
      <3>5. Numbered' /\ Named'
        BY Constants, <1>10, <3>1, <3>2, <3>3, InRange DEF OwnershipInv, Numbered,
           Named, WorkPcs, MutationPcs
      <3>6. Locks'
        BY Constants, <1>10, <3>1, <3>2, <3>3, InRange DEF OwnershipInv, Locks,
           WorkPcs, MutationPcs
      <3>7. Fresh'
        <4>1. \A u \in Threads : u # t /\ Unpublished(u)' =>
                 Unpublished(u) /\ cur[u] # cur[t] /\ cur[u] \in Regs
          BY Constants, <1>10, <3>1, <3>2, <3>3, InRange DEF OwnershipInv, Fresh,
             Unpublished, WorkPcs, MutationPcs
        <4>2. ~Unpublished(t)'
          BY Constants, <1>10, <3>1, <3>2, <3>3 DEF Unpublished
        <4>3. QED
          BY Constants, <1>10, <3>1, <3>2, <3>3, <4>1, <4>2, InRange DEF
             OwnershipInv, Fresh
      <3>8. Claiming'
        BY Constants, <1>10, <3>1, <3>2, <3>3, InRange DEF OwnershipInv, Claiming,
           WorkPcs, MutationPcs
      <3>9. DetachAlone'
        <4>1. \A u \in Threads : u # t /\ Detaching(u)' => Detaching(u) /\ cur[u] \in Regs
          BY Constants, <1>10, <3>1, <3>2, <3>3, InRange DEF Detaching, WorkPcs,
             MutationPcs
        <4>2. TRUE
          BY Constants, <1>10, <3>1, <3>2, <3>3 DEF Detaching
        <4>3. QED
          BY Constants, <1>10, <3>1, <3>2, <3>3, <4>1, <4>2, InRange DEF
             OwnershipInv, DetachAlone
      <3>10. BlockPinned'
        BY Constants, <1>10, <3>1, <3>2, <3>3, InRange DEF OwnershipInv,
           BlockPinned, WorkPcs, MutationPcs
      <3>11. Owned' /\ AttachedReaders'
        BY Constants, <1>10, <3>1, <3>2, <3>3, InRange DEF OwnershipInv, Owned,
           AttachedReaders
      <3>12. NoStaleCondition'
        BY Constants, <1>10, <3>1, <3>2, <3>3, InRange DEF OwnershipInv,
           NoStaleCondition
      <3>13. QED
        BY <3>4, <3>5, <3>6, <3>7, <3>8, <3>9, <3>10, <3>11, <3>12 DEF OwnershipInv
    <2>3. QED
      BY <1>10, <2>1, <2>2 DEF DetachCas
  <1>11. ASSUME TypeOK, OwnershipInv, NEW t \in Threads, DetachLock(t) PROVE OwnershipInv'
    <2>1. /\ pc[t] = "detach_lock"
          /\ op[t] \in {"remove", "close", "wait"} /\ Detaching(t)
          /\ cur[t] \in Regs /\ cur[t] <= created /\ target[cur[t]] = arg[t]
          /\ conditions[cur[t]] = NoThread
      BY Constants, InRange, <1>11 DEF DetachLock, OwnershipInv, OpShape, Named,
         DetachAlone, Detaching, WorkPcs, DetachPcs, BlockPcs, AddPcs, MutationPcs,
         WaitPcs
    <2>2. /\ pc'[t] = "publish"
          /\ \A u \in Threads : u # t => pc'[u] = pc[u]
          /\ conditions'[cur[t]] = t
          /\ \A n \in Regs : n # cur[t] => conditions'[n] = conditions[n]
      BY Constants, <1>11, <2>1 DEF DetachLock, Goto, TypeOK, RegistrationType,
         LockType, CallType, PcType, WaitType, FlagType
    <2>3. UNCHANGED <<op, arg, cur, listed, created, phase, target, attached, owner,
                      topologyCb, mutex, todo, closing>>
      BY <1>11 DEF DetachLock, ctxVars, lockVars, regVars, callVars, waitVars
    <2>4. OpShape' /\ WaiterShape'
      BY Constants, <1>11, <2>1, <2>2, <2>3 DEF OwnershipInv, OpShape, WaiterShape,
         WorkPcs, DetachPcs, BlockPcs, AddPcs, Bracket, MutationPcs, WaitPcs
    <2>5. Numbered' /\ Named'
      BY Constants, <1>11, <2>1, <2>2, <2>3, InRange DEF OwnershipInv, Numbered,
         Named, WorkPcs, MutationPcs
    <2>6. Locks'
      BY Constants, <1>11, <2>1, <2>2, <2>3, InRange DEF OwnershipInv, Locks, WorkPcs,
         MutationPcs
    <2>7. Fresh'
      <3>1. \A u \in Threads : u # t /\ Unpublished(u)' =>
               Unpublished(u) /\ cur[u] # cur[t] /\ cur[u] \in Regs
        BY Constants, <1>11, <2>1, <2>2, <2>3, InRange DEF OwnershipInv, Fresh,
           Unpublished, WorkPcs, MutationPcs
      <3>2. ~Unpublished(t)'
        BY Constants, <1>11, <2>1, <2>2, <2>3 DEF Unpublished
      <3>3. QED
        BY Constants, <1>11, <2>1, <2>2, <2>3, <3>1, <3>2, InRange DEF OwnershipInv,
           Fresh
    <2>8. Claiming'
      BY Constants, <1>11, <2>1, <2>2, <2>3, InRange DEF OwnershipInv, Claiming,
         WorkPcs, MutationPcs
    <2>9. DetachAlone'
      <3>1. \A u \in Threads : u # t /\ Detaching(u)' => Detaching(u) /\ cur[u] \in Regs
        BY Constants, <1>11, <2>1, <2>2, <2>3, InRange DEF Detaching, WorkPcs,
           MutationPcs
      <3>2. TRUE
        BY Constants, <1>11, <2>1, <2>2, <2>3 DEF Detaching
      <3>3. QED
        BY Constants, <1>11, <2>1, <2>2, <2>3, <3>1, <3>2, InRange DEF OwnershipInv,
           DetachAlone
    <2>10. BlockPinned'
      BY Constants, <1>11, <2>1, <2>2, <2>3, InRange DEF OwnershipInv, BlockPinned,
         WorkPcs, MutationPcs
    <2>11. Owned' /\ AttachedReaders'
      BY Constants, <1>11, <2>1, <2>2, <2>3, InRange DEF OwnershipInv, Owned,
         AttachedReaders
    <2>12. NoStaleCondition'
      BY Constants, <1>11, <2>1, <2>2, <2>3, InRange DEF OwnershipInv,
         NoStaleCondition
    <2>13. QED
      BY <2>4, <2>5, <2>6, <2>7, <2>8, <2>9, <2>10, <2>11, <2>12 DEF OwnershipInv
  <1>12. ASSUME TypeOK, OwnershipInv, NEW t \in Threads, Release(t) PROVE OwnershipInv'
    <2>1. CASE arg[t] \in Readers /\ owner[arg[t]] = cur[t]
      <3>1. /\ pc[t] = "release"
            /\ op[t] \in {"remove", "close", "wait"} /\ Detaching(t)
            /\ cur[t] \in Regs /\ cur[t] <= created /\ target[cur[t]] = arg[t]
            /\ arg[t] \in Readers /\ owner[arg[t]] = cur[t]
        BY Constants, InRange, <1>12, <2>1 DEF Release, ReleaseStep, OwnershipInv,
           OpShape, Named, DetachAlone, Detaching, Claiming, BlockPinned, WorkPcs,
           DetachPcs, BlockPcs, AddPcs, MutationPcs, WaitPcs
      <3>2. /\ pc'[t] \in {"detach", "unclaim"}
            /\ pc'[t] = "unclaim" => cur[t] \notin attached
            /\ \A u \in Threads : u # t => pc'[u] = pc[u]
        BY Constants, <1>12, <2>1, <3>1 DEF Release, ReleaseStep, Goto, TypeOK,
           RegistrationType, LockType, CallType, PcType, WaitType, FlagType
      <3>3. UNCHANGED <<op, arg, cur, listed, created, phase, target, attached, owner,
                        topologyCb, mutex, conditions, todo, closing>>
        BY <1>12, <2>1 DEF Release, ReleaseStep, ctxVars, lockVars, regVars,
           callVars, waitVars
      <3>4. OpShape' /\ WaiterShape'
        BY Constants, <1>12, <3>1, <3>2, <3>3 DEF OwnershipInv, OpShape,
           WaiterShape, WorkPcs, DetachPcs, BlockPcs, AddPcs, Bracket, MutationPcs,
           WaitPcs
      <3>5. Numbered' /\ Named'
        BY Constants, <1>12, <3>1, <3>2, <3>3, InRange DEF OwnershipInv, Numbered,
           Named, WorkPcs, MutationPcs
      <3>6. Locks'
        BY Constants, <1>12, <3>1, <3>2, <3>3, InRange DEF OwnershipInv, Locks,
           WorkPcs, MutationPcs
      <3>7. Fresh'
        <4>1. \A u \in Threads : u # t /\ Unpublished(u)' =>
                 Unpublished(u) /\ cur[u] # cur[t] /\ cur[u] \in Regs
          BY Constants, <1>12, <3>1, <3>2, <3>3, InRange DEF OwnershipInv, Fresh,
             Unpublished, WorkPcs, MutationPcs
        <4>2. ~Unpublished(t)'
          BY Constants, <1>12, <3>1, <3>2, <3>3 DEF Unpublished
        <4>3. QED
          BY Constants, <1>12, <3>1, <3>2, <3>3, <4>1, <4>2, InRange DEF
             OwnershipInv, Fresh
      <3>8. Claiming'
        BY Constants, <1>12, <3>1, <3>2, <3>3, InRange DEF OwnershipInv, Claiming,
           WorkPcs, MutationPcs
      <3>9. DetachAlone'
        <4>1. \A u \in Threads : u # t /\ Detaching(u)' => Detaching(u) /\ cur[u] \in Regs
          BY Constants, <1>12, <3>1, <3>2, <3>3, InRange DEF Detaching, WorkPcs,
             MutationPcs
        <4>2. TRUE
          BY Constants, <1>12, <3>1, <3>2, <3>3 DEF Detaching
        <4>3. QED
          BY Constants, <1>12, <3>1, <3>2, <3>3, <4>1, <4>2, InRange DEF
             OwnershipInv, DetachAlone
      <3>10. BlockPinned'
        BY Constants, <1>12, <3>1, <3>2, <3>3, InRange DEF OwnershipInv,
           BlockPinned, WorkPcs, MutationPcs
      <3>11. Owned' /\ AttachedReaders'
        BY Constants, <1>12, <3>1, <3>2, <3>3, InRange DEF OwnershipInv, Owned,
           AttachedReaders
      <3>12. NoStaleCondition'
        BY Constants, <1>12, <3>1, <3>2, <3>3, InRange DEF OwnershipInv,
           NoStaleCondition
      <3>13. QED
        BY <3>4, <3>5, <3>6, <3>7, <3>8, <3>9, <3>10, <3>11, <3>12 DEF OwnershipInv
    <2>2. CASE ~(arg[t] \in Readers /\ owner[arg[t]] = cur[t])
      <3>1. /\ pc[t] = "release"
            /\ op[t] \in {"remove", "close", "wait"} /\ Detaching(t)
            /\ cur[t] \in Regs /\ cur[t] <= created /\ target[cur[t]] = arg[t]
            /\ phase[cur[t]] = "Detaching" /\ cur[t] \notin attached
        BY Constants, InRange, <1>12, <2>2 DEF Release, OwnershipInv, OpShape,
           Named, DetachAlone, Detaching, AttachedReaders, NoStaleCondition,
           WorkPcs, DetachPcs, BlockPcs, AddPcs, MutationPcs, WaitPcs, Fresh,
           Unpublished
      <3>2. /\ pc'[t] = "erase"
            /\ \A u \in Threads : u # t => pc'[u] = pc[u]
            /\ \A x \in Waitables :
                  owner'[x] = IF x = arg[t] /\ owner[x] = cur[t] THEN 0 ELSE owner[x]
            /\ \A r \in Readers : owner'[r] = owner[r]
        BY Constants, <1>12, <2>2, <3>1 DEF Release, Goto, TypeOK, RegistrationType,
           LockType, CallType, PcType, WaitType, FlagType
      <3>3. UNCHANGED <<op, arg, cur, listed, created, phase, target, attached, topologyCb,
                        mutex, conditions, todo, closing>>
        BY <1>12, <2>2 DEF Release, ctxVars, lockVars, regVars, callVars, waitVars
      <3>4. OpShape' /\ WaiterShape'
        BY Constants, <1>12, <3>1, <3>2, <3>3 DEF OwnershipInv, OpShape,
           WaiterShape, WorkPcs, DetachPcs, BlockPcs, AddPcs, Bracket, MutationPcs,
           WaitPcs
      <3>5. Numbered' /\ Named'
        BY Constants, <1>12, <3>1, <3>2, <3>3, InRange DEF OwnershipInv, Numbered,
           Named, WorkPcs, MutationPcs
      <3>6. Locks'
        BY Constants, <1>12, <3>1, <3>2, <3>3, InRange DEF OwnershipInv, Locks,
           WorkPcs, MutationPcs
      <3>7. Fresh'
        <4>1. \A u \in Threads : u # t /\ Unpublished(u)' =>
                 Unpublished(u) /\ cur[u] # cur[t] /\ cur[u] \in Regs
          BY Constants, <1>12, <3>1, <3>2, <3>3, InRange DEF OwnershipInv, Fresh,
             Unpublished, WorkPcs, MutationPcs
        <4>2. ~Unpublished(t)'
          BY Constants, <1>12, <3>1, <3>2, <3>3 DEF Unpublished
        <4>3. QED
          BY Constants, <1>12, <3>1, <3>2, <3>3, <4>1, <4>2, InRange DEF
             OwnershipInv, Fresh
      <3>8. Claiming'
        BY Constants, <1>12, <3>1, <3>2, <3>3, InRange DEF OwnershipInv, Claiming,
           WorkPcs, MutationPcs
      <3>9. DetachAlone'
        <4>1. \A u \in Threads : u # t /\ Detaching(u)' => Detaching(u) /\ cur[u] \in Regs
          BY Constants, <1>12, <3>1, <3>2, <3>3, InRange DEF Detaching, WorkPcs,
             MutationPcs
        <4>2. TRUE
          BY Constants, <1>12, <3>1, <3>2, <3>3 DEF Detaching
        <4>3. QED
          BY Constants, <1>12, <3>1, <3>2, <3>3, <4>1, <4>2, InRange DEF
             OwnershipInv, DetachAlone, OpShape
      <3>10. BlockPinned'
        BY Constants, <1>12, <3>1, <3>2, <3>3, InRange DEF OwnershipInv,
           BlockPinned, WorkPcs, MutationPcs, OpShape
      <3>11. Owned' /\ AttachedReaders'
        BY Constants, <1>12, <3>1, <3>2, <3>3, InRange DEF OwnershipInv, Owned,
           AttachedReaders
      <3>12. NoStaleCondition'
        BY Constants, <1>12, <3>1, <3>2, <3>3, InRange DEF OwnershipInv,
           NoStaleCondition, AttachedReaders
      <3>13. QED
        BY <3>4, <3>5, <3>6, <3>7, <3>8, <3>9, <3>10, <3>11, <3>12 DEF OwnershipInv
    <2>3. QED
      BY <1>12, <2>1, <2>2 DEF Release
  <1>13. ASSUME TypeOK, OwnershipInv, NEW t \in Threads, DetachNative(t) PROVE
     OwnershipInv'
    <2>1. CASE attached' = attached \ {cur[t]} /\ Goto(t, "unclaim") /\ UNCHANGED phase
      <3>1. /\ pc[t] = "detach"
            /\ op[t] \in {"remove", "close", "wait"} /\ Detaching(t)
            /\ cur[t] \in Regs /\ cur[t] <= created /\ target[cur[t]] = arg[t]
            /\ arg[t] \in Readers /\ owner[arg[t]] = cur[t]
        BY Constants, InRange, <1>13, <2>1 DEF DetachNative, OwnershipInv, OpShape,
           Named, DetachAlone, Detaching, Claiming, BlockPinned, WorkPcs, DetachPcs,
           BlockPcs, AddPcs, MutationPcs, WaitPcs
      <3>2. /\ pc'[t] = "unclaim"
            /\ \A u \in Threads : u # t => pc'[u] = pc[u]
            /\ attached' = attached \ {cur[t]}
        BY Constants, <1>13, <2>1, <3>1 DEF DetachNative, Goto, TypeOK,
           RegistrationType, LockType, CallType, PcType, WaitType, FlagType
      <3>3. UNCHANGED <<op, arg, cur, listed, created, phase, target, owner, topologyCb, mutex,
                        conditions, todo, closing>>
        BY <1>13, <2>1 DEF DetachNative, ctxVars, lockVars, regVars, callVars,
           waitVars
      <3>4. OpShape' /\ WaiterShape'
        BY Constants, <1>13, <3>1, <3>2, <3>3 DEF OwnershipInv, OpShape,
           WaiterShape, WorkPcs, DetachPcs, BlockPcs, AddPcs, Bracket, MutationPcs,
           WaitPcs
      <3>5. Numbered' /\ Named'
        BY Constants, <1>13, <3>1, <3>2, <3>3, InRange DEF OwnershipInv, Numbered,
           Named, WorkPcs, MutationPcs
      <3>6. Locks'
        BY Constants, <1>13, <3>1, <3>2, <3>3, InRange DEF OwnershipInv, Locks,
           WorkPcs, MutationPcs
      <3>7. Fresh'
        <4>1. \A u \in Threads : u # t /\ Unpublished(u)' =>
                 Unpublished(u) /\ cur[u] # cur[t] /\ cur[u] \in Regs
          BY Constants, <1>13, <3>1, <3>2, <3>3, InRange DEF OwnershipInv, Fresh,
             Unpublished, WorkPcs, MutationPcs
        <4>2. ~Unpublished(t)'
          BY Constants, <1>13, <3>1, <3>2, <3>3 DEF Unpublished
        <4>3. QED
          BY Constants, <1>13, <3>1, <3>2, <3>3, <4>1, <4>2, InRange DEF
             OwnershipInv, Fresh
      <3>8. Claiming'
        BY Constants, <1>13, <3>1, <3>2, <3>3, InRange DEF OwnershipInv, Claiming,
           WorkPcs, MutationPcs
      <3>9. DetachAlone'
        <4>1. \A u \in Threads : u # t /\ Detaching(u)' => Detaching(u) /\ cur[u] \in Regs
          BY Constants, <1>13, <3>1, <3>2, <3>3, InRange DEF Detaching, WorkPcs,
             MutationPcs
        <4>2. TRUE
          BY Constants, <1>13, <3>1, <3>2, <3>3 DEF Detaching
        <4>3. QED
          BY Constants, <1>13, <3>1, <3>2, <3>3, <4>1, <4>2, InRange DEF
             OwnershipInv, DetachAlone
      <3>10. BlockPinned'
        BY Constants, <1>13, <3>1, <3>2, <3>3, InRange DEF OwnershipInv,
           BlockPinned, WorkPcs, MutationPcs
      <3>11. Owned' /\ AttachedReaders'
        BY Constants, <1>13, <3>1, <3>2, <3>3, InRange DEF OwnershipInv, Owned,
           AttachedReaders
      <3>12. NoStaleCondition'
        BY Constants, <1>13, <3>1, <3>2, <3>3, InRange DEF OwnershipInv,
           NoStaleCondition
      <3>13. QED
        BY <3>4, <3>5, <3>6, <3>7, <3>8, <3>9, <3>10, <3>11, <3>12 DEF OwnershipInv
    <2>2. CASE phase' = [phase EXCEPT ![cur[t]] = "Attached"] /\ Goto(t, "poison") /\
       UNCHANGED attached
      <3>1. /\ pc[t] = "detach"
            /\ op[t] \in {"remove", "close", "wait"} /\ Detaching(t)
            /\ cur[t] \in Regs /\ cur[t] <= created /\ target[cur[t]] = arg[t]
            /\ arg[t] \in Readers /\ owner[arg[t]] = cur[t]
            /\ \A u \in Threads : u # t /\ Detaching(u) => cur[u] # cur[t]
        BY Constants, InRange, <1>13, <2>2 DEF DetachNative, OwnershipInv, OpShape,
           Named, DetachAlone, Detaching, Claiming, BlockPinned, WorkPcs, DetachPcs,
           BlockPcs, AddPcs, MutationPcs, WaitPcs
      <3>2. /\ pc'[t] = "poison"
            /\ \A u \in Threads : u # t => pc'[u] = pc[u]
            /\ phase'[cur[t]] = "Attached"
            /\ \A n \in Regs : n # cur[t] => phase'[n] = phase[n]
        BY Constants, <1>13, <2>2, <3>1 DEF DetachNative, Goto, TypeOK,
           RegistrationType, LockType, CallType, PcType, WaitType, FlagType
      <3>3. UNCHANGED <<op, arg, cur, listed, created, target, attached, owner, topologyCb,
                        mutex, conditions, todo, closing>>
        BY <1>13, <2>2 DEF DetachNative, ctxVars, lockVars, regVars, callVars,
           waitVars
      <3>4. OpShape' /\ WaiterShape'
        BY Constants, <1>13, <3>1, <3>2, <3>3 DEF OwnershipInv, OpShape,
           WaiterShape, WorkPcs, DetachPcs, BlockPcs, AddPcs, Bracket, MutationPcs,
           WaitPcs
      <3>5. Numbered' /\ Named'
        BY Constants, <1>13, <3>1, <3>2, <3>3, InRange DEF OwnershipInv, Numbered,
           Named, WorkPcs, MutationPcs
      <3>6. Locks'
        BY Constants, <1>13, <3>1, <3>2, <3>3, InRange DEF OwnershipInv, Locks,
           WorkPcs, MutationPcs
      <3>7. Fresh'
        <4>1. \A u \in Threads : u # t /\ Unpublished(u)' =>
                 Unpublished(u) /\ cur[u] # cur[t] /\ cur[u] \in Regs
          BY Constants, <1>13, <3>1, <3>2, <3>3, InRange DEF OwnershipInv, Fresh,
             Unpublished, WorkPcs, MutationPcs
        <4>2. ~Unpublished(t)'
          BY Constants, <1>13, <3>1, <3>2, <3>3 DEF Unpublished
        <4>3. QED
          BY Constants, <1>13, <3>1, <3>2, <3>3, <4>1, <4>2, InRange DEF
             OwnershipInv, Fresh
      <3>8. Claiming'
        BY Constants, <1>13, <3>1, <3>2, <3>3, InRange DEF OwnershipInv, Claiming,
           WorkPcs, MutationPcs, Named
      <3>9. DetachAlone'
        <4>1. \A u \in Threads : u # t /\ Detaching(u)' => Detaching(u) /\ cur[u] \in Regs
          BY Constants, <1>13, <3>1, <3>2, <3>3, InRange DEF Detaching, WorkPcs,
             MutationPcs
        <4>2. ~Detaching(t)'
          BY Constants, <1>13, <3>1, <3>2, <3>3 DEF Detaching
        <4>3. QED
          BY Constants, <1>13, <3>1, <3>2, <3>3, <4>1, <4>2, InRange DEF
             OwnershipInv, DetachAlone
      <3>10. BlockPinned'
        BY Constants, <1>13, <3>1, <3>2, <3>3, InRange DEF OwnershipInv,
           BlockPinned, WorkPcs, MutationPcs, Named
      <3>11. Owned' /\ AttachedReaders'
        BY Constants, <1>13, <3>1, <3>2, <3>3, InRange DEF OwnershipInv, Owned,
           AttachedReaders
      <3>12. NoStaleCondition'
        BY Constants, <1>13, <3>1, <3>2, <3>3, InRange DEF OwnershipInv,
           NoStaleCondition
      <3>13. QED
        BY <3>4, <3>5, <3>6, <3>7, <3>8, <3>9, <3>10, <3>11, <3>12 DEF OwnershipInv
    <2>3. QED
      BY <1>13, <2>1, <2>2 DEF DetachNative
  <1>14. ASSUME TypeOK, OwnershipInv, NEW t \in Threads, Unclaim(t) PROVE OwnershipInv'
    <2>1. /\ pc[t] = "unclaim"
          /\ op[t] \in {"remove", "close", "wait"} /\ Detaching(t)
          /\ cur[t] \in Regs /\ cur[t] <= created /\ target[cur[t]] = arg[t]
          /\ arg[t] \in Readers /\ owner[arg[t]] = cur[t]
          /\ phase[cur[t]] = "Detaching" /\ cur[t] \notin attached
          /\ conditions[cur[t]] = t
          /\ \A u \in Threads : u # t /\ Detaching(u) => cur[u] # cur[t]
      BY Constants, InRange, <1>14 DEF Unclaim, OwnershipInv, OpShape, Named, Locks,
         DetachAlone, Detaching, Claiming, BlockPinned, AttachedReaders,
         NoStaleCondition, WorkPcs, DetachPcs, BlockPcs, AddPcs, MutationPcs, WaitPcs
    <2>2. /\ pc'[t] = "erase"
          /\ \A u \in Threads : u # t => pc'[u] = pc[u]
          /\ owner'[arg[t]] = 0
          /\ \A x \in Waitables : x # arg[t] => owner'[x] = owner[x]
          /\ topologyCb' = topologyCb \ {arg[t]}
      BY Constants, <1>14, <2>1 DEF Unclaim, Goto, TypeOK, RegistrationType, LockType,
         CallType, PcType, WaitType, FlagType
    <2>3. UNCHANGED <<op, arg, cur, listed, created, phase, target, attached, mutex,
                      conditions, todo, closing>>
      BY <1>14 DEF Unclaim, ctxVars, lockVars, regVars, callVars, waitVars
    <2>4. OpShape' /\ WaiterShape'
      BY Constants, <1>14, <2>1, <2>2, <2>3 DEF OwnershipInv, OpShape, WaiterShape,
         WorkPcs, DetachPcs, BlockPcs, AddPcs, Bracket, MutationPcs, WaitPcs
    <2>5. Numbered' /\ Named'
      BY Constants, <1>14, <2>1, <2>2, <2>3, InRange DEF OwnershipInv, Numbered,
         Named, WorkPcs, MutationPcs
    <2>6. Locks'
      BY Constants, <1>14, <2>1, <2>2, <2>3, InRange DEF OwnershipInv, Locks, WorkPcs,
         MutationPcs
    <2>7. Fresh'
      <3>1. \A u \in Threads : u # t /\ Unpublished(u)' =>
               Unpublished(u) /\ cur[u] # cur[t] /\ cur[u] \in Regs
        BY Constants, <1>14, <2>1, <2>2, <2>3, InRange DEF OwnershipInv, Fresh,
           Unpublished, WorkPcs, MutationPcs
      <3>2. ~Unpublished(t)'
        BY Constants, <1>14, <2>1, <2>2, <2>3 DEF Unpublished
      <3>3. QED
        BY Constants, <1>14, <2>1, <2>2, <2>3, <3>1, <3>2, InRange DEF OwnershipInv,
           Fresh
    <2>8. Claiming'
      BY Constants, <1>14, <2>1, <2>2, <2>3, InRange DEF OwnershipInv, Claiming,
         WorkPcs, MutationPcs
    <2>9. DetachAlone'
      <3>1. \A u \in Threads : u # t /\ Detaching(u)' => Detaching(u) /\ cur[u] \in Regs
        BY Constants, <1>14, <2>1, <2>2, <2>3, InRange DEF Detaching, WorkPcs,
           MutationPcs
      <3>2. TRUE
        BY Constants, <1>14, <2>1, <2>2, <2>3 DEF Detaching
      <3>3. QED
        BY Constants, <1>14, <2>1, <2>2, <2>3, <3>1, <3>2, InRange DEF OwnershipInv,
           DetachAlone
    <2>10. BlockPinned'
      BY Constants, <1>14, <2>1, <2>2, <2>3, InRange DEF OwnershipInv, BlockPinned,
         WorkPcs, MutationPcs, Locks
    <2>11. Owned' /\ AttachedReaders'
      BY Constants, <1>14, <2>1, <2>2, <2>3, InRange DEF OwnershipInv, Owned,
         AttachedReaders
    <2>12. NoStaleCondition'
      BY Constants, <1>14, <2>1, <2>2, <2>3, InRange DEF OwnershipInv,
         NoStaleCondition
    <2>13. QED
      BY <2>4, <2>5, <2>6, <2>7, <2>8, <2>9, <2>10, <2>11, <2>12 DEF OwnershipInv
  <1>15. ASSUME TypeOK, OwnershipInv, NEW t \in Threads, Erase(t) PROVE OwnershipInv'
    <2>1. /\ pc[t] = "erase"
          /\ op[t] \in {"remove", "close", "wait"} /\ Detaching(t)
          /\ cur[t] \in Regs /\ cur[t] <= created /\ target[cur[t]] = arg[t]
          /\ phase[cur[t]] = "Detaching" /\ cur[t] \notin attached
          /\ conditions[cur[t]] = t
          /\ \A u \in Threads : u # t /\ Detaching(u) => cur[u] # cur[t]
      BY Constants, InRange, <1>15 DEF Erase, OwnershipInv, OpShape, Named, Locks,
         DetachAlone, Detaching, AttachedReaders, NoStaleCondition, WorkPcs,
         DetachPcs, BlockPcs, AddPcs, MutationPcs, WaitPcs
    <2>2. /\ pc'[t] = "end_topology"
          /\ \A u \in Threads : u # t => pc'[u] = pc[u]
          /\ listed' = listed \ {cur[t]}
          /\ phase'[cur[t]] = "Detached"
          /\ \A n \in Regs : n # cur[t] => phase'[n] = phase[n]
      BY Constants, <1>15, <2>1 DEF Erase, Goto, TypeOK, RegistrationType, LockType,
         CallType, PcType, WaitType, FlagType
    <2>3. UNCHANGED <<op, arg, cur, created, target, attached, owner, topologyCb, mutex,
                      conditions, todo, closing>>
      BY <1>15 DEF Erase, ctxVars, lockVars, regVars, callVars, waitVars
    <2>4. OpShape' /\ WaiterShape'
      BY Constants, <1>15, <2>1, <2>2, <2>3 DEF OwnershipInv, OpShape, WaiterShape,
         WorkPcs, DetachPcs, BlockPcs, AddPcs, Bracket, MutationPcs, WaitPcs
    <2>5. Numbered' /\ Named'
      <3>1. Numbered'
        BY Constants, <1>15, <2>1, <2>2, <2>3, InRange DEF OwnershipInv, Numbered
      <3>2. Named'
        BY Constants, <1>15, <2>1, <2>2, <2>3, InRange DEF OwnershipInv, Named,
           WorkPcs, MutationPcs
      <3>3. QED
        BY <3>1, <3>2
    <2>6. Locks'
      BY Constants, <1>15, <2>1, <2>2, <2>3, InRange DEF OwnershipInv, Locks, WorkPcs,
         MutationPcs
    <2>7. Fresh'
      <3>1. \A u \in Threads : u # t /\ Unpublished(u)' =>
               Unpublished(u) /\ cur[u] # cur[t] /\ cur[u] \in Regs
        BY Constants, <1>15, <2>1, <2>2, <2>3, InRange DEF OwnershipInv, Fresh,
           Unpublished, WorkPcs, MutationPcs
      <3>2. ~Unpublished(t)'
        BY Constants, <1>15, <2>1, <2>2, <2>3 DEF Unpublished
      <3>3. QED
        BY Constants, <1>15, <2>1, <2>2, <2>3, <3>1, <3>2, InRange DEF OwnershipInv,
           Fresh
    <2>8. Claiming'
      BY Constants, <1>15, <2>1, <2>2, <2>3, InRange DEF OwnershipInv, Claiming,
         WorkPcs, MutationPcs
    <2>9. DetachAlone'
      <3>1. \A u \in Threads : u # t /\ Detaching(u)' => Detaching(u) /\ cur[u] \in Regs
        BY Constants, <1>15, <2>1, <2>2, <2>3, InRange DEF Detaching, WorkPcs,
           MutationPcs
      <3>2. ~Detaching(t)'
        BY Constants, <1>15, <2>1, <2>2, <2>3 DEF Detaching
      <3>3. QED
        BY Constants, <1>15, <2>1, <2>2, <2>3, <3>1, <3>2, InRange DEF OwnershipInv,
           DetachAlone
    <2>10. BlockPinned'
      BY Constants, <1>15, <2>1, <2>2, <2>3, InRange DEF OwnershipInv, BlockPinned,
         WorkPcs, MutationPcs, Locks
    <2>11. Owned' /\ AttachedReaders'
      BY Constants, <1>15, <2>1, <2>2, <2>3, InRange DEF OwnershipInv, Owned,
         AttachedReaders
    <2>12. NoStaleCondition'
      BY Constants, <1>15, <2>1, <2>2, <2>3, InRange DEF OwnershipInv,
         NoStaleCondition
    <2>13. QED
      BY <2>4, <2>5, <2>6, <2>7, <2>8, <2>9, <2>10, <2>11, <2>12 DEF OwnershipInv
  <1>16. ASSUME TypeOK, OwnershipInv, NEW t \in Threads, DetachUnlock(t) PROVE
     OwnershipInv'
    <2>1. /\ pc[t] = "detach_unlock" /\ op[t] \in {"block", "remove", "close", "wait"}
          /\ cur[t] \in Regs /\ cur[t] <= created /\ target[cur[t]] = arg[t]
          /\ conditions[cur[t]] = t
      BY Constants, InRange, <1>16 DEF DetachUnlock, AfterDetach, OwnershipInv,
         OpShape, Named, Locks, WorkPcs, DetachPcs, BlockPcs, AddPcs, MutationPcs,
         WaitPcs
    <2>2. /\ pc'[t] \in {"scan", "op_end", "notify_lock"}
          /\ pc'[t] = "scan" => op[t] = "wait"
          /\ \A u \in Threads : u # t => pc'[u] = pc[u]
          /\ \A n \in Regs : n # cur[t] => conditions'[n] = conditions[n]
      BY Constants, <1>16, <2>1 DEF DetachUnlock, AfterDetach, Goto, TypeOK,
         RegistrationType, LockType, CallType, PcType, WaitType, FlagType
    <2>3. UNCHANGED <<op, arg, cur, listed, created, phase, target, attached, owner,
                      topologyCb, mutex, todo, closing>>
      BY <1>16 DEF DetachUnlock, AfterDetach, ctxVars, lockVars, regVars, callVars,
         waitVars
    <2>4. OpShape' /\ WaiterShape'
      BY Constants, <1>16, <2>1, <2>2, <2>3 DEF OwnershipInv, OpShape, WaiterShape,
         WorkPcs, DetachPcs, BlockPcs, AddPcs, Bracket, MutationPcs, WaitPcs
    <2>5. Numbered' /\ Named'
      BY Constants, <1>16, <2>1, <2>2, <2>3, InRange DEF OwnershipInv, Numbered,
         Named, WorkPcs, MutationPcs
    <2>6. Locks'
      BY Constants, <1>16, <2>1, <2>2, <2>3, InRange DEF OwnershipInv, Locks, WorkPcs,
         MutationPcs
    <2>7. Fresh'
      <3>1. \A u \in Threads : u # t /\ Unpublished(u)' =>
               Unpublished(u) /\ cur[u] # cur[t] /\ cur[u] \in Regs
        BY Constants, <1>16, <2>1, <2>2, <2>3, InRange DEF OwnershipInv, Fresh,
           Unpublished, WorkPcs, MutationPcs
      <3>2. ~Unpublished(t)'
        BY Constants, <1>16, <2>1, <2>2, <2>3 DEF Unpublished
      <3>3. QED
        BY Constants, <1>16, <2>1, <2>2, <2>3, <3>1, <3>2, InRange DEF OwnershipInv,
           Fresh
    <2>8. Claiming'
      BY Constants, <1>16, <2>1, <2>2, <2>3, InRange DEF OwnershipInv, Claiming,
         WorkPcs, MutationPcs
    <2>9. DetachAlone'
      <3>1. \A u \in Threads : u # t /\ Detaching(u)' => Detaching(u) /\ cur[u] \in Regs
        BY Constants, <1>16, <2>1, <2>2, <2>3, InRange DEF Detaching, WorkPcs,
           MutationPcs
      <3>2. ~Detaching(t)'
        BY Constants, <1>16, <2>1, <2>2, <2>3 DEF Detaching
      <3>3. QED
        BY Constants, <1>16, <2>1, <2>2, <2>3, <3>1, <3>2, InRange DEF OwnershipInv,
           DetachAlone
    <2>10. BlockPinned'
      BY Constants, <1>16, <2>1, <2>2, <2>3, InRange DEF OwnershipInv, BlockPinned,
         WorkPcs, MutationPcs
    <2>11. Owned' /\ AttachedReaders'
      BY Constants, <1>16, <2>1, <2>2, <2>3, InRange DEF OwnershipInv, Owned,
         AttachedReaders
    <2>12. NoStaleCondition'
      BY Constants, <1>16, <2>1, <2>2, <2>3, InRange DEF OwnershipInv,
         NoStaleCondition
    <2>13. QED
      BY <2>4, <2>5, <2>6, <2>7, <2>8, <2>9, <2>10, <2>11, <2>12 DEF OwnershipInv
  <1>17. ASSUME TypeOK, OwnershipInv, NEW t \in Clients, Claim(t) PROVE OwnershipInv'
    <2>1. CASE ~CanClaim(arg[t])
      <3>1. Advance(t)
        BY Constants, <1>17, <2>1 DEF Claim, CanClaim, Goto, Advance, TypeOK,
           PcType, ctxVars, lockVars, regVars, callVars, waitVars
      <3>2. QED
        BY Constants, <1>17, <3>1, AdvanceKeepsOwnership
    <2>2. CASE CanClaim(arg[t]) /\ arg[t] \in Guards
      <3>1. /\ pc[t] = "claim"
            /\ op[t] = "add" /\ mutex = t
            /\ cur[t] \in Regs /\ cur[t] <= created /\ target[cur[t]] = arg[t]
            /\ arg[t] \in Guards /\ owner[arg[t]] = 0
            /\ Unpublished(t)
        BY Constants, InRange, <1>17, <2>2 DEF Claim, CanClaim, OwnershipInv,
           OpShape, Named, Locks, Fresh, Unpublished, Claiming, BlockPinned,
           WorkPcs, DetachPcs, BlockPcs, AddPcs, MutationPcs, WaitPcs
      <3>2. /\ pc'[t] = "insert"
            /\ \A u \in Threads : u # t => pc'[u] = pc[u]
            /\ owner'[arg[t]] = cur[t]
            /\ \A x \in Waitables : x # arg[t] => owner'[x] = owner[x]
        BY Constants, <1>17, <2>2, <3>1 DEF Claim, CanClaim, Goto, TypeOK,
           RegistrationType, LockType, CallType, PcType, WaitType, FlagType
      <3>3. UNCHANGED <<op, arg, cur, listed, created, phase, target, attached, topologyCb,
                        mutex, conditions, todo, closing>>
        BY <1>17, <2>2 DEF Claim, CanClaim, ctxVars, lockVars, regVars, callVars,
           waitVars
      <3>4. OpShape' /\ WaiterShape'
        BY Constants, <1>17, <3>1, <3>2, <3>3 DEF OwnershipInv, OpShape,
           WaiterShape, WorkPcs, DetachPcs, BlockPcs, AddPcs, Bracket, MutationPcs,
           WaitPcs
      <3>5. Numbered' /\ Named'
        BY Constants, <1>17, <3>1, <3>2, <3>3, InRange DEF OwnershipInv, Numbered,
           Named, WorkPcs, MutationPcs
      <3>6. Locks'
        BY Constants, <1>17, <3>1, <3>2, <3>3, InRange DEF OwnershipInv, Locks,
           WorkPcs, MutationPcs
      <3>7. Fresh'
        <4>1. \A u \in Threads : u # t /\ Unpublished(u)' =>
                 Unpublished(u) /\ cur[u] # cur[t] /\ cur[u] \in Regs
          BY Constants, <1>17, <3>1, <3>2, <3>3, InRange DEF OwnershipInv, Fresh,
             Unpublished, WorkPcs, MutationPcs
        <4>2. ~Unpublished(t)'
          BY Constants, <1>17, <3>1, <3>2, <3>3 DEF Unpublished
        <4>3. QED
          BY Constants, <1>17, <3>1, <3>2, <3>3, <4>1, <4>2, InRange DEF
             OwnershipInv, Fresh
      <3>8. Claiming'
        BY Constants, <1>17, <3>1, <3>2, <3>3, InRange DEF OwnershipInv, Claiming,
           WorkPcs, MutationPcs, OpShape, AddPcs, Locks
      <3>9. DetachAlone'
        <4>1. \A u \in Threads : u # t /\ Detaching(u)' => Detaching(u) /\ cur[u] \in Regs
          BY Constants, <1>17, <3>1, <3>2, <3>3, InRange DEF Detaching, WorkPcs,
             MutationPcs
        <4>2. ~Detaching(t)'
          BY Constants, <1>17, <3>1, <3>2, <3>3 DEF Detaching
        <4>3. QED
          BY Constants, <1>17, <3>1, <3>2, <3>3, <4>1, <4>2, InRange DEF
             OwnershipInv, DetachAlone
      <3>10. BlockPinned'
        BY Constants, <1>17, <3>1, <3>2, <3>3, InRange DEF OwnershipInv,
           BlockPinned, WorkPcs, MutationPcs
      <3>11. Owned' /\ AttachedReaders'
        BY Constants, <1>17, <3>1, <3>2, <3>3, InRange DEF OwnershipInv, Owned,
           AttachedReaders
      <3>12. NoStaleCondition'
        BY Constants, <1>17, <3>1, <3>2, <3>3, InRange DEF OwnershipInv,
           NoStaleCondition
      <3>13. QED
        BY <3>4, <3>5, <3>6, <3>7, <3>8, <3>9, <3>10, <3>11, <3>12 DEF OwnershipInv
    <2>3. CASE CanClaim(arg[t]) /\ arg[t] \notin Guards
      <3>1. /\ pc[t] = "claim"
            /\ op[t] = "add" /\ mutex = t
            /\ cur[t] \in Regs /\ cur[t] <= created /\ target[cur[t]] = arg[t]
            /\ arg[t] \in Readers /\ owner[arg[t]] = 0
            /\ Unpublished(t)
        BY Constants, InRange, <1>17, <2>3 DEF Claim, CanClaim, OwnershipInv,
           OpShape, Named, Locks, Fresh, Unpublished, Claiming, BlockPinned,
           WorkPcs, DetachPcs, BlockPcs, AddPcs, MutationPcs, WaitPcs
      <3>2. /\ pc'[t] \in {"attach", "claimed"}
            /\ \A u \in Threads : u # t => pc'[u] = pc[u]
        BY Constants, <1>17, <2>3, <3>1 DEF Claim, CanClaim, Goto, TypeOK,
           RegistrationType, LockType, CallType, PcType, WaitType, FlagType
      <3>3. UNCHANGED <<op, arg, cur, listed, created, phase, target, attached, owner,
                        topologyCb, mutex, conditions, todo, closing>>
        BY <1>17, <2>3 DEF Claim, CanClaim, ctxVars, lockVars, regVars, callVars,
           waitVars
      <3>4. OpShape' /\ WaiterShape'
        BY Constants, <1>17, <3>1, <3>2, <3>3 DEF OwnershipInv, OpShape,
           WaiterShape, WorkPcs, DetachPcs, BlockPcs, AddPcs, Bracket, MutationPcs,
           WaitPcs
      <3>5. Numbered' /\ Named'
        BY Constants, <1>17, <3>1, <3>2, <3>3, InRange DEF OwnershipInv, Numbered,
           Named, WorkPcs, MutationPcs
      <3>6. Locks'
        BY Constants, <1>17, <3>1, <3>2, <3>3, InRange DEF OwnershipInv, Locks,
           WorkPcs, MutationPcs
      <3>7. Fresh'
        <4>1. \A u \in Threads : u # t /\ Unpublished(u)' =>
                 Unpublished(u) /\ cur[u] # cur[t] /\ cur[u] \in Regs
          BY Constants, <1>17, <3>1, <3>2, <3>3, InRange DEF OwnershipInv, Fresh,
             Unpublished, WorkPcs, MutationPcs
        <4>2. Unpublished(t)
          BY Constants, <1>17, <3>1, <3>2, <3>3 DEF Unpublished
        <4>3. QED
          BY Constants, <1>17, <3>1, <3>2, <3>3, <4>1, <4>2, InRange DEF
             OwnershipInv, Fresh
      <3>8. Claiming'
        BY Constants, <1>17, <3>1, <3>2, <3>3, InRange DEF OwnershipInv, Claiming,
           WorkPcs, MutationPcs
      <3>9. DetachAlone'
        <4>1. \A u \in Threads : u # t /\ Detaching(u)' => Detaching(u) /\ cur[u] \in Regs
          BY Constants, <1>17, <3>1, <3>2, <3>3, InRange DEF Detaching, WorkPcs,
             MutationPcs
        <4>2. ~Detaching(t)'
          BY Constants, <1>17, <3>1, <3>2, <3>3 DEF Detaching
        <4>3. QED
          BY Constants, <1>17, <3>1, <3>2, <3>3, <4>1, <4>2, InRange DEF
             OwnershipInv, DetachAlone
      <3>10. BlockPinned'
        BY Constants, <1>17, <3>1, <3>2, <3>3, InRange DEF OwnershipInv,
           BlockPinned, WorkPcs, MutationPcs
      <3>11. Owned' /\ AttachedReaders'
        BY Constants, <1>17, <3>1, <3>2, <3>3, InRange DEF OwnershipInv, Owned,
           AttachedReaders
      <3>12. NoStaleCondition'
        BY Constants, <1>17, <3>1, <3>2, <3>3, InRange DEF OwnershipInv,
           NoStaleCondition
      <3>13. QED
        BY <3>4, <3>5, <3>6, <3>7, <3>8, <3>9, <3>10, <3>11, <3>12 DEF OwnershipInv
    <2>4. QED
      BY <1>17, <2>1, <2>2, <2>3 DEF Claim
  <1>18. ASSUME TypeOK, OwnershipInv, NEW t \in Clients, AttachReader(t) PROVE
     OwnershipInv'
    <2>1. CASE Goto(t, "end_topology") /\ UNCHANGED attached
      <3>1. Advance(t)
        BY Constants, <1>18, <2>1 DEF AttachReader, Goto, Advance, TypeOK, PcType,
           ctxVars, lockVars, regVars, callVars, waitVars
      <3>2. QED
        BY Constants, <1>18, <3>1, AdvanceKeepsOwnership
    <2>2. CASE attached' = attached \union {cur[t]} /\ Goto(t, "claimed")
      <3>1. /\ pc[t] = "attach"
            /\ op[t] = "add" /\ mutex = t
            /\ cur[t] \in Regs /\ cur[t] <= created /\ target[cur[t]] = arg[t]
            /\ arg[t] \in Readers /\ owner[arg[t]] = 0
            /\ Unpublished(t) /\ phase[cur[t]] = "Attached"
            /\ cur[t] \in 1..created
        BY Constants, InRange, <1>18, <2>2 DEF AttachReader, OwnershipInv, OpShape,
           Named, Locks, Fresh, Unpublished, Claiming, BlockPinned, WorkPcs,
           DetachPcs, BlockPcs, AddPcs, MutationPcs, WaitPcs
      <3>2. /\ pc'[t] = "claimed"
            /\ \A u \in Threads : u # t => pc'[u] = pc[u]
            /\ attached' = attached \union {cur[t]}
        BY Constants, <1>18, <2>2, <3>1 DEF AttachReader, Goto, TypeOK,
           RegistrationType, LockType, CallType, PcType, WaitType, FlagType
      <3>3. UNCHANGED <<op, arg, cur, listed, created, phase, target, owner, topologyCb, mutex,
                        conditions, todo, closing>>
        BY <1>18, <2>2 DEF AttachReader, ctxVars, lockVars, regVars, callVars,
           waitVars
      <3>4. OpShape' /\ WaiterShape'
        BY Constants, <1>18, <3>1, <3>2, <3>3 DEF OwnershipInv, OpShape,
           WaiterShape, WorkPcs, DetachPcs, BlockPcs, AddPcs, Bracket, MutationPcs,
           WaitPcs
      <3>5. Numbered' /\ Named'
        <4>1. Numbered'
          BY Constants, <1>18, <3>1, <3>2, <3>3, InRange DEF OwnershipInv, Numbered
        <4>2. Named'
          BY Constants, <1>18, <3>1, <3>2, <3>3, InRange DEF OwnershipInv, Named,
             WorkPcs, MutationPcs
        <4>3. QED
          BY <4>1, <4>2
      <3>6. Locks'
        BY Constants, <1>18, <3>1, <3>2, <3>3, InRange DEF OwnershipInv, Locks,
           WorkPcs, MutationPcs
      <3>7. Fresh'
        <4>1. \A u \in Threads : u # t /\ Unpublished(u)' =>
                 Unpublished(u) /\ cur[u] # cur[t] /\ cur[u] \in Regs
          BY Constants, <1>18, <3>1, <3>2, <3>3, InRange DEF OwnershipInv, Fresh,
             Unpublished, WorkPcs, MutationPcs
        <4>2. Unpublished(t)
          BY Constants, <1>18, <3>1, <3>2, <3>3 DEF Unpublished
        <4>3. QED
          BY Constants, <1>18, <3>1, <3>2, <3>3, <4>1, <4>2, InRange DEF
             OwnershipInv, Fresh
      <3>8. Claiming'
        BY Constants, <1>18, <3>1, <3>2, <3>3, InRange DEF OwnershipInv, Claiming,
           WorkPcs, MutationPcs
      <3>9. DetachAlone'
        <4>1. \A u \in Threads : u # t /\ Detaching(u)' => Detaching(u) /\ cur[u] \in Regs
          BY Constants, <1>18, <3>1, <3>2, <3>3, InRange DEF Detaching, WorkPcs,
             MutationPcs
        <4>2. ~Detaching(t)'
          BY Constants, <1>18, <3>1, <3>2, <3>3 DEF Detaching
        <4>3. QED
          BY Constants, <1>18, <3>1, <3>2, <3>3, <4>1, <4>2, InRange DEF
             OwnershipInv, DetachAlone
      <3>10. BlockPinned'
        BY Constants, <1>18, <3>1, <3>2, <3>3, InRange DEF OwnershipInv,
           BlockPinned, WorkPcs, MutationPcs
      <3>11. Owned' /\ AttachedReaders'
        BY Constants, <1>18, <3>1, <3>2, <3>3, InRange DEF OwnershipInv, Owned,
           AttachedReaders
      <3>12. NoStaleCondition'
        BY Constants, <1>18, <3>1, <3>2, <3>3, InRange DEF OwnershipInv,
           NoStaleCondition
      <3>13. QED
        BY <3>4, <3>5, <3>6, <3>7, <3>8, <3>9, <3>10, <3>11, <3>12 DEF OwnershipInv
    <2>3. QED
      BY <1>18, <2>1, <2>2 DEF AttachReader
  <1>19. ASSUME TypeOK, OwnershipInv, NEW t \in Clients, Claimed(t) PROVE OwnershipInv'
    <2>1. /\ pc[t] = "claimed"
          /\ op[t] = "add" /\ mutex = t
          /\ cur[t] \in Regs /\ cur[t] <= created /\ target[cur[t]] = arg[t]
          /\ arg[t] \in Readers /\ owner[arg[t]] = 0 /\ arg[t] \notin topologyCb
          /\ Unpublished(t) /\ phase[cur[t]] = "Attached"
      BY Constants, InRange, <1>19 DEF Claimed, OwnershipInv, OpShape, Named, Locks,
         Fresh, Unpublished, Claiming, BlockPinned, Owned, WorkPcs, DetachPcs,
         BlockPcs, AddPcs, MutationPcs, WaitPcs
    <2>2. /\ pc'[t] = "insert"
          /\ \A u \in Threads : u # t => pc'[u] = pc[u]
          /\ owner'[arg[t]] = cur[t]
          /\ \A x \in Waitables : x # arg[t] => owner'[x] = owner[x]
      BY Constants, <1>19, <2>1 DEF Claimed, Goto, TypeOK, RegistrationType, LockType,
         CallType, PcType, WaitType, FlagType
    <2>3. UNCHANGED <<op, arg, cur, listed, created, phase, target, attached, topologyCb,
                      mutex, conditions, todo, closing>>
      BY <1>19 DEF Claimed, ctxVars, lockVars, regVars, callVars, waitVars
    <2>4. OpShape' /\ WaiterShape'
      BY Constants, <1>19, <2>1, <2>2, <2>3 DEF OwnershipInv, OpShape, WaiterShape,
         WorkPcs, DetachPcs, BlockPcs, AddPcs, Bracket, MutationPcs, WaitPcs
    <2>5. Numbered' /\ Named'
      BY Constants, <1>19, <2>1, <2>2, <2>3, InRange DEF OwnershipInv, Numbered,
         Named, WorkPcs, MutationPcs
    <2>6. Locks'
      BY Constants, <1>19, <2>1, <2>2, <2>3, InRange DEF OwnershipInv, Locks, WorkPcs,
         MutationPcs
    <2>7. Fresh'
      <3>1. \A u \in Threads : u # t /\ Unpublished(u)' =>
               Unpublished(u) /\ cur[u] # cur[t] /\ cur[u] \in Regs
        BY Constants, <1>19, <2>1, <2>2, <2>3, InRange DEF OwnershipInv, Fresh,
           Unpublished, WorkPcs, MutationPcs
      <3>2. Unpublished(t)
        BY Constants, <1>19, <2>1, <2>2, <2>3 DEF Unpublished
      <3>3. QED
        BY Constants, <1>19, <2>1, <2>2, <2>3, <3>1, <3>2, InRange DEF OwnershipInv,
           Fresh
    <2>8. Claiming'
      BY Constants, <1>19, <2>1, <2>2, <2>3, InRange DEF OwnershipInv, Claiming,
         WorkPcs, MutationPcs, OpShape, AddPcs, Locks
    <2>9. DetachAlone'
      <3>1. \A u \in Threads : u # t /\ Detaching(u)' => Detaching(u) /\ cur[u] \in Regs
        BY Constants, <1>19, <2>1, <2>2, <2>3, InRange DEF Detaching, WorkPcs,
           MutationPcs
      <3>2. ~Detaching(t)'
        BY Constants, <1>19, <2>1, <2>2, <2>3 DEF Detaching
      <3>3. QED
        BY Constants, <1>19, <2>1, <2>2, <2>3, <3>1, <3>2, InRange DEF OwnershipInv,
           DetachAlone
    <2>10. BlockPinned'
      BY Constants, <1>19, <2>1, <2>2, <2>3, InRange DEF OwnershipInv, BlockPinned,
         WorkPcs, MutationPcs
    <2>11. Owned' /\ AttachedReaders'
      BY Constants, <1>19, <2>1, <2>2, <2>3, InRange DEF OwnershipInv, Owned,
         AttachedReaders
    <2>12. NoStaleCondition'
      BY Constants, <1>19, <2>1, <2>2, <2>3, InRange DEF OwnershipInv,
         NoStaleCondition
    <2>13. QED
      BY <2>4, <2>5, <2>6, <2>7, <2>8, <2>9, <2>10, <2>11, <2>12 DEF OwnershipInv
  <1>20. ASSUME TypeOK, OwnershipInv, NEW t \in Clients, Insert(t) PROVE OwnershipInv'
    <2>1. CASE phase[cur[t]] # "Attached"
      <3>1. /\ pc[t] = "insert"
            /\ op[t] = "add" /\ mutex = t
            /\ cur[t] \in Regs /\ cur[t] <= created /\ target[cur[t]] = arg[t]
            /\ arg[t] \in Guards /\ phase[cur[t]] # "Attached"
        BY Constants, InRange, <1>20, <2>1 DEF Insert, OwnershipInv, OpShape, Named,
           Locks, WorkPcs, DetachPcs, BlockPcs, AddPcs, MutationPcs, WaitPcs, Fresh,
           Unpublished
      <3>2. /\ pc'[t] = "end_topology"
            /\ \A u \in Threads : u # t => pc'[u] = pc[u]
            /\ \A x \in Waitables :
                  owner'[x] = IF x = arg[t] /\ owner[x] = cur[t] THEN 0 ELSE owner[x]
            /\ \A r \in Readers : owner'[r] = owner[r]
        BY Constants, <1>20, <2>1, <3>1 DEF Insert, Goto, TypeOK, RegistrationType,
           LockType, CallType, PcType, WaitType, FlagType
      <3>3. UNCHANGED <<op, arg, cur, listed, created, phase, target, attached, topologyCb,
                        mutex, conditions, todo, closing>>
        BY <1>20, <2>1 DEF Insert, ctxVars, lockVars, regVars, callVars, waitVars
      <3>4. OpShape' /\ WaiterShape'
        BY Constants, <1>20, <3>1, <3>2, <3>3 DEF OwnershipInv, OpShape,
           WaiterShape, WorkPcs, DetachPcs, BlockPcs, AddPcs, Bracket, MutationPcs,
           WaitPcs
      <3>5. Numbered' /\ Named'
        BY Constants, <1>20, <3>1, <3>2, <3>3, InRange DEF OwnershipInv, Numbered,
           Named, WorkPcs, MutationPcs
      <3>6. Locks'
        BY Constants, <1>20, <3>1, <3>2, <3>3, InRange DEF OwnershipInv, Locks,
           WorkPcs, MutationPcs
      <3>7. Fresh'
        <4>1. \A u \in Threads : u # t /\ Unpublished(u)' =>
                 Unpublished(u) /\ cur[u] # cur[t] /\ cur[u] \in Regs
          BY Constants, <1>20, <3>1, <3>2, <3>3, InRange DEF OwnershipInv, Fresh,
             Unpublished, WorkPcs, MutationPcs
        <4>2. ~Unpublished(t)'
          BY Constants, <1>20, <3>1, <3>2, <3>3 DEF Unpublished
        <4>3. QED
          BY Constants, <1>20, <3>1, <3>2, <3>3, <4>1, <4>2, InRange DEF
             OwnershipInv, Fresh
      <3>8. Claiming'
        BY Constants, <1>20, <3>1, <3>2, <3>3, InRange DEF OwnershipInv, Claiming,
           WorkPcs, MutationPcs, OpShape, AddPcs, Locks
      <3>9. DetachAlone'
        <4>1. \A u \in Threads : u # t /\ Detaching(u)' => Detaching(u) /\ cur[u] \in Regs
          BY Constants, <1>20, <3>1, <3>2, <3>3, InRange DEF Detaching, WorkPcs,
             MutationPcs
        <4>2. ~Detaching(t)'
          BY Constants, <1>20, <3>1, <3>2, <3>3 DEF Detaching
        <4>3. QED
          BY Constants, <1>20, <3>1, <3>2, <3>3, <4>1, <4>2, InRange DEF
             OwnershipInv, DetachAlone, OpShape
      <3>10. BlockPinned'
        BY Constants, <1>20, <3>1, <3>2, <3>3, InRange DEF OwnershipInv,
           BlockPinned, WorkPcs, MutationPcs, OpShape, BlockPcs
      <3>11. Owned' /\ AttachedReaders'
        BY Constants, <1>20, <3>1, <3>2, <3>3, InRange DEF OwnershipInv, Owned,
           AttachedReaders
      <3>12. NoStaleCondition'
        BY Constants, <1>20, <3>1, <3>2, <3>3, InRange DEF OwnershipInv,
           NoStaleCondition, AttachedReaders
      <3>13. QED
        BY <3>4, <3>5, <3>6, <3>7, <3>8, <3>9, <3>10, <3>11, <3>12 DEF OwnershipInv
    <2>2. CASE phase[cur[t]] = "Attached"
      <3>1. /\ pc[t] = "insert"
            /\ op[t] = "add" /\ mutex = t
            /\ cur[t] \in Regs /\ cur[t] <= created /\ target[cur[t]] = arg[t]
            /\ owner[arg[t]] = cur[t]
            /\ cur[t] \in 1..created
        BY Constants, InRange, <1>20, <2>2 DEF Insert, OwnershipInv, OpShape, Named,
           Locks, Claiming, BlockPinned, WorkPcs, DetachPcs, BlockPcs, AddPcs,
           MutationPcs, WaitPcs
      <3>2. /\ pc'[t] = "end_topology"
            /\ \A u \in Threads : u # t => pc'[u] = pc[u]
            /\ listed' = listed \union {cur[t]}
            /\ topologyCb' = topologyCb \union ({arg[t]} \intersect Readers)
        BY Constants, <1>20, <2>2, <3>1 DEF Insert, Goto, TypeOK, RegistrationType,
           LockType, CallType, PcType, WaitType, FlagType
      <3>3. UNCHANGED <<op, arg, cur, created, phase, target, attached, owner, mutex,
                        conditions, todo, closing>>
        BY <1>20, <2>2 DEF Insert, ctxVars, lockVars, regVars, callVars, waitVars
      <3>4. OpShape' /\ WaiterShape'
        BY Constants, <1>20, <3>1, <3>2, <3>3 DEF OwnershipInv, OpShape,
           WaiterShape, WorkPcs, DetachPcs, BlockPcs, AddPcs, Bracket, MutationPcs,
           WaitPcs
      <3>5. Numbered' /\ Named'
        BY Constants, <1>20, <3>1, <3>2, <3>3, InRange DEF OwnershipInv, Numbered,
           Named, WorkPcs, MutationPcs
      <3>6. Locks'
        BY Constants, <1>20, <3>1, <3>2, <3>3, InRange DEF OwnershipInv, Locks,
           WorkPcs, MutationPcs
      <3>7. Fresh'
        <4>1. \A u \in Threads : u # t /\ Unpublished(u)' =>
                 Unpublished(u) /\ cur[u] # cur[t] /\ cur[u] \in Regs
          BY Constants, <1>20, <3>1, <3>2, <3>3, InRange DEF OwnershipInv, Fresh,
             Unpublished, WorkPcs, MutationPcs
        <4>2. ~Unpublished(t)'
          BY Constants, <1>20, <3>1, <3>2, <3>3 DEF Unpublished
        <4>3. QED
          BY Constants, <1>20, <3>1, <3>2, <3>3, <4>1, <4>2, InRange DEF
             OwnershipInv, Fresh
      <3>8. Claiming'
        BY Constants, <1>20, <3>1, <3>2, <3>3, InRange DEF OwnershipInv, Claiming,
           WorkPcs, MutationPcs, OpShape, AddPcs, Locks
      <3>9. DetachAlone'
        <4>1. \A u \in Threads : u # t /\ Detaching(u)' => Detaching(u) /\ cur[u] \in Regs
          BY Constants, <1>20, <3>1, <3>2, <3>3, InRange DEF Detaching, WorkPcs,
             MutationPcs
        <4>2. ~Detaching(t)'
          BY Constants, <1>20, <3>1, <3>2, <3>3 DEF Detaching
        <4>3. QED
          BY Constants, <1>20, <3>1, <3>2, <3>3, <4>1, <4>2, InRange DEF
             OwnershipInv, DetachAlone
      <3>10. BlockPinned'
        BY Constants, <1>20, <3>1, <3>2, <3>3, InRange DEF OwnershipInv,
           BlockPinned, WorkPcs, MutationPcs
      <3>11. Owned' /\ AttachedReaders'
        BY Constants, <1>20, <3>1, <3>2, <3>3, InRange DEF OwnershipInv, Owned,
           AttachedReaders
      <3>12. NoStaleCondition'
        BY Constants, <1>20, <3>1, <3>2, <3>3, InRange DEF OwnershipInv,
           NoStaleCondition
      <3>13. QED
        BY <3>4, <3>5, <3>6, <3>7, <3>8, <3>9, <3>10, <3>11, <3>12 DEF OwnershipInv
    <2>3. QED
      BY <1>20, <2>1, <2>2 DEF Insert
  <1>21. ASSUME TypeOK, OwnershipInv, NEW t \in Clients, AddUnlock(t) PROVE OwnershipInv'
    <2>1. /\ pc[t] = "add_unlock"
          /\ op[t] = "add" /\ mutex = t
      BY Constants, InRange, <1>21 DEF AddUnlock, OwnershipInv, OpShape, Locks,
         WorkPcs, DetachPcs, BlockPcs, AddPcs, MutationPcs, WaitPcs
    <2>2. /\ pc'[t] = "op_end"
          /\ \A u \in Threads : u # t => pc'[u] = pc[u]
      BY Constants, <1>21, <2>1 DEF AddUnlock, Goto, TypeOK, RegistrationType,
         LockType, CallType, PcType, WaitType, FlagType
    <2>3. UNCHANGED <<op, arg, cur, listed, created, phase, target, attached, owner,
                      topologyCb, conditions, todo, closing>>
      BY <1>21 DEF AddUnlock, ctxVars, lockVars, regVars, callVars, waitVars
    <2>4. OpShape' /\ WaiterShape'
      BY Constants, <1>21, <2>1, <2>2, <2>3 DEF OwnershipInv, OpShape, WaiterShape,
         WorkPcs, DetachPcs, BlockPcs, AddPcs, Bracket, MutationPcs, WaitPcs
    <2>5. Numbered' /\ Named'
      BY Constants, <1>21, <2>1, <2>2, <2>3, InRange DEF OwnershipInv, Numbered,
         Named, WorkPcs, MutationPcs
    <2>6. Locks'
      BY Constants, <1>21, <2>1, <2>2, <2>3, InRange DEF OwnershipInv, Locks, WorkPcs,
         MutationPcs
    <2>7. Fresh'
      <3>1. \A u \in Threads : u # t /\ Unpublished(u)' =>
               Unpublished(u) /\ cur[u] # cur[t] /\ cur[u] \in Regs
        BY Constants, <1>21, <2>1, <2>2, <2>3, InRange DEF OwnershipInv, Fresh,
           Unpublished, WorkPcs, MutationPcs
      <3>2. ~Unpublished(t)'
        BY Constants, <1>21, <2>1, <2>2, <2>3 DEF Unpublished
      <3>3. QED
        BY Constants, <1>21, <2>1, <2>2, <2>3, <3>1, <3>2, InRange DEF OwnershipInv,
           Fresh
    <2>8. Claiming'
      BY Constants, <1>21, <2>1, <2>2, <2>3, InRange DEF OwnershipInv, Claiming,
         WorkPcs, MutationPcs
    <2>9. DetachAlone'
      <3>1. \A u \in Threads : u # t /\ Detaching(u)' => Detaching(u) /\ cur[u] \in Regs
        BY Constants, <1>21, <2>1, <2>2, <2>3, InRange DEF Detaching, WorkPcs,
           MutationPcs
      <3>2. ~Detaching(t)'
        BY Constants, <1>21, <2>1, <2>2, <2>3 DEF Detaching
      <3>3. QED
        BY Constants, <1>21, <2>1, <2>2, <2>3, <3>1, <3>2, InRange DEF OwnershipInv,
           DetachAlone
    <2>10. BlockPinned'
      BY Constants, <1>21, <2>1, <2>2, <2>3, InRange DEF OwnershipInv, BlockPinned,
         WorkPcs, MutationPcs
    <2>11. Owned' /\ AttachedReaders'
      BY Constants, <1>21, <2>1, <2>2, <2>3, InRange DEF OwnershipInv, Owned,
         AttachedReaders
    <2>12. NoStaleCondition'
      BY Constants, <1>21, <2>1, <2>2, <2>3, InRange DEF OwnershipInv,
         NoStaleCondition
    <2>13. QED
      BY <2>4, <2>5, <2>6, <2>7, <2>8, <2>9, <2>10, <2>11, <2>12 DEF OwnershipInv
  <1>22. ASSUME TypeOK, OwnershipInv, NEW t \in Clients, CloseCopy(t) PROVE OwnershipInv'
    <2>1. CASE owner[arg[t]] = 0
      <3>1. /\ pc[t] = "close_copy" /\ op[t] = "close" /\ arg[t] \in Guards
        BY Constants, InRange, <1>22, <2>1 DEF CloseCopy, OwnershipInv, OpShape,
           WorkPcs, DetachPcs, BlockPcs, AddPcs, MutationPcs, WaitPcs
      <3>2. /\ pc'[t] = "notify_lock"
            /\ \A u \in Threads : u # t => pc'[u] = pc[u] /\ cur'[u] = cur[u]
            /\ cur'[t] = 0
        BY Constants, <1>22, <2>1, <3>1 DEF CloseCopy, Goto, TypeOK,
           RegistrationType, LockType, CallType, PcType, WaitType, FlagType
      <3>3. UNCHANGED <<op, arg, listed, created, phase, target, attached, owner, topologyCb,
                        mutex, conditions, todo, closing>>
        BY <1>22, <2>1 DEF CloseCopy, ctxVars, lockVars, regVars, callVars, waitVars
      <3>4. OpShape' /\ WaiterShape'
        BY Constants, <1>22, <3>1, <3>2, <3>3 DEF OwnershipInv, OpShape,
           WaiterShape, WorkPcs, DetachPcs, BlockPcs, AddPcs, Bracket, MutationPcs,
           WaitPcs
      <3>5. Numbered' /\ Named'
        BY Constants, <1>22, <3>1, <3>2, <3>3, InRange DEF OwnershipInv, Numbered,
           Named, WorkPcs, MutationPcs
      <3>6. Locks'
        BY Constants, <1>22, <3>1, <3>2, <3>3, InRange DEF OwnershipInv, Locks,
           WorkPcs, MutationPcs
      <3>7. Fresh'
        <4>1. \A u \in Threads : u # t /\ Unpublished(u)' =>
                 Unpublished(u) /\ cur[u] # cur[t] /\ cur[u] \in Regs
          BY Constants, <1>22, <3>1, <3>2, <3>3, InRange DEF OwnershipInv, Fresh,
             Unpublished, WorkPcs, MutationPcs
        <4>2. ~Unpublished(t)'
          BY Constants, <1>22, <3>1, <3>2, <3>3 DEF Unpublished
        <4>3. QED
          BY Constants, <1>22, <3>1, <3>2, <3>3, <4>1, <4>2, InRange DEF
             OwnershipInv, Fresh
      <3>8. Claiming'
        BY Constants, <1>22, <3>1, <3>2, <3>3, InRange DEF OwnershipInv, Claiming,
           WorkPcs, MutationPcs
      <3>9. DetachAlone'
        <4>1. \A u \in Threads : u # t /\ Detaching(u)' => Detaching(u) /\ cur[u] \in Regs
          BY Constants, <1>22, <3>1, <3>2, <3>3, InRange DEF Detaching, WorkPcs,
             MutationPcs
        <4>2. ~Detaching(t)'
          BY Constants, <1>22, <3>1, <3>2, <3>3 DEF Detaching
        <4>3. QED
          BY Constants, <1>22, <3>1, <3>2, <3>3, <4>1, <4>2, InRange DEF
             OwnershipInv, DetachAlone
      <3>10. BlockPinned'
        BY Constants, <1>22, <3>1, <3>2, <3>3, InRange DEF OwnershipInv,
           BlockPinned, WorkPcs, MutationPcs
      <3>11. Owned' /\ AttachedReaders'
        BY Constants, <1>22, <3>1, <3>2, <3>3, InRange DEF OwnershipInv, Owned,
           AttachedReaders
      <3>12. NoStaleCondition'
        BY Constants, <1>22, <3>1, <3>2, <3>3, InRange DEF OwnershipInv,
           NoStaleCondition
      <3>13. QED
        BY <3>4, <3>5, <3>6, <3>7, <3>8, <3>9, <3>10, <3>11, <3>12 DEF OwnershipInv
    <2>2. CASE owner[arg[t]] # 0
      <3>1. /\ pc[t] = "close_copy" /\ op[t] = "close" /\ arg[t] \in Guards
            /\ owner[arg[t]] # 0 /\ owner[arg[t]] <= created /\ target[owner[arg[t]]] = arg[t]
            /\ \A u \in Threads : Unpublished(u) => cur[u] # owner[arg[t]]
        BY Constants, InRange, <1>22, <2>2 DEF CloseCopy, OwnershipInv, OpShape,
           Named, Fresh, Unpublished, Owned, Claiming, WorkPcs, DetachPcs, BlockPcs,
           AddPcs, MutationPcs, WaitPcs
      <3>2. /\ pc'[t] = "detach_cas"
            /\ \A u \in Threads : u # t => pc'[u] = pc[u] /\ cur'[u] = cur[u]
            /\ cur'[t] = owner[arg[t]]
        BY Constants, <1>22, <2>2, <3>1 DEF CloseCopy, Goto, TypeOK,
           RegistrationType, LockType, CallType, PcType, WaitType, FlagType
      <3>3. UNCHANGED <<op, arg, listed, created, phase, target, attached, owner, topologyCb,
                        mutex, conditions, todo, closing>>
        BY <1>22, <2>2 DEF CloseCopy, ctxVars, lockVars, regVars, callVars, waitVars
      <3>4. OpShape' /\ WaiterShape'
        BY Constants, <1>22, <3>1, <3>2, <3>3 DEF OwnershipInv, OpShape,
           WaiterShape, WorkPcs, DetachPcs, BlockPcs, AddPcs, Bracket, MutationPcs,
           WaitPcs
      <3>5. Numbered' /\ Named'
        BY Constants, <1>22, <3>1, <3>2, <3>3, InRange DEF OwnershipInv, Numbered,
           Named, WorkPcs, MutationPcs
      <3>6. Locks'
        BY Constants, <1>22, <3>1, <3>2, <3>3, InRange DEF OwnershipInv, Locks,
           WorkPcs, MutationPcs
      <3>7. Fresh'
        <4>1. \A u \in Threads : u # t /\ Unpublished(u)' =>
                 Unpublished(u) /\ cur[u] # cur[t] /\ cur[u] \in Regs
          BY Constants, <1>22, <3>1, <3>2, <3>3, InRange DEF OwnershipInv, Fresh,
             Unpublished, WorkPcs, MutationPcs
        <4>2. ~Unpublished(t)'
          BY Constants, <1>22, <3>1, <3>2, <3>3 DEF Unpublished
        <4>3. QED
          BY Constants, <1>22, <3>1, <3>2, <3>3, <4>1, <4>2, InRange DEF
             OwnershipInv, Fresh
      <3>8. Claiming'
        BY Constants, <1>22, <3>1, <3>2, <3>3, InRange DEF OwnershipInv, Claiming,
           WorkPcs, MutationPcs
      <3>9. DetachAlone'
        <4>1. \A u \in Threads : u # t /\ Detaching(u)' => Detaching(u) /\ cur[u] \in Regs
          BY Constants, <1>22, <3>1, <3>2, <3>3, InRange DEF Detaching, WorkPcs,
             MutationPcs
        <4>2. ~Detaching(t)'
          BY Constants, <1>22, <3>1, <3>2, <3>3 DEF Detaching
        <4>3. QED
          BY Constants, <1>22, <3>1, <3>2, <3>3, <4>1, <4>2, InRange DEF
             OwnershipInv, DetachAlone
      <3>10. BlockPinned'
        BY Constants, <1>22, <3>1, <3>2, <3>3, InRange DEF OwnershipInv,
           BlockPinned, WorkPcs, MutationPcs
      <3>11. Owned' /\ AttachedReaders'
        BY Constants, <1>22, <3>1, <3>2, <3>3, InRange DEF OwnershipInv, Owned,
           AttachedReaders
      <3>12. NoStaleCondition'
        BY Constants, <1>22, <3>1, <3>2, <3>3, InRange DEF OwnershipInv,
           NoStaleCondition
      <3>13. QED
        BY <3>4, <3>5, <3>6, <3>7, <3>8, <3>9, <3>10, <3>11, <3>12 DEF OwnershipInv
    <2>3. QED
      BY <1>22, <2>1, <2>2 DEF CloseCopy
  <1>23. ASSUME TypeOK, OwnershipInv, NEW t \in Clients, BlockCopy(t) PROVE OwnershipInv'
    <2>1. CASE arg[t] \notin topologyCb
      <3>1. QuietStep(t)
        BY Constants, <1>23, <2>1 DEF BlockCopy, Goto, QuietStep, Away, TypeOK,
           CallType, PcType, OwnershipInv, OpShape, Pcs, CallPcs, WorkPcs,
           DetachPcs, BlockPcs, AddPcs, Bracket, MutationPcs, WaitPcs, ctxVars,
           lockVars, regVars, callVars, waitVars
      <3>2. QED
        BY Constants, <1>23, <3>1, QuietKeepsOwnership
    <2>2. CASE arg[t] \in topologyCb
      <3>1. /\ pc[t] = "block_copy" /\ op[t] = "block" /\ arg[t] \in Readers
            /\ owner[arg[t]] # 0 /\ owner[arg[t]] <= created /\ target[owner[arg[t]]] = arg[t]
            /\ \A u \in Threads : Unpublished(u) => cur[u] # owner[arg[t]]
        BY Constants, InRange, <1>23, <2>2 DEF BlockCopy, OwnershipInv, OpShape,
           Named, Fresh, Unpublished, Owned, Claiming, WorkPcs, DetachPcs, BlockPcs,
           AddPcs, MutationPcs, WaitPcs
      <3>2. /\ pc'[t] = "block_lock"
            /\ \A u \in Threads : u # t => pc'[u] = pc[u] /\ cur'[u] = cur[u]
            /\ cur'[t] = owner[arg[t]]
        BY Constants, <1>23, <2>2, <3>1 DEF BlockCopy, Goto, TypeOK,
           RegistrationType, LockType, CallType, PcType, WaitType, FlagType
      <3>3. UNCHANGED <<op, arg, listed, created, phase, target, attached, owner, topologyCb,
                        mutex, conditions, todo, closing>>
        BY <1>23, <2>2 DEF BlockCopy, ctxVars, lockVars, regVars, callVars, waitVars
      <3>4. OpShape' /\ WaiterShape'
        BY Constants, <1>23, <3>1, <3>2, <3>3 DEF OwnershipInv, OpShape,
           WaiterShape, WorkPcs, DetachPcs, BlockPcs, AddPcs, Bracket, MutationPcs,
           WaitPcs
      <3>5. Numbered' /\ Named'
        BY Constants, <1>23, <3>1, <3>2, <3>3, InRange DEF OwnershipInv, Numbered,
           Named, WorkPcs, MutationPcs
      <3>6. Locks'
        BY Constants, <1>23, <3>1, <3>2, <3>3, InRange DEF OwnershipInv, Locks,
           WorkPcs, MutationPcs
      <3>7. Fresh'
        <4>1. \A u \in Threads : u # t /\ Unpublished(u)' =>
                 Unpublished(u) /\ cur[u] # cur[t] /\ cur[u] \in Regs
          BY Constants, <1>23, <3>1, <3>2, <3>3, InRange DEF OwnershipInv, Fresh,
             Unpublished, WorkPcs, MutationPcs
        <4>2. ~Unpublished(t)'
          BY Constants, <1>23, <3>1, <3>2, <3>3 DEF Unpublished
        <4>3. QED
          BY Constants, <1>23, <3>1, <3>2, <3>3, <4>1, <4>2, InRange DEF
             OwnershipInv, Fresh
      <3>8. Claiming'
        BY Constants, <1>23, <3>1, <3>2, <3>3, InRange DEF OwnershipInv, Claiming,
           WorkPcs, MutationPcs
      <3>9. DetachAlone'
        <4>1. \A u \in Threads : u # t /\ Detaching(u)' => Detaching(u) /\ cur[u] \in Regs
          BY Constants, <1>23, <3>1, <3>2, <3>3, InRange DEF Detaching, WorkPcs,
             MutationPcs
        <4>2. ~Detaching(t)'
          BY Constants, <1>23, <3>1, <3>2, <3>3 DEF Detaching
        <4>3. QED
          BY Constants, <1>23, <3>1, <3>2, <3>3, <4>1, <4>2, InRange DEF
             OwnershipInv, DetachAlone
      <3>10. BlockPinned'
        BY Constants, <1>23, <3>1, <3>2, <3>3, InRange DEF OwnershipInv,
           BlockPinned, WorkPcs, MutationPcs
      <3>11. Owned' /\ AttachedReaders'
        BY Constants, <1>23, <3>1, <3>2, <3>3, InRange DEF OwnershipInv, Owned,
           AttachedReaders
      <3>12. NoStaleCondition'
        BY Constants, <1>23, <3>1, <3>2, <3>3, InRange DEF OwnershipInv,
           NoStaleCondition
      <3>13. QED
        BY <3>4, <3>5, <3>6, <3>7, <3>8, <3>9, <3>10, <3>11, <3>12 DEF OwnershipInv
    <2>3. QED
      BY <1>23, <2>1, <2>2 DEF BlockCopy
  <1>24. ASSUME TypeOK, OwnershipInv, NEW t \in Clients, BlockLock(t) PROVE OwnershipInv'
    <2>1. CASE phase[cur[t]] # "Attached"
      <3>1. QuietStep(t)
        BY Constants, <1>24, <2>1 DEF BlockLock, Goto, QuietStep, Away, TypeOK,
           CallType, PcType, OwnershipInv, OpShape, Pcs, CallPcs, WorkPcs,
           DetachPcs, BlockPcs, AddPcs, Bracket, MutationPcs, WaitPcs, ctxVars,
           lockVars, regVars, callVars, waitVars
      <3>2. QED
        BY Constants, <1>24, <3>1, QuietKeepsOwnership
    <2>2. CASE phase[cur[t]] = "Attached"
      <3>1. /\ pc[t] = "block_lock" /\ op[t] = "block" /\ arg[t] \in Readers
            /\ cur[t] \in Regs /\ cur[t] <= created /\ target[cur[t]] = arg[t]
            /\ conditions[cur[t]] = NoThread /\ owner[arg[t]] = cur[t] /\ phase[cur[t]] = "Attached"
        BY Constants, InRange, <1>24, <2>2 DEF BlockLock, OwnershipInv, OpShape,
           Named, Claiming, BlockPinned, WorkPcs, DetachPcs, BlockPcs, AddPcs,
           MutationPcs, WaitPcs
      <3>2. /\ pc'[t] = "publish"
            /\ \A u \in Threads : u # t => pc'[u] = pc[u]
            /\ conditions'[cur[t]] = t
            /\ \A n \in Regs : n # cur[t] => conditions'[n] = conditions[n]
        BY Constants, <1>24, <2>2, <3>1 DEF BlockLock, Goto, TypeOK,
           RegistrationType, LockType, CallType, PcType, WaitType, FlagType
      <3>3. UNCHANGED <<op, arg, cur, listed, created, phase, target, attached, owner,
                        topologyCb, mutex, todo, closing>>
        BY <1>24, <2>2 DEF BlockLock, ctxVars, lockVars, regVars, callVars, waitVars
      <3>4. OpShape' /\ WaiterShape'
        BY Constants, <1>24, <3>1, <3>2, <3>3 DEF OwnershipInv, OpShape,
           WaiterShape, WorkPcs, DetachPcs, BlockPcs, AddPcs, Bracket, MutationPcs,
           WaitPcs
      <3>5. Numbered' /\ Named'
        BY Constants, <1>24, <3>1, <3>2, <3>3, InRange DEF OwnershipInv, Numbered,
           Named, WorkPcs, MutationPcs
      <3>6. Locks'
        BY Constants, <1>24, <3>1, <3>2, <3>3, InRange DEF OwnershipInv, Locks,
           WorkPcs, MutationPcs
      <3>7. Fresh'
        <4>1. \A u \in Threads : u # t /\ Unpublished(u)' =>
                 Unpublished(u) /\ cur[u] # cur[t] /\ cur[u] \in Regs
          BY Constants, <1>24, <3>1, <3>2, <3>3, InRange DEF OwnershipInv, Fresh,
             Unpublished, WorkPcs, MutationPcs
        <4>2. ~Unpublished(t)'
          BY Constants, <1>24, <3>1, <3>2, <3>3 DEF Unpublished
        <4>3. QED
          BY Constants, <1>24, <3>1, <3>2, <3>3, <4>1, <4>2, InRange DEF
             OwnershipInv, Fresh
      <3>8. Claiming'
        BY Constants, <1>24, <3>1, <3>2, <3>3, InRange DEF OwnershipInv, Claiming,
           WorkPcs, MutationPcs
      <3>9. DetachAlone'
        <4>1. \A u \in Threads : u # t /\ Detaching(u)' => Detaching(u) /\ cur[u] \in Regs
          BY Constants, <1>24, <3>1, <3>2, <3>3, InRange DEF Detaching, WorkPcs,
             MutationPcs
        <4>2. ~Detaching(t)'
          BY Constants, <1>24, <3>1, <3>2, <3>3 DEF Detaching
        <4>3. QED
          BY Constants, <1>24, <3>1, <3>2, <3>3, <4>1, <4>2, InRange DEF
             OwnershipInv, DetachAlone
      <3>10. BlockPinned'
        BY Constants, <1>24, <3>1, <3>2, <3>3, InRange DEF OwnershipInv,
           BlockPinned, WorkPcs, MutationPcs
      <3>11. Owned' /\ AttachedReaders'
        BY Constants, <1>24, <3>1, <3>2, <3>3, InRange DEF OwnershipInv, Owned,
           AttachedReaders
      <3>12. NoStaleCondition'
        BY Constants, <1>24, <3>1, <3>2, <3>3, InRange DEF OwnershipInv,
           NoStaleCondition
      <3>13. QED
        BY <3>4, <3>5, <3>6, <3>7, <3>8, <3>9, <3>10, <3>11, <3>12 DEF OwnershipInv
    <2>3. QED
      BY <1>24, <2>1, <2>2 DEF BlockLock
  <1>25. ASSUME TypeOK, OwnershipInv, NEW t \in Clients, ReconcileNative(t) PROVE
     OwnershipInv'
    <2>1. CASE Goto(t, "poison") /\ UNCHANGED attached
      <3>1. Advance(t)
        BY Constants, <1>25, <2>1 DEF ReconcileNative, Goto, Advance, TypeOK,
           PcType, ctxVars, lockVars, regVars, callVars, waitVars
      <3>2. QED
        BY Constants, <1>25, <3>1, AdvanceKeepsOwnership
    <2>2. CASE Goto(t, "end_topology") /\ attached' = IF pc[t] = "rec_attach" THEN
       attached \union {cur[t]} ELSE attached \ {cur[t]}
      <3>1. /\ pc[t] \in {"rec_attach", "rec_detach"} /\ op[t] = "block" /\ arg[t] \in Readers
            /\ cur[t] \in Regs /\ cur[t] <= created /\ target[cur[t]] = arg[t]
            /\ owner[arg[t]] = cur[t] /\ phase[cur[t]] \in {"Attached", "Detaching"}
            /\ conditions[cur[t]] = t
        BY Constants, InRange, <1>25, <2>2 DEF ReconcileNative, OwnershipInv,
           OpShape, Named, Locks, DetachAlone, Detaching, Claiming, BlockPinned,
           WorkPcs, DetachPcs, BlockPcs, AddPcs, MutationPcs, WaitPcs
      <3>2. /\ pc'[t] = "end_topology"
            /\ \A u \in Threads : u # t => pc'[u] = pc[u]
            /\ attached \ {cur[t]} \subseteq attached' /\ attached' \subseteq attached \union {cur[t]}
        BY Constants, <1>25, <2>2, <3>1 DEF ReconcileNative, Goto, TypeOK,
           RegistrationType, LockType, CallType, PcType, WaitType, FlagType
      <3>3. UNCHANGED <<op, arg, cur, listed, created, phase, target, owner, topologyCb, mutex,
                        conditions, todo, closing>>
        BY <1>25, <2>2 DEF ReconcileNative, ctxVars, lockVars, regVars, callVars,
           waitVars
      <3>4. OpShape' /\ WaiterShape'
        BY Constants, <1>25, <3>1, <3>2, <3>3 DEF OwnershipInv, OpShape,
           WaiterShape, WorkPcs, DetachPcs, BlockPcs, AddPcs, Bracket, MutationPcs,
           WaitPcs
      <3>5. Numbered' /\ Named'
        BY Constants, <1>25, <3>1, <3>2, <3>3, InRange DEF OwnershipInv, Numbered,
           Named, WorkPcs, MutationPcs
      <3>6. Locks'
        BY Constants, <1>25, <3>1, <3>2, <3>3, InRange DEF OwnershipInv, Locks,
           WorkPcs, MutationPcs
      <3>7. Fresh'
        <4>1. \A u \in Threads : u # t /\ Unpublished(u)' =>
                 Unpublished(u) /\ cur[u] # cur[t] /\ cur[u] \in Regs
          BY Constants, <1>25, <3>1, <3>2, <3>3, InRange DEF OwnershipInv, Fresh,
             Unpublished, WorkPcs, MutationPcs
        <4>2. ~Unpublished(t)'
          BY Constants, <1>25, <3>1, <3>2, <3>3 DEF Unpublished
        <4>3. QED
          BY Constants, <1>25, <3>1, <3>2, <3>3, <4>1, <4>2, InRange DEF
             OwnershipInv, Fresh
      <3>8. Claiming'
        BY Constants, <1>25, <3>1, <3>2, <3>3, InRange DEF OwnershipInv, Claiming,
           WorkPcs, MutationPcs
      <3>9. DetachAlone'
        <4>1. \A u \in Threads : u # t /\ Detaching(u)' => Detaching(u) /\ cur[u] \in Regs
          BY Constants, <1>25, <3>1, <3>2, <3>3, InRange DEF Detaching, WorkPcs,
             MutationPcs
        <4>2. ~Detaching(t)'
          BY Constants, <1>25, <3>1, <3>2, <3>3 DEF Detaching
        <4>3. QED
          BY Constants, <1>25, <3>1, <3>2, <3>3, <4>1, <4>2, InRange DEF
             OwnershipInv, DetachAlone, Detaching, Locks, MutationPcs
      <3>10. BlockPinned'
        BY Constants, <1>25, <3>1, <3>2, <3>3, InRange DEF OwnershipInv,
           BlockPinned, WorkPcs, MutationPcs
      <3>11. Owned' /\ AttachedReaders'
        BY Constants, <1>25, <3>1, <3>2, <3>3, InRange DEF OwnershipInv, Owned,
           AttachedReaders
      <3>12. NoStaleCondition'
        BY Constants, <1>25, <3>1, <3>2, <3>3, InRange DEF OwnershipInv,
           NoStaleCondition
      <3>13. QED
        BY <3>4, <3>5, <3>6, <3>7, <3>8, <3>9, <3>10, <3>11, <3>12 DEF OwnershipInv
    <2>3. QED
      BY <1>25, <2>1, <2>2 DEF ReconcileNative
  <1>26. ASSUME TypeOK, OwnershipInv, NEW w \in Waiters, Snapshot(w) PROVE OwnershipInv'
    <2>1. /\ pc[w] = "snapshot" /\ op[w] = "wait"
          /\ \A u \in Threads : Unpublished(u) => cur[u] \notin listed
      BY Constants, InRange, <1>26 DEF Snapshot, OwnershipInv, OpShape, Fresh,
         Unpublished, WorkPcs, DetachPcs, BlockPcs, AddPcs, MutationPcs, WaitPcs
    <2>2. /\ pc'[w] = "scan"
          /\ \A u \in Threads : u # w => pc'[u] = pc[u]
          /\ \A v \in Waiters : todo'[v] \subseteq todo[v] \union listed
      BY Constants, <1>26, <2>1 DEF Snapshot, Goto, TypeOK, RegistrationType,
         LockType, CallType, PcType, WaitType, FlagType
    <2>3. UNCHANGED <<op, arg, cur, listed, created, phase, target, attached, owner,
                      topologyCb, mutex, conditions, closing>>
      BY <1>26 DEF Snapshot, ctxVars, lockVars, regVars, callVars, waitVars
    <2>4. OpShape' /\ WaiterShape'
      BY Constants, <1>26, <2>1, <2>2, <2>3 DEF OwnershipInv, OpShape, WaiterShape,
         WorkPcs, DetachPcs, BlockPcs, AddPcs, Bracket, MutationPcs, WaitPcs
    <2>5. Numbered' /\ Named'
      BY Constants, <1>26, <2>1, <2>2, <2>3, InRange DEF OwnershipInv, Numbered,
         Named, WorkPcs, MutationPcs
    <2>6. Locks'
      BY Constants, <1>26, <2>1, <2>2, <2>3, InRange DEF OwnershipInv, Locks, WorkPcs,
         MutationPcs
    <2>7. Fresh'
      <3>1. \A u \in Threads : u # w /\ Unpublished(u)' =>
               Unpublished(u) /\ cur[u] # cur[w] /\ cur[u] \in Regs
        BY Constants, <1>26, <2>1, <2>2, <2>3, InRange DEF OwnershipInv, Fresh,
           Unpublished, WorkPcs, MutationPcs
      <3>2. ~Unpublished(w)'
        BY Constants, <1>26, <2>1, <2>2, <2>3 DEF Unpublished
      <3>3. QED
        BY Constants, <1>26, <2>1, <2>2, <2>3, <3>1, <3>2, InRange DEF OwnershipInv,
           Fresh
    <2>8. Claiming'
      BY Constants, <1>26, <2>1, <2>2, <2>3, InRange DEF OwnershipInv, Claiming,
         WorkPcs, MutationPcs
    <2>9. DetachAlone'
      <3>1. \A u \in Threads : u # w /\ Detaching(u)' => Detaching(u) /\ cur[u] \in Regs
        BY Constants, <1>26, <2>1, <2>2, <2>3, InRange DEF Detaching, WorkPcs,
           MutationPcs
      <3>2. ~Detaching(w)'
        BY Constants, <1>26, <2>1, <2>2, <2>3 DEF Detaching
      <3>3. QED
        BY Constants, <1>26, <2>1, <2>2, <2>3, <3>1, <3>2, InRange DEF OwnershipInv,
           DetachAlone
    <2>10. BlockPinned'
      BY Constants, <1>26, <2>1, <2>2, <2>3, InRange DEF OwnershipInv, BlockPinned,
         WorkPcs, MutationPcs
    <2>11. Owned' /\ AttachedReaders'
      BY Constants, <1>26, <2>1, <2>2, <2>3, InRange DEF OwnershipInv, Owned,
         AttachedReaders
    <2>12. NoStaleCondition'
      BY Constants, <1>26, <2>1, <2>2, <2>3, InRange DEF OwnershipInv,
         NoStaleCondition
    <2>13. QED
      BY <2>4, <2>5, <2>6, <2>7, <2>8, <2>9, <2>10, <2>11, <2>12 DEF OwnershipInv
  <1>27. ASSUME TypeOK, OwnershipInv, NEW t \in Clients, NEW g \in Guards, CloseGuard(t,
     g) PROVE OwnershipInv'
    <2>1. /\ pc[t] = "idle" /\ op[t] = "none"
      BY Constants, InRange, <1>27 DEF CloseGuard, OwnershipInv, OpShape, WorkPcs,
         DetachPcs, BlockPcs, AddPcs, MutationPcs, WaitPcs
    <2>2. /\ pc'[t] = "close_copy" /\ op'[t] = "close"
          /\ arg'[t] = g
          /\ \A u \in Threads : u # t => pc'[u] = pc[u] /\ op'[u] = op[u] /\ arg'[u] = arg[u]
          /\ \A r \in Readers : closing'[r] = closing[r]
      BY Constants, <1>27, <2>1 DEF CloseGuard, Goto, TypeOK, RegistrationType,
         LockType, CallType, PcType, WaitType, FlagType
    <2>3. UNCHANGED <<cur, listed, created, phase, target, attached, owner, topologyCb, mutex,
                      conditions, todo>>
      BY <1>27 DEF CloseGuard, ctxVars, lockVars, regVars, callVars, waitVars
    <2>4. OpShape' /\ WaiterShape'
      BY Constants, <1>27, <2>1, <2>2, <2>3 DEF OwnershipInv, OpShape, WaiterShape,
         WorkPcs, DetachPcs, BlockPcs, AddPcs, Bracket, MutationPcs, WaitPcs
    <2>5. Numbered' /\ Named'
      BY Constants, <1>27, <2>1, <2>2, <2>3, InRange DEF OwnershipInv, Numbered,
         Named, WorkPcs, MutationPcs
    <2>6. Locks'
      BY Constants, <1>27, <2>1, <2>2, <2>3, InRange DEF OwnershipInv, Locks, WorkPcs,
         MutationPcs
    <2>7. Fresh'
      <3>1. \A u \in Threads : u # t /\ Unpublished(u)' =>
               Unpublished(u) /\ cur[u] # cur[t] /\ cur[u] \in Regs
        BY Constants, <1>27, <2>1, <2>2, <2>3, InRange DEF OwnershipInv, Fresh,
           Unpublished, WorkPcs, MutationPcs
      <3>2. ~Unpublished(t)'
        BY Constants, <1>27, <2>1, <2>2, <2>3 DEF Unpublished
      <3>3. QED
        BY Constants, <1>27, <2>1, <2>2, <2>3, <3>1, <3>2, InRange DEF OwnershipInv,
           Fresh
    <2>8. Claiming'
      BY Constants, <1>27, <2>1, <2>2, <2>3, InRange DEF OwnershipInv, Claiming,
         WorkPcs, MutationPcs
    <2>9. DetachAlone'
      <3>1. \A u \in Threads : u # t /\ Detaching(u)' => Detaching(u) /\ cur[u] \in Regs
        BY Constants, <1>27, <2>1, <2>2, <2>3, InRange DEF Detaching, WorkPcs,
           MutationPcs
      <3>2. ~Detaching(t)'
        BY Constants, <1>27, <2>1, <2>2, <2>3 DEF Detaching
      <3>3. QED
        BY Constants, <1>27, <2>1, <2>2, <2>3, <3>1, <3>2, InRange DEF OwnershipInv,
           DetachAlone
    <2>10. BlockPinned'
      BY Constants, <1>27, <2>1, <2>2, <2>3, InRange DEF OwnershipInv, BlockPinned,
         WorkPcs, MutationPcs
    <2>11. Owned' /\ AttachedReaders'
      BY Constants, <1>27, <2>1, <2>2, <2>3, InRange DEF OwnershipInv, Owned,
         AttachedReaders
    <2>12. NoStaleCondition'
      BY Constants, <1>27, <2>1, <2>2, <2>3, InRange DEF OwnershipInv,
         NoStaleCondition
    <2>13. QED
      BY <2>4, <2>5, <2>6, <2>7, <2>8, <2>9, <2>10, <2>11, <2>12 DEF OwnershipInv
  <1>28. ASSUME TypeOK, OwnershipInv, NEW t \in Clients, NEW x \in Waitables, Add(t, x)
     PROVE OwnershipInv'
    <2>1. CASE shutdown
      <3>1. QuietStep(t)
        BY Constants, <1>28, <2>1 DEF Add, Begin, QuietStep, Away, TypeOK, CallType,
           PcType, OwnershipInv, OpShape, Pcs, CallPcs, WorkPcs, DetachPcs,
           BlockPcs, AddPcs, Bracket, MutationPcs, WaitPcs, ctxVars, lockVars,
           regVars, callVars, waitVars
      <3>2. QED
        BY Constants, <1>28, <3>1, QuietKeepsOwnership
    <2>2. CASE ~shutdown
      <3>1. /\ pc[t] = "idle" /\ op[t] = "none"
        BY Constants, InRange, <1>28, <2>2 DEF Add, Begin, OwnershipInv, OpShape,
           WorkPcs, DetachPcs, BlockPcs, AddPcs, MutationPcs, WaitPcs
      <3>2. /\ pc'[t] = "add_lock" /\ op'[t] = "add"
            /\ arg'[t] = x
            /\ \A u \in Threads : u # t => pc'[u] = pc[u] /\ op'[u] = op[u] /\ arg'[u] = arg[u]
        BY Constants, <1>28, <2>2, <3>1 DEF Add, Begin, TypeOK, RegistrationType,
           LockType, CallType, PcType, WaitType, FlagType
      <3>3. UNCHANGED <<cur, listed, created, phase, target, attached, owner, topologyCb,
                        mutex, conditions, todo, closing>>
        BY <1>28, <2>2 DEF Add, Begin, ctxVars, lockVars, regVars, callVars,
           waitVars
      <3>4. OpShape' /\ WaiterShape'
        BY Constants, <1>28, <3>1, <3>2, <3>3 DEF OwnershipInv, OpShape,
           WaiterShape, WorkPcs, DetachPcs, BlockPcs, AddPcs, Bracket, MutationPcs,
           WaitPcs
      <3>5. Numbered' /\ Named'
        BY Constants, <1>28, <3>1, <3>2, <3>3, InRange DEF OwnershipInv, Numbered,
           Named, WorkPcs, MutationPcs
      <3>6. Locks'
        BY Constants, <1>28, <3>1, <3>2, <3>3, InRange DEF OwnershipInv, Locks,
           WorkPcs, MutationPcs
      <3>7. Fresh'
        <4>1. \A u \in Threads : u # t /\ Unpublished(u)' =>
                 Unpublished(u) /\ cur[u] # cur[t] /\ cur[u] \in Regs
          BY Constants, <1>28, <3>1, <3>2, <3>3, InRange DEF OwnershipInv, Fresh,
             Unpublished, WorkPcs, MutationPcs
        <4>2. ~Unpublished(t)'
          BY Constants, <1>28, <3>1, <3>2, <3>3 DEF Unpublished
        <4>3. QED
          BY Constants, <1>28, <3>1, <3>2, <3>3, <4>1, <4>2, InRange DEF
             OwnershipInv, Fresh
      <3>8. Claiming'
        BY Constants, <1>28, <3>1, <3>2, <3>3, InRange DEF OwnershipInv, Claiming,
           WorkPcs, MutationPcs
      <3>9. DetachAlone'
        <4>1. \A u \in Threads : u # t /\ Detaching(u)' => Detaching(u) /\ cur[u] \in Regs
          BY Constants, <1>28, <3>1, <3>2, <3>3, InRange DEF Detaching, WorkPcs,
             MutationPcs
        <4>2. ~Detaching(t)'
          BY Constants, <1>28, <3>1, <3>2, <3>3 DEF Detaching
        <4>3. QED
          BY Constants, <1>28, <3>1, <3>2, <3>3, <4>1, <4>2, InRange DEF
             OwnershipInv, DetachAlone
      <3>10. BlockPinned'
        BY Constants, <1>28, <3>1, <3>2, <3>3, InRange DEF OwnershipInv,
           BlockPinned, WorkPcs, MutationPcs
      <3>11. Owned' /\ AttachedReaders'
        BY Constants, <1>28, <3>1, <3>2, <3>3, InRange DEF OwnershipInv, Owned,
           AttachedReaders
      <3>12. NoStaleCondition'
        BY Constants, <1>28, <3>1, <3>2, <3>3, InRange DEF OwnershipInv,
           NoStaleCondition
      <3>13. QED
        BY <3>4, <3>5, <3>6, <3>7, <3>8, <3>9, <3>10, <3>11, <3>12 DEF OwnershipInv
    <2>3. QED
      BY <1>28, <2>1, <2>2 DEF Add
  <1>29. ASSUME TypeOK, OwnershipInv, NEW t \in Clients, NEW n \in Regs, Remove(t, n)
     PROVE OwnershipInv'
    <2>1. CASE shutdown
      <3>1. /\ pc[t] = "idle" /\ op[t] = "none"
            /\ n <= created /\ n # 0
            /\ \A u \in Threads : Unpublished(u) => cur[u] # n
        BY Constants, InRange, <1>29, <2>1 DEF Remove, Begin, OwnershipInv, OpShape,
           Numbered, Fresh
      <3>2. /\ pc'[t] = "idle" /\ op'[t] = "none"
            /\ cur'[t] = n
            /\ \A u \in Threads : u # t => pc'[u] = pc[u] /\ op'[u] = op[u] /\ arg'[u] = arg[u] /\ cur'[u] = cur[u]
        BY Constants, <1>29, <2>1, <3>1 DEF Remove, Begin, TypeOK, RegistrationType,
           LockType, CallType, PcType, WaitType, FlagType
      <3>3. UNCHANGED <<listed, created, phase, target, attached, owner, topologyCb, mutex,
                        conditions, todo, closing>>
        BY <1>29, <2>1 DEF Remove, Begin, ctxVars, lockVars, regVars, callVars,
           waitVars
      <3>4. OpShape' /\ WaiterShape'
        BY Constants, <1>29, <3>1, <3>2, <3>3 DEF OwnershipInv, OpShape,
           WaiterShape, WorkPcs, DetachPcs, BlockPcs, AddPcs, Bracket, MutationPcs,
           WaitPcs
      <3>5. Numbered' /\ Named'
        BY Constants, <1>29, <3>1, <3>2, <3>3, InRange DEF OwnershipInv, Numbered,
           Named, WorkPcs, MutationPcs
      <3>6. Locks'
        BY Constants, <1>29, <3>1, <3>2, <3>3, InRange DEF OwnershipInv, Locks,
           WorkPcs, MutationPcs
      <3>7. Fresh'
        <4>1. \A u \in Threads : u # t /\ Unpublished(u)' =>
                 Unpublished(u) /\ cur[u] # cur[t] /\ cur[u] \in Regs
          BY Constants, <1>29, <3>1, <3>2, <3>3, InRange DEF OwnershipInv, Fresh,
             Unpublished, WorkPcs, MutationPcs
        <4>2. ~Unpublished(t)'
          BY Constants, <1>29, <3>1, <3>2, <3>3 DEF Unpublished
        <4>3. QED
          BY Constants, <1>29, <3>1, <3>2, <3>3, <4>1, <4>2, InRange DEF
             OwnershipInv, Fresh
      <3>8. Claiming'
        BY Constants, <1>29, <3>1, <3>2, <3>3, InRange DEF OwnershipInv, Claiming,
           WorkPcs, MutationPcs
      <3>9. DetachAlone'
        <4>1. \A u \in Threads : u # t /\ Detaching(u)' => Detaching(u) /\ cur[u] \in Regs
          BY Constants, <1>29, <3>1, <3>2, <3>3, InRange DEF Detaching, WorkPcs,
             MutationPcs
        <4>2. ~Detaching(t)'
          BY Constants, <1>29, <3>1, <3>2, <3>3 DEF Detaching
        <4>3. QED
          BY Constants, <1>29, <3>1, <3>2, <3>3, <4>1, <4>2, InRange DEF
             OwnershipInv, DetachAlone
      <3>10. BlockPinned'
        BY Constants, <1>29, <3>1, <3>2, <3>3, InRange DEF OwnershipInv,
           BlockPinned, WorkPcs, MutationPcs
      <3>11. Owned' /\ AttachedReaders'
        BY Constants, <1>29, <3>1, <3>2, <3>3, InRange DEF OwnershipInv, Owned,
           AttachedReaders
      <3>12. NoStaleCondition'
        BY Constants, <1>29, <3>1, <3>2, <3>3, InRange DEF OwnershipInv,
           NoStaleCondition
      <3>13. QED
        BY <3>4, <3>5, <3>6, <3>7, <3>8, <3>9, <3>10, <3>11, <3>12 DEF OwnershipInv
    <2>2. CASE ~shutdown
      <3>1. /\ pc[t] = "idle" /\ op[t] = "none"
            /\ n <= created /\ n # 0
            /\ \A u \in Threads : Unpublished(u) => cur[u] # n
        BY Constants, InRange, <1>29, <2>2 DEF Remove, Begin, OwnershipInv, OpShape,
           Numbered, Fresh
      <3>2. /\ pc'[t] = "remove_find" /\ op'[t] = "remove"
            /\ cur'[t] = n /\ arg'[t] = target[n]
            /\ \A u \in Threads : u # t => pc'[u] = pc[u] /\ op'[u] = op[u] /\ arg'[u] = arg[u] /\ cur'[u] = cur[u]
        BY Constants, <1>29, <2>2, <3>1 DEF Remove, Begin, TypeOK, RegistrationType,
           LockType, CallType, PcType, WaitType, FlagType
      <3>3. UNCHANGED <<listed, created, phase, target, attached, owner, topologyCb, mutex,
                        conditions, todo, closing>>
        BY <1>29, <2>2 DEF Remove, Begin, ctxVars, lockVars, regVars, callVars,
           waitVars
      <3>4. OpShape' /\ WaiterShape'
        BY Constants, <1>29, <3>1, <3>2, <3>3 DEF OwnershipInv, OpShape,
           WaiterShape, WorkPcs, DetachPcs, BlockPcs, AddPcs, Bracket, MutationPcs,
           WaitPcs
      <3>5. Numbered' /\ Named'
        BY Constants, <1>29, <3>1, <3>2, <3>3, InRange DEF OwnershipInv, Numbered,
           Named, WorkPcs, MutationPcs
      <3>6. Locks'
        BY Constants, <1>29, <3>1, <3>2, <3>3, InRange DEF OwnershipInv, Locks,
           WorkPcs, MutationPcs
      <3>7. Fresh'
        <4>1. \A u \in Threads : u # t /\ Unpublished(u)' =>
                 Unpublished(u) /\ cur[u] # cur[t] /\ cur[u] \in Regs
          BY Constants, <1>29, <3>1, <3>2, <3>3, InRange DEF OwnershipInv, Fresh,
             Unpublished, WorkPcs, MutationPcs
        <4>2. ~Unpublished(t)'
          BY Constants, <1>29, <3>1, <3>2, <3>3 DEF Unpublished
        <4>3. QED
          BY Constants, <1>29, <3>1, <3>2, <3>3, <4>1, <4>2, InRange DEF
             OwnershipInv, Fresh
      <3>8. Claiming'
        BY Constants, <1>29, <3>1, <3>2, <3>3, InRange DEF OwnershipInv, Claiming,
           WorkPcs, MutationPcs
      <3>9. DetachAlone'
        <4>1. \A u \in Threads : u # t /\ Detaching(u)' => Detaching(u) /\ cur[u] \in Regs
          BY Constants, <1>29, <3>1, <3>2, <3>3, InRange DEF Detaching, WorkPcs,
             MutationPcs
        <4>2. ~Detaching(t)'
          BY Constants, <1>29, <3>1, <3>2, <3>3 DEF Detaching
        <4>3. QED
          BY Constants, <1>29, <3>1, <3>2, <3>3, <4>1, <4>2, InRange DEF
             OwnershipInv, DetachAlone
      <3>10. BlockPinned'
        BY Constants, <1>29, <3>1, <3>2, <3>3, InRange DEF OwnershipInv,
           BlockPinned, WorkPcs, MutationPcs
      <3>11. Owned' /\ AttachedReaders'
        BY Constants, <1>29, <3>1, <3>2, <3>3, InRange DEF OwnershipInv, Owned,
           AttachedReaders
      <3>12. NoStaleCondition'
        BY Constants, <1>29, <3>1, <3>2, <3>3, InRange DEF OwnershipInv,
           NoStaleCondition
      <3>13. QED
        BY <3>4, <3>5, <3>6, <3>7, <3>8, <3>9, <3>10, <3>11, <3>12 DEF OwnershipInv
    <2>3. QED
      BY <1>29, <2>1, <2>2 DEF Remove
  <1>30. ASSUME TypeOK, OwnershipInv, NEW t \in Clients, NEW r \in Readers, SetBlocking(t,
     r) PROVE OwnershipInv'
    <2>1. CASE shutdown
      <3>1. QuietStep(t)
        BY Constants, <1>30, <2>1 DEF SetBlocking, Begin, QuietStep, Away, TypeOK,
           CallType, PcType, OwnershipInv, OpShape, Pcs, CallPcs, WorkPcs,
           DetachPcs, BlockPcs, AddPcs, Bracket, MutationPcs, WaitPcs, ctxVars,
           lockVars, regVars, callVars, waitVars
      <3>2. QED
        BY Constants, <1>30, <3>1, QuietKeepsOwnership
    <2>2. CASE ~shutdown
      <3>1. /\ pc[t] = "idle" /\ op[t] = "none"
        BY Constants, InRange, <1>30, <2>2 DEF SetBlocking, Begin, OwnershipInv,
           OpShape, WorkPcs, DetachPcs, BlockPcs, AddPcs, MutationPcs, WaitPcs
      <3>2. /\ pc'[t] = "block_copy" /\ op'[t] = "block"
            /\ arg'[t] = r
            /\ \A u \in Threads : u # t => pc'[u] = pc[u] /\ op'[u] = op[u] /\ arg'[u] = arg[u]
        BY Constants, <1>30, <2>2, <3>1 DEF SetBlocking, Begin, TypeOK,
           RegistrationType, LockType, CallType, PcType, WaitType, FlagType
      <3>3. UNCHANGED <<cur, listed, created, phase, target, attached, owner, topologyCb,
                        mutex, conditions, todo, closing>>
        BY <1>30, <2>2 DEF SetBlocking, Begin, ctxVars, lockVars, regVars, callVars,
           waitVars
      <3>4. OpShape' /\ WaiterShape'
        BY Constants, <1>30, <3>1, <3>2, <3>3 DEF OwnershipInv, OpShape,
           WaiterShape, WorkPcs, DetachPcs, BlockPcs, AddPcs, Bracket, MutationPcs,
           WaitPcs
      <3>5. Numbered' /\ Named'
        BY Constants, <1>30, <3>1, <3>2, <3>3, InRange DEF OwnershipInv, Numbered,
           Named, WorkPcs, MutationPcs
      <3>6. Locks'
        BY Constants, <1>30, <3>1, <3>2, <3>3, InRange DEF OwnershipInv, Locks,
           WorkPcs, MutationPcs
      <3>7. Fresh'
        <4>1. \A u \in Threads : u # t /\ Unpublished(u)' =>
                 Unpublished(u) /\ cur[u] # cur[t] /\ cur[u] \in Regs
          BY Constants, <1>30, <3>1, <3>2, <3>3, InRange DEF OwnershipInv, Fresh,
             Unpublished, WorkPcs, MutationPcs
        <4>2. ~Unpublished(t)'
          BY Constants, <1>30, <3>1, <3>2, <3>3 DEF Unpublished
        <4>3. QED
          BY Constants, <1>30, <3>1, <3>2, <3>3, <4>1, <4>2, InRange DEF
             OwnershipInv, Fresh
      <3>8. Claiming'
        BY Constants, <1>30, <3>1, <3>2, <3>3, InRange DEF OwnershipInv, Claiming,
           WorkPcs, MutationPcs
      <3>9. DetachAlone'
        <4>1. \A u \in Threads : u # t /\ Detaching(u)' => Detaching(u) /\ cur[u] \in Regs
          BY Constants, <1>30, <3>1, <3>2, <3>3, InRange DEF Detaching, WorkPcs,
             MutationPcs
        <4>2. ~Detaching(t)'
          BY Constants, <1>30, <3>1, <3>2, <3>3 DEF Detaching
        <4>3. QED
          BY Constants, <1>30, <3>1, <3>2, <3>3, <4>1, <4>2, InRange DEF
             OwnershipInv, DetachAlone
      <3>10. BlockPinned'
        BY Constants, <1>30, <3>1, <3>2, <3>3, InRange DEF OwnershipInv,
           BlockPinned, WorkPcs, MutationPcs
      <3>11. Owned' /\ AttachedReaders'
        BY Constants, <1>30, <3>1, <3>2, <3>3, InRange DEF OwnershipInv, Owned,
           AttachedReaders
      <3>12. NoStaleCondition'
        BY Constants, <1>30, <3>1, <3>2, <3>3, InRange DEF OwnershipInv,
           NoStaleCondition
      <3>13. QED
        BY <3>4, <3>5, <3>6, <3>7, <3>8, <3>9, <3>10, <3>11, <3>12 DEF OwnershipInv
    <2>3. QED
      BY <1>30, <2>1, <2>2 DEF SetBlocking
  <1>31. ASSUME TypeOK, OwnershipInv, NEW t \in Clients, RemoveFind(t) PROVE OwnershipInv'
    <2>1. CASE cur[t] \in listed
      <3>1. Advance(t)
        BY Constants, <1>31, <2>1 DEF RemoveFind, Goto, Advance, TypeOK, PcType,
           ctxVars, lockVars, regVars, callVars, waitVars
      <3>2. QED
        BY Constants, <1>31, <3>1, AdvanceKeepsOwnership
    <2>2. CASE cur[t] \notin listed
      <3>1. QuietStep(t)
        BY Constants, <1>31, <2>2 DEF RemoveFind, Goto, QuietStep, Away, TypeOK,
           CallType, PcType, OwnershipInv, OpShape, Pcs, CallPcs, WorkPcs,
           DetachPcs, BlockPcs, AddPcs, Bracket, MutationPcs, WaitPcs, ctxVars,
           lockVars, regVars, callVars, waitVars
      <3>2. QED
        BY Constants, <1>31, <3>1, QuietKeepsOwnership
    <2>3. QED
      BY <1>31, <2>1, <2>2 DEF RemoveFind
  <1>32. ASSUME TypeOK, OwnershipInv, NEW t \in Clients, AddLock(t) PROVE OwnershipInv'
    BY <1>32, CreateKeepsOwnership
  <1>33. ASSUME TypeOK, OwnershipInv, NEW w \in Waiters, NEW n \in Regs, Scan(w, n)
        PROVE  OwnershipInv'
    BY <1>33, ScanKeepsOwnership
  <1>34. ASSUME TypeOK, OwnershipInv, NEW t \in Threads, OpEnd(t) PROVE OwnershipInv'
    <2>1. QuietStep(t)
      BY Constants, <1>34 DEF OpEnd, Goto, QuietStep, Away, TypeOK, CallType, PcType,
         OwnershipInv, OpShape, WaiterShape, Pcs, CallPcs, WorkPcs, DetachPcs,
         BlockPcs, AddPcs, Bracket, MutationPcs, WaitPcs, ctxVars, lockVars, regVars,
         callVars, waitVars
    <2>2. QED
      BY Constants, <1>34, <2>1, QuietKeepsOwnership
  <1>35. ASSUME TypeOK, OwnershipInv, NEW t \in Clients, StageTrigger(t) PROVE
     OwnershipInv'
    <2>1. QuietStep(t)
      BY Constants, <1>35 DEF StageTrigger, Goto, QuietStep, Away, TypeOK, CallType,
         PcType, OwnershipInv, OpShape, WaiterShape, Pcs, CallPcs, WorkPcs, DetachPcs,
         BlockPcs, AddPcs, Bracket, MutationPcs, WaitPcs, ctxVars, lockVars, regVars,
         callVars, waitVars
    <2>2. QED
      BY Constants, <1>35, <2>1, QuietKeepsOwnership
  <1>36. ASSUME TypeOK, OwnershipInv, NEW t \in Clients, NotifyLock(t) PROVE OwnershipInv'
    <2>1. QuietStep(t)
      BY Constants, <1>36 DEF NotifyLock, Goto, QuietStep, Away, TypeOK, CallType,
         PcType, OwnershipInv, OpShape, WaiterShape, Pcs, CallPcs, WorkPcs, DetachPcs,
         BlockPcs, AddPcs, Bracket, MutationPcs, WaitPcs, ctxVars, lockVars, regVars,
         callVars, waitVars
    <2>2. QED
      BY Constants, <1>36, <2>1, QuietKeepsOwnership
  <1>37. ASSUME TypeOK, OwnershipInv, NEW t \in Clients, NotifyWake(t) PROVE OwnershipInv'
    <2>1. QuietStep(t)
      BY Constants, <1>37 DEF NotifyWake, Goto, QuietStep, Away, TypeOK, CallType,
         PcType, OwnershipInv, OpShape, WaiterShape, Pcs, CallPcs, WorkPcs, DetachPcs,
         BlockPcs, AddPcs, Bracket, MutationPcs, WaitPcs, ctxVars, lockVars, regVars,
         callVars, waitVars
    <2>2. QED
      BY Constants, <1>37, <2>1, QuietKeepsOwnership
  <1>38. ASSUME TypeOK, OwnershipInv, NEW t \in Clients, Children(t) PROVE OwnershipInv'
    <2>1. QuietStep(t)
      BY Constants, <1>38 DEF Children, Goto, QuietStep, Away, TypeOK, CallType,
         PcType, OwnershipInv, OpShape, WaiterShape, Pcs, CallPcs, WorkPcs, DetachPcs,
         BlockPcs, AddPcs, Bracket, MutationPcs, WaitPcs, ctxVars, lockVars, regVars,
         callVars, waitVars
    <2>2. QED
      BY Constants, <1>38, <2>1, QuietKeepsOwnership
  <1>39. ASSUME TypeOK, OwnershipInv, NEW t \in Clients, ChildrenWake(t) PROVE
     OwnershipInv'
    <2>1. QuietStep(t)
      BY Constants, <1>39 DEF ChildrenWake, Goto, QuietStep, Away, TypeOK, CallType,
         PcType, OwnershipInv, OpShape, WaiterShape, Pcs, CallPcs, WorkPcs, DetachPcs,
         BlockPcs, AddPcs, Bracket, MutationPcs, WaitPcs, ctxVars, lockVars, regVars,
         callVars, waitVars
    <2>2. QED
      BY Constants, <1>39, <2>1, QuietKeepsOwnership
  <1>40. ASSUME TypeOK, OwnershipInv, NEW t \in Clients, Drain(t) PROVE OwnershipInv'
    <2>1. QuietStep(t)
      BY Constants, <1>40 DEF Drain, Goto, QuietStep, Away, TypeOK, CallType, PcType,
         OwnershipInv, OpShape, WaiterShape, Pcs, CallPcs, WorkPcs, DetachPcs,
         BlockPcs, AddPcs, Bracket, MutationPcs, WaitPcs, ctxVars, lockVars, regVars,
         callVars, waitVars
    <2>2. QED
      BY Constants, <1>40, <2>1, QuietKeepsOwnership
  <1>41. ASSUME TypeOK, OwnershipInv, NEW w \in Waiters, BeginWait(w) PROVE OwnershipInv'
    <2>1. QuietStep(w)
      BY Constants, <1>41 DEF BeginWait, Goto, QuietStep, Away, TypeOK, CallType,
         PcType, OwnershipInv, OpShape, WaiterShape, Pcs, CallPcs, WorkPcs, DetachPcs,
         BlockPcs, AddPcs, Bracket, MutationPcs, WaitPcs, ctxVars, lockVars, regVars,
         callVars, waitVars
    <2>2. QED
      BY Constants, <1>41, <2>1, QuietKeepsOwnership
  <1>42. ASSUME TypeOK, OwnershipInv, NEW w \in Waiters, Top(w) PROVE OwnershipInv'
    <2>1. QuietStep(w)
      BY Constants, <1>42 DEF Top, Goto, QuietStep, Away, TypeOK, CallType, PcType,
         OwnershipInv, OpShape, WaiterShape, Pcs, CallPcs, WorkPcs, DetachPcs,
         BlockPcs, AddPcs, Bracket, MutationPcs, WaitPcs, ctxVars, lockVars, regVars,
         callVars, waitVars
    <2>2. QED
      BY Constants, <1>42, <2>1, QuietKeepsOwnership
  <1>43. ASSUME TypeOK, OwnershipInv, NEW w \in Waiters, IsShutdown(w) PROVE OwnershipInv'
    <2>1. QuietStep(w)
      BY Constants, <1>43 DEF IsShutdown, Goto, QuietStep, Away, TypeOK, CallType,
         PcType, OwnershipInv, OpShape, WaiterShape, Pcs, CallPcs, WorkPcs, DetachPcs,
         BlockPcs, AddPcs, Bracket, MutationPcs, WaitPcs, ctxVars, lockVars, regVars,
         callVars, waitVars
    <2>2. QED
      BY Constants, <1>43, <2>1, QuietKeepsOwnership
  <1>44. ASSUME TypeOK, OwnershipInv, NEW w \in Waiters, ObserveTopology(w) PROVE
     OwnershipInv'
    <2>1. QuietStep(w)
      BY Constants, <1>44 DEF ObserveTopology, Goto, QuietStep, Away, TypeOK,
         CallType, PcType, OwnershipInv, OpShape, WaiterShape, Pcs, CallPcs, WorkPcs,
         DetachPcs, BlockPcs, AddPcs, Bracket, MutationPcs, WaitPcs, ctxVars,
         lockVars, regVars, callVars, waitVars
    <2>2. QED
      BY Constants, <1>44, <2>1, QuietKeepsOwnership
  <1>45. ASSUME TypeOK, OwnershipInv, NEW w \in Waiters, ObserveWake(w) PROVE
     OwnershipInv'
    <2>1. QuietStep(w)
      BY Constants, <1>45 DEF ObserveWake, Goto, QuietStep, Away, TypeOK, CallType,
         PcType, OwnershipInv, OpShape, WaiterShape, Pcs, CallPcs, WorkPcs, DetachPcs,
         BlockPcs, AddPcs, Bracket, MutationPcs, WaitPcs, ctxVars, lockVars, regVars,
         callVars, waitVars
    <2>2. QED
      BY Constants, <1>45, <2>1, QuietKeepsOwnership
  <1>46. ASSUME TypeOK, OwnershipInv, NEW w \in Waiters, Check(w) PROVE OwnershipInv'
    <2>1. QuietStep(w)
      BY Constants, <1>46 DEF Check, Goto, QuietStep, Away, TypeOK, CallType, PcType,
         OwnershipInv, OpShape, WaiterShape, Pcs, CallPcs, WorkPcs, DetachPcs,
         BlockPcs, AddPcs, Bracket, MutationPcs, WaitPcs, ctxVars, lockVars, regVars,
         callVars, waitVars
    <2>2. QED
      BY Constants, <1>46, <2>1, QuietKeepsOwnership
  <1>47. ASSUME TypeOK, OwnershipInv, NEW w \in Waiters, Recheck(w) PROVE OwnershipInv'
    <2>1. QuietStep(w)
      BY Constants, <1>47 DEF Recheck, Goto, QuietStep, Away, TypeOK, CallType,
         PcType, OwnershipInv, OpShape, WaiterShape, Pcs, CallPcs, WorkPcs, DetachPcs,
         BlockPcs, AddPcs, Bracket, MutationPcs, WaitPcs, ctxVars, lockVars, regVars,
         callVars, waitVars
    <2>2. QED
      BY Constants, <1>47, <2>1, QuietKeepsOwnership
  <1>48. ASSUME TypeOK, OwnershipInv, NEW w \in Waiters, Handoff(w) PROVE OwnershipInv'
    <2>1. QuietStep(w)
      BY Constants, <1>48 DEF Handoff, Goto, QuietStep, Away, TypeOK, CallType,
         PcType, OwnershipInv, OpShape, WaiterShape, Pcs, CallPcs, WorkPcs, DetachPcs,
         BlockPcs, AddPcs, Bracket, MutationPcs, WaitPcs, ctxVars, lockVars, regVars,
         callVars, waitVars
    <2>2. QED
      BY Constants, <1>48, <2>1, QuietKeepsOwnership
  <1>49. ASSUME TypeOK, OwnershipInv, NEW w \in Waiters, NativeLock(w) PROVE OwnershipInv'
    <2>1. QuietStep(w)
      BY Constants, <1>49 DEF NativeLock, Goto, QuietStep, Away, TypeOK, CallType,
         PcType, OwnershipInv, OpShape, WaiterShape, Pcs, CallPcs, WorkPcs, DetachPcs,
         BlockPcs, AddPcs, Bracket, MutationPcs, WaitPcs, ctxVars, lockVars, regVars,
         callVars, waitVars
    <2>2. QED
      BY Constants, <1>49, <2>1, QuietKeepsOwnership
  <1>50. ASSUME TypeOK, OwnershipInv, NEW w \in Waiters, NativeReturn(w) PROVE
     OwnershipInv'
    <2>1. QuietStep(w)
      BY Constants, <1>50 DEF NativeReturn, Goto, QuietStep, Away, TypeOK, CallType,
         PcType, OwnershipInv, OpShape, WaiterShape, Pcs, CallPcs, WorkPcs, DetachPcs,
         BlockPcs, AddPcs, Bracket, MutationPcs, WaitPcs, ctxVars, lockVars, regVars,
         callVars, waitVars
    <2>2. QED
      BY Constants, <1>50, <2>1, QuietKeepsOwnership
  <1>51. ASSUME TypeOK, OwnershipInv, NEW w \in Waiters, WaitEnd(w) PROVE OwnershipInv'
    <2>1. QuietStep(w)
      BY Constants, <1>51 DEF WaitEnd, Goto, QuietStep, Away, TypeOK, CallType,
         PcType, OwnershipInv, OpShape, WaiterShape, Pcs, CallPcs, WorkPcs, DetachPcs,
         BlockPcs, AddPcs, Bracket, MutationPcs, WaitPcs, ctxVars, lockVars, regVars,
         callVars, waitVars
    <2>2. QED
      BY Constants, <1>51, <2>1, QuietKeepsOwnership
  <1>52. ASSUME TypeOK, OwnershipInv, NEW w \in Waiters, NativeFault(w) PROVE
     OwnershipInv'
    <2>1. QuietStep(w)
      BY Constants, <1>52 DEF NativeFault, Goto, QuietStep, Away, TypeOK, CallType,
         PcType, OwnershipInv, OpShape, WaiterShape, Pcs, CallPcs, WorkPcs, DetachPcs,
         BlockPcs, AddPcs, Bracket, MutationPcs, WaitPcs, ctxVars, lockVars, regVars,
         callVars, waitVars
    <2>2. QED
      BY Constants, <1>52, <2>1, QuietKeepsOwnership
  <1>53. ASSUME TypeOK, OwnershipInv, NEW w \in Waiters, NEW k \in Timeouts, Wait(w, k)
     PROVE OwnershipInv'
    <2>1. QuietStep(w)
      BY Constants, <1>53 DEF Wait, Goto, QuietStep, Away, TypeOK, CallType, PcType,
         OwnershipInv, OpShape, WaiterShape, Pcs, CallPcs, WorkPcs, DetachPcs,
         BlockPcs, AddPcs, Bracket, MutationPcs, WaitPcs, ctxVars, lockVars, regVars,
         callVars, waitVars
    <2>2. QED
      BY Constants, <1>53, <2>1, QuietKeepsOwnership
  <1>54. ASSUME TypeOK, OwnershipInv, NEW t \in Clients, NEW g \in Guards, Trigger(t, g)
     PROVE OwnershipInv'
    <2>1. QuietStep(t)
      BY Constants, <1>54 DEF Trigger, Begin, QuietStep, Away, TypeOK, CallType,
         PcType, OwnershipInv, OpShape, WaiterShape, Pcs, CallPcs, WorkPcs, DetachPcs,
         BlockPcs, AddPcs, Bracket, MutationPcs, WaitPcs, ctxVars, lockVars, regVars,
         callVars, waitVars
    <2>2. QED
      BY Constants, <1>54, <2>1, QuietKeepsOwnership
  <1>55. ASSUME TypeOK, OwnershipInv, NEW t \in Clients, Shutdown(t) PROVE OwnershipInv'
    <2>1. QuietStep(t)
      BY Constants, <1>55 DEF Shutdown, Goto, QuietStep, Away, TypeOK, CallType,
         PcType, OwnershipInv, OpShape, WaiterShape, Pcs, CallPcs, WorkPcs, DetachPcs,
         BlockPcs, AddPcs, Bracket, MutationPcs, WaitPcs, ctxVars, lockVars, regVars,
         callVars, waitVars
    <2>2. QED
      BY Constants, <1>55, <2>1, QuietKeepsOwnership
  <1>56. ASSUME OwnershipInv, NEW w \in Waiters, Expire(w) PROVE OwnershipInv'
    BY <1>56, StutterKeepsOwnership DEF Expire, ctxVars, lockVars, regVars, callVars, waitVars
  <1>57. ASSUME OwnershipInv, NEW r \in Readers, DataArrives(r) PROVE OwnershipInv'
    BY <1>57, StutterKeepsOwnership DEF DataArrives, ctxVars, lockVars, regVars, callVars,
       waitVars
  <1>58. ASSUME OwnershipInv, NEW r \in Readers, Take(r) PROVE OwnershipInv'
    BY <1>58, StutterKeepsOwnership DEF Take, ctxVars, lockVars, regVars, callVars, waitVars
  <1>59. ASSUME OwnershipInv, UNCHANGED vars PROVE OwnershipInv'
    BY <1>59, StutterKeepsOwnership DEF vars, ctxVars, lockVars, regVars, callVars, waitVars
  <1>60. ASSUME TypeOK, OwnershipInv, NEW t \in Clients, InsertThrows(t) PROVE OwnershipInv'
    BY <1>60, TakeBackKeepsOwnership
  <1>61. QED
    BY <1>1, <1>2, <1>3, <1>4, <1>5, <1>6, <1>7, <1>8, <1>9, <1>10, <1>11, <1>12, <1>13,
       <1>14, <1>15, <1>16, <1>17, <1>18, <1>19, <1>20, <1>21, <1>22, <1>23, <1>24,
       <1>25, <1>26, <1>27, <1>28, <1>29, <1>30, <1>31, <1>32, <1>33, <1>34, <1>35,
       <1>36, <1>37, <1>38, <1>39, <1>40, <1>41, <1>42, <1>43, <1>44, <1>45, <1>46,
       <1>47, <1>48, <1>49, <1>50, <1>51, <1>52, <1>53, <1>54, <1>55, <1>56, <1>57,
       <1>58, <1>59, <1>60 DEF Next, MutationStep, ClientStep, WaiterStep, Call

-----------------------------------------------------------------------------
\* The waitables registered before the run name their registrations.
LEMMA OwnershipInit == Init => OwnershipInv
  <1> SUFFICES ASSUME Init PROVE OwnershipInv
    OBVIOUS
  <1> DEFINE m == Len(InitialRegs)
  <1>1. /\ m \in Nat /\ m <= MaxRegistrations /\ Regs = 1..MaxRegistrations
        /\ \A n \in 1..m : n \in Regs /\ InitialRegs[n] \in Waitables
        /\ \A i, j \in 1..m : InitialRegs[i] = InitialRegs[j] => i = j
    BY WaitSetAssumption DEF Regs
  <1>2. /\ listed = 1..m /\ created = m /\ attached = {n \in 1..m : InitialRegs[n] \in Readers}
        /\ \A n \in 1..m : phase[n] = "Attached" /\ target[n] = InitialRegs[n]
        /\ \A n \in Regs : n > m => phase[n] = "unused"
        /\ \A x \in Waitables : owner[x] = IF InitialOf(x) = {} THEN 0
                                          ELSE CHOOSE n \in InitialOf(x) : TRUE
        /\ topologyCb = {r \in Readers : InitialOf(r) # {}}
    BY <1>1 DEF Init
  <1>3. \A t \in Threads : pc[t] = "idle" /\ op[t] = "none" /\ cur[t] = 0
    BY DEF Init
  <1>4. \A n \in 1..m : owner[InitialRegs[n]] = n
    <2>1. ASSUME NEW n \in 1..m PROVE owner[InitialRegs[n]] = n
      <3>1. InitialOf(InitialRegs[n]) = {n}
        BY <1>1, <2>1 DEF InitialOf
      <3>2. InitialRegs[n] \in Waitables /\ InitialOf(InitialRegs[n]) # {}
        BY <1>1, <2>1, <3>1
      <3>3. owner[InitialRegs[n]] = CHOOSE k \in InitialOf(InitialRegs[n]) : TRUE
        BY <1>2, <3>2
      <3>4. QED
        BY <3>1, <3>3
    <2>2. QED
      BY <2>1
  <1>5. \A x \in Waitables : owner[x] # 0 => owner[x] \in 1..m /\ InitialRegs[owner[x]] = x
    BY <1>1, <1>2 DEF InitialOf
  <1>6. OpShape /\ WaiterShape
    BY <1>3, Constants DEF Init, OpShape, WaiterShape, WorkPcs, DetachPcs, BlockPcs, AddPcs,
       Bracket,
       MutationPcs, WaitPcs
  <1>7. Numbered
    BY <1>1, <1>2 DEF Init, Numbered
  <1>8. Named
    BY <1>1, <1>2, <1>3, <1>5 DEF Named, WorkPcs, MutationPcs
  <1>9. Locks /\ Fresh /\ Claiming /\ DetachAlone /\ BlockPinned
    BY <1>3 DEF Locks, Fresh, Unpublished, Claiming, DetachAlone, Detaching, BlockPinned, WorkPcs,
       MutationPcs
  <1>10. Owned
    <2>1. \A r \in topologyCb : owner[r] # 0
      <3>1. ASSUME NEW r \in topologyCb PROVE owner[r] # 0
        <4>1. PICK n \in 1..m : InitialRegs[n] = r
          BY <1>2, <3>1 DEF InitialOf
        <4>2. QED
          BY <1>1, <1>4, <4>1
      <3>2. QED
        BY <3>1
    <2>2. QED
      BY <1>1, <1>2, <1>4, <2>1 DEF Owned
  <1>11. AttachedReaders /\ NoStaleCondition
    BY <1>1, <1>2, <1>4 DEF AttachedReaders, NoStaleCondition
  <1>12. QED
    BY <1>6, <1>7, <1>8, <1>9, <1>10, <1>11 DEF OwnershipInv

\* Two live registrations of one waitable would both be its registration_id.
LEMMA OwnedIsExclusive == OwnershipInv => ExclusiveRegistration
  BY DEF OwnershipInv, Owned, ExclusiveRegistration

\* OwnershipInv holds in every reachable state.
LEMMA OwnershipCorrect == Spec => []OwnershipInv
  BY TypeCorrect, OwnershipInit, OwnershipNext, PTL DEF Spec

\* At most one live registration per waitable, the one its registration_id names:
\* ExclusiveRegistration for every number of threads, waitables and registrations.
THEOREM RegistrationIsExclusive == Spec => []ExclusiveRegistration
  BY OwnershipCorrect, OwnedIsExclusive, PTL

\* The native WaitSet never keeps the condition of a reader whose registration is
\* gone: NoStaleCondition, with every native attach and detach able to fail.
THEOREM ConditionsAreLive == Spec => []NoStaleCondition
  <1>1. OwnershipInv => NoStaleCondition
    BY DEF OwnershipInv
  <1>2. QED
    BY <1>1, OwnershipCorrect, PTL
-----------------------------------------------------------------------------
(* What a thread asleep in the native wait relies on: the condition of a    *)
(* reader is attached exactly while the reader may block, and no trigger of *)
(* a registered guard was missed.                                           *)

-----------------------------------------------------------------------------
(* Capacity changes of a reader.                                           *)

\* A capacity change that has found registration n and will reconcile it.
ChangePcs == {"block_lock", "publish", "mut_bump", "mut_wake", "reconcile"}

\* A thread on its way to reconcile registration n with the capacity flag.
Changing(t, n) ==
    /\ op[t] = "block" /\ arg[t] = target[n]
    /\ \/ pc[t] = "block_copy"
       \/ cur[t] = n /\ pc[t] \in ChangePcs

\* The flag has the wanted value, or will be looked at again.
Agrees(n, wanted) ==
    \/ target[n] \in overlooked \/ blocking[target[n]] = wanted
    \/ \E t \in Threads : Changing(t, n)

\* A registered reader agrees with its flag unless a native call is under way or
\* has failed.
Matched(n) ==
    \/ poisoned \/ Agrees(n, n \in attached)
    \/ \E t \in Threads : cur[t] = n /\ pc[t] \in {"rec_attach", "rec_detach", "poison"}

\* What a thread about to attach or detach a condition knows of the flag.
Informed(t) ==
    /\ pc[t] \in {"attach", "rec_attach"} => cur[t] \notin attached /\ Agrees(cur[t], TRUE)
    /\ pc[t] = "rec_detach" => cur[t] \in attached /\ Agrees(cur[t], FALSE)
    /\ pc[t] \in {"claimed", "insert"} /\ arg[t] \in Readers => Agrees(cur[t], cur[t] \in attached)

CapacityInv ==
    /\ \A n \in listed : phase[n] = "Attached" /\ target[n] \in Readers => Matched(n)
    /\ \A t \in Threads : Informed(t)

\* Steps that touch neither the flag nor a condition, and forget no change.
CapacityFrame(t) ==
    /\ \A u \in Threads \ {t} : pc'[u] = pc[u] /\ op'[u] = op[u] /\ arg'[u] = arg[u] /\ cur'[u] = cur[u]
    /\ pc[t] \notin {"block_copy", "rec_attach", "rec_detach", "poison"}
    /\ op[t] = "block" /\ pc[t] \in ChangePcs =>
         op'[t] = "block" /\ arg'[t] = arg[t] /\ cur'[t] = cur[t] /\ pc'[t] \in ChangePcs
    /\ pc'[t] \notin {"attach", "claimed", "rec_attach", "rec_detach"}
    /\ pc'[t] = "insert" => arg'[t] \notin Readers
    /\ listed' \subseteq listed /\ \A n \in listed' : phase'[n] = "Attached" => phase[n] = "Attached"
    /\ \A n \in 1..created : target'[n] = target[n]
    /\ UNCHANGED <<attached, blocking, overlooked>> /\ (poisoned => poisoned')

LEMMA FrameKeepsCapacity ==
    ASSUME TypeOK, OwnershipInv, CapacityInv, NEW t \in Threads, CapacityFrame(t)
    PROVE  CapacityInv'
  <1>1. /\ \A u \in Threads : u # t => pc'[u] = pc[u] /\ op'[u] = op[u] /\ arg'[u] = arg[u] /\ cur'[u] = cur[u]
        /\ UNCHANGED <<attached, blocking, overlooked>> /\ (poisoned => poisoned')
        /\ \A n \in 1..created : target'[n] = target[n]
    BY DEF CapacityFrame
  <1>2. \A u \in Threads, n \in 1..created : Changing(u, n) => Changing(u, n)'
    BY <1>1 DEF CapacityFrame, Changing
  <1>3. \A n \in 1..created : Agrees(n, n \in attached) => Agrees(n, n \in attached)'
    BY <1>1, <1>2 DEF Agrees
  <1>4. \A n \in 1..created : Matched(n) => Matched(n)'
    BY <1>1, <1>3 DEF Matched, CapacityFrame
  <1>5. \A n \in listed' : phase'[n] = "Attached" /\ target'[n] \in Readers => Matched(n)'
    BY <1>1, <1>4 DEF CapacityInv, CapacityFrame, OwnershipInv, Numbered
  <1>6. \A u \in Threads : Informed(u)'
    <2>1. ASSUME NEW u \in Threads, u # t PROVE Informed(u)'
      <3>1. pc[u] \in {"attach", "rec_attach", "rec_detach", "claimed", "insert"} => cur[u] \in 1..created
        BY InRange, Constants DEF OwnershipInv, Named, WorkPcs, MutationPcs
      <3>2. QED
        BY <1>1, <1>2, <2>1, <3>1 DEF CapacityInv, Informed, Agrees
    <2>2. Informed(t)'
      BY DEF CapacityFrame, Informed
    <2>3. QED
      BY <2>1, <2>2
  <1>7. QED
    BY <1>5, <1>6 DEF CapacityInv

\* claim() of a reader clears the history of overlooked changes: it reads the
\* flag, and no older registration of the reader is left.
LEMMA ClaimKeepsCapacity ==
    ASSUME TypeOK, OwnershipInv, CapacityInv, NEW t \in Clients, Claim(t),
           CanClaim(arg[t]), arg[t] \notin Guards
    PROVE  CapacityInv'
  <1>1. /\ pc[t] = "claim" /\ op[t] = "add" /\ mutex = t /\ arg[t] \in Readers /\ owner[arg[t]] = 0
        /\ cur[t] \in Regs /\ target[cur[t]] = arg[t] /\ cur[t] \notin attached
    BY Constants, InRange DEF Claim, CanClaim, OwnershipInv, OpShape, Named, Locks, Fresh,
       Unpublished, AddPcs, WorkPcs, MutationPcs
  <1>2. /\ pc'[t] = (IF blocking[arg[t]] THEN "attach" ELSE "claimed")
        /\ \A u \in Threads : u # t => pc'[u] = pc[u]
        /\ overlooked' = overlooked \ {arg[t]}
    BY Constants, <1>1 DEF Claim, Goto, TypeOK, PcType
  <1>3. UNCHANGED <<op, arg, cur, listed, phase, target, attached, blocking, poisoned>>
    BY <1>1 DEF Claim, callVars
  <1>4. \A u \in Threads, n \in Regs : Changing(u, n) => Changing(u, n)'
    BY <1>1, <1>2, <1>3 DEF Changing
  <1>5. \A n \in Regs : target[n] # arg[t] /\ Matched(n) => Matched(n)'
    BY <1>1, <1>2, <1>3, <1>4 DEF Matched, Agrees
  <1>6. \A n \in listed : phase[n] = "Attached" => target[n] # arg[t]
    BY <1>1, InRange, Constants DEF OwnershipInv, Owned
  <1>7. ASSUME NEW u \in Threads, u # t PROVE Informed(u)'
    <2>1. pc[u] \in {"attach", "rec_attach", "rec_detach"} \/ pc[u] \in {"claimed", "insert"}
            => cur[u] \in Regs /\ target[cur[u]] = arg[u] /\ arg[u] # arg[t]
      BY <1>1, <1>7, Constants, InRange DEF OwnershipInv, OpShape, Named, Locks, BlockPinned,
         AddPcs, BlockPcs, WorkPcs, MutationPcs
    <2>2. QED
      BY <1>2, <1>3, <1>4, <1>7, <2>1 DEF CapacityInv, Informed, Agrees
  <1>8. Informed(t)'
    BY <1>1, <1>2, <1>3 DEF Informed, Agrees, TypeOK, ReaderType
  <1>9. QED
    BY <1>3, <1>5, <1>6, <1>7, <1>8, InRange DEF CapacityInv

\* The native attach of add(): the registration is not listed yet.
LEMMA AttachKeepsCapacity ==
    ASSUME TypeOK, OwnershipInv, CapacityInv, NEW t \in Clients, AttachReader(t),
           attached' = attached \union {cur[t]}, Goto(t, "claimed")
    PROVE  CapacityInv'
  <1>1. /\ pc[t] = "attach" /\ op[t] = "add" /\ mutex = t
        /\ cur[t] \in Regs /\ cur[t] \notin listed
        /\ \A u \in Threads : u # t => cur[u] # cur[t]
    BY Constants, InRange DEF AttachReader, OwnershipInv, OpShape, Locks, Fresh,
       Unpublished, AddPcs, WorkPcs, MutationPcs
  <1>2. pc'[t] = "claimed" /\ \A u \in Threads : u # t => pc'[u] = pc[u]
    BY Constants DEF Goto, TypeOK, PcType
  <1>3. UNCHANGED <<op, arg, cur, listed, phase, target, blocking, overlooked, poisoned>>
    BY DEF AttachReader, callVars, readerVars
  <1>4. \A u \in Threads, n \in Regs : Changing(u, n) => Changing(u, n)'
    BY <1>1, <1>2, <1>3 DEF Changing
  <1>5. \A n \in Regs : n # cur[t] /\ Matched(n) => Matched(n)'
    BY <1>1, <1>2, <1>3, <1>4 DEF Matched, Agrees
  <1>6. ASSUME NEW u \in Threads, u # t PROVE Informed(u)'
    <2>1. pc[u] \in {"attach", "rec_attach", "rec_detach", "claimed", "insert"} => cur[u] \in Regs
      BY InRange DEF WorkPcs, MutationPcs
    <2>2. QED
      BY <1>1, <1>2, <1>3, <1>4, <1>6, <2>1 DEF CapacityInv, Informed, Agrees
  <1>7. Informed(t)'
    BY <1>1, <1>2, <1>3, <1>4, Constants DEF CapacityInv, Informed, Agrees
  <1>8. QED
    BY <1>1, <1>3, <1>5, <1>6, <1>7, InRange DEF CapacityInv

\* The claim itself changes nothing of the condition or the flag.
LEMMA ClaimedKeepsCapacity ==
    ASSUME TypeOK, OwnershipInv, CapacityInv, NEW t \in Clients, Claimed(t)
    PROVE  CapacityInv'
  <1>1. pc[t] = "claimed" /\ pc'[t] = "insert" /\ \A u \in Threads : u # t => pc'[u] = pc[u]
    BY Constants DEF Claimed, Goto, TypeOK, PcType
  <1>2. UNCHANGED <<op, arg, cur, listed, phase, target, attached, blocking, overlooked, poisoned>>
    BY DEF Claimed, callVars, readerVars
  <1>3. \A u \in Threads, n \in Regs : Changing(u, n) => Changing(u, n)'
    BY <1>1, <1>2 DEF Changing, ChangePcs
  <1>4. \A n \in Regs : Matched(n) => Matched(n)'
    BY <1>1, <1>2, <1>3 DEF Matched, Agrees
  <1>5. ASSUME NEW u \in Threads PROVE Informed(u)'
    <2>1. pc[u] \in {"attach", "rec_attach", "rec_detach", "claimed", "insert"} => cur[u] \in Regs
      BY InRange DEF WorkPcs, MutationPcs
    <2>2. QED
      BY <1>1, <1>2, <1>3, <2>1 DEF CapacityInv, Informed, Agrees
  <1>6. QED
    BY <1>2, <1>4, <1>5, InRange DEF CapacityInv

\* add() lists the registration: what the adder knew becomes the invariant.
LEMMA InsertKeepsCapacity ==
    ASSUME TypeOK, OwnershipInv, CapacityInv, NEW t \in Clients, Insert(t),
           phase[cur[t]] = "Attached"
    PROVE  CapacityInv'
  <1>1. /\ pc[t] = "insert" /\ pc'[t] = "end_topology" /\ \A u \in Threads : u # t => pc'[u] = pc[u]
        /\ listed' = listed \union {cur[t]}
    BY Constants DEF Insert, Goto, TypeOK, PcType
  <1>2. UNCHANGED <<op, arg, cur, phase, target, attached, blocking, overlooked, poisoned>>
    BY DEF Insert, callVars, readerVars
  <1>3. cur[t] \in Regs /\ target[cur[t]] = arg[t]
    BY <1>1, Constants, InRange DEF OwnershipInv, Named, WorkPcs, MutationPcs
  <1>4. \A u \in Threads, n \in Regs : Changing(u, n) => Changing(u, n)'
    BY <1>1, <1>2 DEF Changing, ChangePcs
  <1>5. \A n \in Regs : Matched(n) => Matched(n)'
    BY <1>1, <1>2, <1>4 DEF Matched, Agrees
  <1>6. target[cur[t]] \in Readers => Matched(cur[t])
    BY <1>1, <1>3, Constants DEF CapacityInv, Informed, Matched
  <1>7. ASSUME NEW u \in Threads PROVE Informed(u)'
    <2>1. pc[u] \in {"attach", "rec_attach", "rec_detach", "claimed", "insert"} => cur[u] \in Regs
      BY InRange DEF WorkPcs, MutationPcs
    <2>2. QED
      BY <1>1, <1>2, <1>4, <2>1 DEF CapacityInv, Informed, Agrees
  <1>8. QED
    BY <1>1, <1>2, <1>3, <1>5, <1>6, <1>7, InRange DEF CapacityInv

\* Nor does taking a registration back disturb what is known of the others.
LEMMA TakeBackKeepsCapacity ==
    ASSUME TypeOK, OwnershipInv, CapacityInv, NEW t \in Clients, InsertThrows(t)
    PROVE  CapacityInv'
  <1>1. /\ pc[t] = "insert" /\ cur[t] \in Regs
        /\ cur[t] \in attached => \A u \in Threads : u # t => cur[u] # cur[t]
    BY Constants, InRange DEF InsertThrows, OwnershipInv, OpShape, Named, AttachedReaders, Fresh,
       Unpublished, AddPcs, WorkPcs, MutationPcs
  <1>2. /\ pc'[t] = "end_topology" /\ \A u \in Threads : u # t => pc'[u] = pc[u]
        /\ \A n \in Regs : phase'[n] = IF n = cur[t] THEN "Detached" ELSE phase[n]
        /\ attached' = attached \ {cur[t]}
    BY Constants, <1>1 DEF InsertThrows, Goto, TypeOK, PcType, RegistrationType
  <1>3. UNCHANGED <<op, arg, cur, listed, target, blocking, overlooked, poisoned>>
    BY DEF InsertThrows, callVars, readerVars
  <1>4. \A u \in Threads, n \in Regs : Changing(u, n) => Changing(u, n)'
    BY <1>1, <1>2, <1>3 DEF Changing, ChangePcs
  <1>5. \A n \in Regs : n # cur[t] /\ Matched(n) => Matched(n)'
    BY <1>1, <1>2, <1>3, <1>4 DEF Matched, Agrees
  <1>6. ASSUME NEW u \in Threads, u # t PROVE Informed(u)'
    <2>1. pc[u] \in {"attach", "rec_attach", "rec_detach", "claimed", "insert"} => cur[u] \in Regs
      BY InRange DEF WorkPcs, MutationPcs
    <2>2. (cur[u] \in attached') = (cur[u] \in attached)
      BY <1>1, <1>2, <1>6
    <2>3. QED
      BY <1>1, <1>2, <1>3, <1>4, <1>6, <2>1, <2>2 DEF CapacityInv, Informed, Agrees
  <1>7. Informed(t)'
    BY <1>2 DEF Informed
  <1>8. QED
    BY <1>1, <1>2, <1>3, <1>5, <1>6, <1>7, InRange DEF CapacityInv

\* A capacity change flips the flag and is itself the pending change.
LEMMA SetBlockingKeepsCapacity ==
    ASSUME TypeOK, OwnershipInv, CapacityInv, NEW t \in Clients, NEW r \in Readers,
           SetBlocking(t, r), ~shutdown
    PROVE  CapacityInv'
  <1>1. /\ pc[t] = "idle" /\ op[t] = "none" /\ pc'[t] = "block_copy" /\ op'[t] = "block" /\ arg'[t] = r
        /\ \A u \in Threads : u # t => pc'[u] = pc[u] /\ op'[u] = op[u] /\ arg'[u] = arg[u]
        /\ \A s \in Readers : s # r => blocking'[s] = blocking[s]
    BY Constants DEF SetBlocking, Begin, TypeOK, PcType, CallType, ReaderType, OwnershipInv, OpShape
  <1>2. UNCHANGED <<cur, listed, phase, target, attached, overlooked, poisoned>>
    BY DEF SetBlocking, regVars
  <1>3. \A u \in Threads, n \in Regs : Changing(u, n) => Changing(u, n)'
    BY <1>1, <1>2 DEF Changing, ChangePcs
  <1>4. \A n \in Regs : target[n] = r => Changing(t, n)'
    BY <1>1, <1>2 DEF Changing
  <1>5. \A n \in Regs : target[n] \in Readers /\ Matched(n) => Matched(n)'
    BY <1>1, <1>2, <1>3, <1>4, Constants DEF Matched, Agrees
  <1>6. ASSUME NEW u \in Threads PROVE Informed(u)'
    <2>1. pc[u] \in {"attach", "rec_attach", "rec_detach", "claimed", "insert"}
            => cur[u] \in Regs /\ target[cur[u]] = arg[u]
      BY InRange, Constants DEF OwnershipInv, Named, WorkPcs, MutationPcs
    <2>2. pc[u] \in {"attach", "rec_attach", "rec_detach"} => arg[u] \in Readers
      BY DEF OwnershipInv, OpShape, BlockPcs
    <2>3. QED
      BY <1>1, <1>2, <1>3, <1>4, <2>1, <2>2, Constants DEF CapacityInv, Informed, Agrees
  <1>7. QED
    BY <1>2, <1>5, <1>6, InRange DEF CapacityInv

\* The change copies the topology callback, and with it the registration that
\* owns the reader; without a callback the change is overlooked.
LEMMA BlockCopyKeepsCapacity ==
    ASSUME TypeOK, OwnershipInv, CapacityInv, NEW t \in Clients, BlockCopy(t)
    PROVE  CapacityInv'
  <1>1. /\ pc[t] = "block_copy" /\ op[t] = "block" /\ arg[t] \in Readers
        /\ \A u \in Threads : u # t => pc'[u] = pc[u] /\ cur'[u] = cur[u]
        /\ pc'[t] \in {"block_lock", "notify_lock"}
    BY Constants DEF BlockCopy, Goto, TypeOK, PcType, CallType, OwnershipInv, OpShape, BlockPcs
  <1>2. UNCHANGED <<op, arg, listed, phase, target, attached, blocking, poisoned>>
    BY DEF BlockCopy, regVars
  <1>3. overlooked \subseteq overlooked'
    BY DEF BlockCopy
  <1>4. \A u \in Threads, n \in Regs : u # t /\ Changing(u, n) => Changing(u, n)'
    BY <1>1, <1>2 DEF Changing
  <1>5. \A n \in Regs : target[n] = arg[t] /\ (arg[t] \in topologyCb => owner[arg[t]] = n)
          => Changing(t, n)' \/ target[n] \in overlooked'
    BY <1>1, <1>2, Constants DEF BlockCopy, Goto, TypeOK, PcType, CallType, Changing, ChangePcs
  <1>6. \A n \in Regs : Changing(t, n) => target[n] = arg[t]
    BY DEF Changing
  <1>7. \A n \in Regs : /\ Matched(n)
                        /\ target[n] = arg[t] => (arg[t] \in topologyCb => owner[arg[t]] = n)
                        => Matched(n)'
    BY <1>1, <1>2, <1>3, <1>4, <1>5, <1>6 DEF Matched, Agrees
  <1>8. \A n \in listed : phase[n] = "Attached" /\ target[n] = arg[t] => owner[arg[t]] = n
    BY DEF OwnershipInv, Owned
  <1>9. ASSUME NEW u \in Threads, u # t PROVE Informed(u)'
    <2>1. pc[u] \in {"attach", "rec_attach", "rec_detach"} \/ pc[u] \in {"claimed", "insert"}
            => /\ cur[u] \in Regs
               /\ target[cur[u]] = arg[t] => (arg[t] \in topologyCb => owner[arg[t]] = cur[u])
      BY <1>1, Constants, InRange DEF OwnershipInv, OpShape, Named, Claiming, Owned, BlockPinned,
         BlockPcs, WorkPcs, MutationPcs
    <2>2. QED
      BY <1>1, <1>2, <1>3, <1>4, <1>5, <1>6, <1>9, <2>1 DEF CapacityInv, Informed, Agrees
  <1>10. Informed(t)'
    BY <1>1 DEF Informed
  <1>11. QED
    BY <1>2, <1>7, <1>8, <1>9, <1>10, InRange DEF CapacityInv

\* A change that meets a registration being detached gives up.
LEMMA BlockLockKeepsCapacity ==
    ASSUME TypeOK, OwnershipInv, CapacityInv, NEW t \in Clients, BlockLock(t),
           phase[cur[t]] # "Attached"
    PROVE  CapacityInv'
  <1>1. /\ pc[t] = "block_lock" /\ op[t] = "block" /\ conditions[cur[t]] = NoThread
        /\ pc'[t] = "notify_lock" /\ \A u \in Threads : u # t => pc'[u] = pc[u]
    BY Constants DEF BlockLock, Goto, TypeOK, PcType, OwnershipInv, OpShape, BlockPcs
  <1>2. UNCHANGED <<op, arg, cur, listed, phase, target, attached, blocking, overlooked, poisoned>>
    BY DEF BlockLock, regVars, callVars, readerVars
  <1>3. \A u \in Threads, n \in Regs : n # cur[t] /\ Changing(u, n) => Changing(u, n)'
    BY <1>1, <1>2 DEF Changing
  <1>4. \A n \in Regs : n # cur[t] /\ Matched(n) => Matched(n)'
    BY <1>1, <1>2, <1>3 DEF Matched, Agrees
  <1>5. ASSUME NEW u \in Threads, u # t PROVE Informed(u)'
    <2>1. pc[u] \in {"attach", "rec_attach", "rec_detach"} \/ (pc[u] \in {"claimed", "insert"} /\ arg[u] \in Readers)
            => cur[u] \in Regs /\ cur[u] # cur[t]
      BY <1>1, <1>5, Constants, InRange DEF OwnershipInv, OpShape, Locks, Fresh, Unpublished,
         AddPcs, BlockPcs, WorkPcs, MutationPcs
    <2>2. QED
      BY <1>1, <1>2, <1>3, <1>5, <2>1 DEF CapacityInv, Informed, Agrees
  <1>6. Informed(t)'
    BY <1>1 DEF Informed
  <1>7. QED
    BY <1>2, <1>4, <1>5, <1>6, InRange DEF CapacityInv

\* reconcile_reader_condition looks at the flag: what was overlooked is made good.
LEMMA ReconcileKeepsCapacity ==
    ASSUME TypeOK, OwnershipInv, CapacityInv, NEW t \in Clients, Reconcile(t)
    PROVE  CapacityInv'
  <1>1. /\ pc[t] = "reconcile" /\ op[t] = "block" /\ arg[t] \in Readers
        /\ cur[t] \in Regs /\ target[cur[t]] = arg[t] /\ owner[arg[t]] = cur[t]
        /\ conditions[cur[t]] = t
    BY Constants, InRange DEF Reconcile, OwnershipInv, OpShape, Named, Locks, BlockPinned, BlockPcs,
       WorkPcs, MutationPcs
  <1>2. /\ pc'[t] = ReconcileStep(arg[t], cur[t]) /\ \A u \in Threads : u # t => pc'[u] = pc[u]
        /\ overlooked' = overlooked \ {arg[t]}
    BY Constants DEF Reconcile, Goto, TypeOK, PcType
  <1>3. UNCHANGED <<op, arg, cur, listed, phase, target, attached, blocking, poisoned>>
    BY DEF Reconcile, regVars, callVars
  <1>4. \A u \in Threads, n \in Regs : n # cur[t] /\ Changing(u, n) => Changing(u, n)'
    BY <1>1, <1>2, <1>3 DEF Changing
  <1>5. \A n \in Regs : target[n] # arg[t] /\ Matched(n) => Matched(n)'
    BY <1>1, <1>2, <1>3, <1>4 DEF Matched, Agrees
  <1>6. Matched(cur[t])'
    BY <1>1, <1>2, <1>3, Constants DEF Matched, Agrees, ReconcileStep, TypeOK, ReaderType
  <1>7. \A n \in listed : phase[n] = "Attached" /\ target[n] = arg[t] => n = cur[t]
    BY <1>1 DEF OwnershipInv, Owned
  <1>8. ASSUME NEW u \in Threads, u # t PROVE Informed(u)'
    <2>1. pc[u] \in {"attach", "rec_attach", "rec_detach"} \/ (pc[u] \in {"claimed", "insert"} /\ arg[u] \in Readers)
            => cur[u] \in Regs /\ cur[u] # cur[t] /\ target[cur[u]] # arg[t]
      <3>1. CASE pc[u] \in {"rec_attach", "rec_detach"}
        BY <1>1, <1>8, <3>1, Constants, InRange DEF OwnershipInv, OpShape, Named, Locks, BlockPinned,
           BlockPcs, WorkPcs, MutationPcs
      <3>2. CASE pc[u] \in {"attach", "claimed"} \/ (pc[u] = "insert" /\ arg[u] \in Readers)
        <4>1. Unpublished(u) /\ cur[u] \in Regs /\ target[cur[u]] = arg[u]
          BY <3>2, InRange, Constants DEF Unpublished, OwnershipInv, OpShape, Named, AddPcs, WorkPcs,
             MutationPcs
        <4>2. cur[t] # cur[u] /\ phase[cur[u]] = "Attached"
          BY <1>8, <4>1, Constants DEF OwnershipInv, Fresh
        <4>3. QED
          BY <1>1, <3>2, <4>1, <4>2, Constants DEF OwnershipInv, Claiming
      <3>3. QED
        BY <3>1, <3>2
    <2>2. QED
      BY <1>1, <1>2, <1>3, <1>4, <1>8, <2>1 DEF CapacityInv, Informed, Agrees
  <1>9. Informed(t)'
    BY <1>1, <1>2, <1>3 DEF Informed, Agrees, ReconcileStep, TypeOK, ReaderType
  <1>10. QED
    BY <1>3, <1>5, <1>6, <1>7, <1>8, <1>9, InRange DEF CapacityInv

\* The native attach or detach of a capacity change; a failure poisons the set.
LEMMA ReconcileNativeKeepsCapacity ==
    ASSUME TypeOK, OwnershipInv, CapacityInv, NEW t \in Clients, ReconcileNative(t)
    PROVE  CapacityInv'
  <1>1. /\ pc[t] \in {"rec_attach", "rec_detach"} /\ op[t] = "block" /\ arg[t] \in Readers
        /\ cur[t] \in Regs /\ target[cur[t]] = arg[t] /\ conditions[cur[t]] = t
    BY Constants, InRange DEF ReconcileNative, OwnershipInv, OpShape, Named, Locks, BlockPcs,
       WorkPcs, MutationPcs
  <1>2. /\ \A u \in Threads : u # t => pc'[u] = pc[u]
        /\ \/ pc'[t] = "poison" /\ attached' = attached
           \/ /\ pc'[t] = "end_topology"
              /\ attached' = IF pc[t] = "rec_attach" THEN attached \union {cur[t]} ELSE attached \ {cur[t]}
    BY Constants DEF ReconcileNative, Goto, TypeOK, PcType
  <1>3. UNCHANGED <<op, arg, cur, listed, phase, target, blocking, overlooked, poisoned>>
    BY DEF ReconcileNative, callVars, readerVars
  <1>4. \A u \in Threads, n \in Regs : Changing(u, n) => Changing(u, n)'
    BY <1>1, <1>2, <1>3 DEF Changing, ChangePcs
  <1>5. \A n \in Regs : n # cur[t] /\ Matched(n) => Matched(n)'
    BY <1>1, <1>2, <1>3, <1>4 DEF Matched, Agrees
  <1>6. Matched(cur[t])'
    <2>1. CASE pc'[t] = "poison"
      BY <1>3, <2>1, Constants DEF Matched
    <2>2. CASE pc'[t] # "poison"
      <3>1. CASE pc[t] = "rec_attach"
        <4>1. Agrees(cur[t], TRUE) /\ cur[t] \in attached'
          BY <1>2, <2>2, <3>1, Constants DEF CapacityInv, Informed
        <4>2. QED
          BY <1>1, <1>3, <1>4, <4>1 DEF Matched, Agrees
      <3>2. CASE pc[t] = "rec_detach"
        <4>1. Agrees(cur[t], FALSE) /\ cur[t] \notin attached'
          BY <1>2, <2>2, <3>2, Constants DEF CapacityInv, Informed
        <4>2. QED
          BY <1>1, <1>3, <1>4, <4>1 DEF Matched, Agrees, TypeOK, ReaderType
      <3>3. QED
        BY <1>1, <3>1, <3>2
    <2>3. QED
      BY <2>1, <2>2
  <1>7. ASSUME NEW u \in Threads, u # t PROVE Informed(u)'
    <2>1. pc[u] \in {"attach", "rec_attach", "rec_detach"} \/ (pc[u] \in {"claimed", "insert"} /\ arg[u] \in Readers)
            => cur[u] \in Regs /\ cur[u] # cur[t]
      BY <1>1, <1>7, Constants, InRange DEF OwnershipInv, OpShape, Locks, Fresh, Unpublished,
         AddPcs, BlockPcs, WorkPcs, MutationPcs
    <2>2. QED
      BY <1>1, <1>2, <1>3, <1>4, <1>7, <2>1 DEF CapacityInv, Informed, Agrees
  <1>8. Informed(t)'
    BY <1>2 DEF Informed
  <1>9. QED
    BY <1>3, <1>5, <1>6, <1>7, <1>8, InRange DEF CapacityInv

\* A poisoned set promises nothing about its conditions any more.
LEMMA PoisonKeepsCapacity ==
    ASSUME TypeOK, OwnershipInv, CapacityInv, NEW t \in Threads, Poison(t)
    PROVE  CapacityInv'
  <1>1. /\ pc[t] = "poison" /\ pc'[t] = "end_topology" /\ \A u \in Threads : u # t => pc'[u] = pc[u]
        /\ poisoned'
    BY DEF Poison, Goto, TypeOK, PcType
  <1>2. UNCHANGED <<op, arg, cur, listed, phase, target, attached, blocking, overlooked>>
    BY DEF Poison, regVars, callVars, readerVars
  <1>3. \A u \in Threads, n \in Regs : Changing(u, n) => Changing(u, n)'
    BY <1>1, <1>2 DEF Changing, ChangePcs
  <1>4. \A n \in Regs : Matched(n)'
    BY <1>1 DEF Matched
  <1>5. ASSUME NEW u \in Threads PROVE Informed(u)'
    <2>1. pc[u] \in {"attach", "rec_attach", "rec_detach", "claimed", "insert"} => cur[u] \in Regs
      BY InRange DEF WorkPcs, MutationPcs
    <2>2. QED
      BY <1>1, <1>2, <1>3, <2>1 DEF CapacityInv, Informed, Agrees
  <1>6. QED
    BY <1>2, <1>4, <1>5, InRange DEF CapacityInv

\* A native detach: the registration is on its way out, or the set is poisoned.
LEMMA DetachNativeKeepsCapacity ==
    ASSUME TypeOK, OwnershipInv, CapacityInv, NEW t \in Threads, DetachNative(t)
    PROVE  CapacityInv'
  <1>1. /\ pc[t] = "detach" /\ op[t] # "add" /\ cur[t] \in Regs /\ conditions[cur[t]] = t
        /\ phase[cur[t]] = "Detaching"
    BY Constants, InRange DEF DetachNative, OwnershipInv, OpShape, Locks, DetachAlone, Detaching,
       DetachPcs, WorkPcs, MutationPcs
  <1>2. /\ \A u \in Threads : u # t => pc'[u] = pc[u]
        /\ \/ pc'[t] = "unclaim" /\ attached' = attached \ {cur[t]} /\ phase' = phase
           \/ /\ pc'[t] = "poison" /\ attached' = attached
              /\ \A n \in Regs : n # cur[t] => phase'[n] = phase[n]
    BY Constants DEF DetachNative, Goto, TypeOK, PcType, RegistrationType
  <1>3. UNCHANGED <<op, arg, cur, listed, target, blocking, overlooked, poisoned>>
    BY DEF DetachNative, callVars, readerVars
  <1>4. \A u \in Threads, n \in Regs : Changing(u, n) => Changing(u, n)'
    BY <1>1, <1>2, <1>3 DEF Changing, ChangePcs
  <1>5. \A n \in Regs : n # cur[t] /\ Matched(n) => Matched(n)'
    BY <1>1, <1>2, <1>3, <1>4 DEF Matched, Agrees
  <1>6. pc'[t] = "poison" => Matched(cur[t])'
    BY <1>3, Constants DEF Matched
  <1>7. \A n \in Regs : n = cur[t] /\ phase'[n] = "Attached" => pc'[t] = "poison"
    BY <1>1, <1>2
  <1>8. ASSUME NEW u \in Threads, u # t PROVE Informed(u)'
    <2>1. pc[u] \in {"attach", "rec_attach", "rec_detach"} \/ (pc[u] \in {"claimed", "insert"} /\ arg[u] \in Readers)
            => cur[u] \in Regs /\ cur[u] # cur[t]
      BY <1>1, <1>8, Constants, InRange DEF OwnershipInv, OpShape, Locks, Fresh, Unpublished,
         AddPcs, BlockPcs, WorkPcs, MutationPcs
    <2>2. QED
      BY <1>1, <1>2, <1>3, <1>4, <1>8, <2>1 DEF CapacityInv, Informed, Agrees
  <1>9. Informed(t)'
    BY <1>2 DEF Informed
  <1>10. QED
    BY <1>2, <1>3, <1>5, <1>6, <1>7, <1>8, <1>9, InRange DEF CapacityInv

\* The registration object add() creates is a new one.
LEMMA CreateKeepsOlder ==
    ASSUME TypeOK, NEW t \in Clients, AddLock(t), NEW n \in 1..created
    PROVE  phase'[n] = phase[n] /\ target'[n] = target[n]
  <1>1. created \in Nat /\ n \in Regs /\ n # created + 1
    BY Constants DEF TypeOK, RegistrationType
  <1>2. QED
    BY <1>1 DEF AddLock, TypeOK, RegistrationType

\* The invariant is about these variables only.
LEMMA StutterKeepsCapacity ==
    ASSUME CapacityInv,
           UNCHANGED <<pc, op, arg, cur, listed, phase, target, attached, blocking, overlooked,
                       poisoned>>
    PROVE  CapacityInv'
  BY DEF CapacityInv, Matched, Informed, Agrees, Changing

\* Every step keeps the capacity invariant.
LEMMA CapacityNext == TypeOK /\ OwnershipInv /\ CapacityInv /\ [Next]_vars => CapacityInv'
  <1>1. ASSUME TypeOK, OwnershipInv, CapacityInv, NEW t \in Threads, Publish(t) PROVE CapacityInv'
    <2>1. CapacityFrame(t)
      BY Constants, <1>1 DEF Publish, Goto, CapacityFrame, ChangePcs, TypeOK,
         CallType, PcType, regVars, callVars, readerVars
    <2>2. QED
      BY Constants, <1>1, <2>1, FrameKeepsCapacity
  <1>2. ASSUME TypeOK, OwnershipInv, CapacityInv, NEW t \in Threads, MutBump(t) PROVE CapacityInv'
    <2>1. CapacityFrame(t)
      BY Constants, <1>2 DEF MutBump, Bump, Goto, CapacityFrame, ChangePcs, TypeOK,
         CallType, PcType, regVars, callVars, readerVars
    <2>2. QED
      BY Constants, <1>2, <2>1, FrameKeepsCapacity
  <1>3. ASSUME TypeOK, OwnershipInv, CapacityInv, NEW t \in Threads, MutWake(t) PROVE CapacityInv'
    <2>1. CapacityFrame(t)
      BY Constants, InRange, <1>3 DEF MutWake, SetControl, Body, Goto, CapacityFrame,
         ChangePcs, TypeOK, CallType, PcType, OwnershipInv, OpShape, WorkPcs,
         DetachPcs, BlockPcs, AddPcs, Bracket, MutationPcs, regVars, callVars,
         readerVars
    <2>2. QED
      BY Constants, <1>3, <2>1, FrameKeepsCapacity
  <1>4. ASSUME TypeOK, OwnershipInv, CapacityInv,
               NEW t \in Threads, EndTopology(t) PROVE CapacityInv'
    <2>1. CapacityFrame(t)
      BY Constants, <1>4 DEF EndTopology, Goto, CapacityFrame, ChangePcs, TypeOK,
         CallType, PcType, regVars, callVars, readerVars
    <2>2. QED
      BY Constants, <1>4, <2>1, FrameKeepsCapacity
  <1>5. ASSUME TypeOK, OwnershipInv, CapacityInv, NEW t \in Threads, Retire(t) PROVE CapacityInv'
    <2>1. CapacityFrame(t)
      BY Constants, <1>5 DEF Retire, Goto, CapacityFrame, ChangePcs, TypeOK, CallType,
         PcType, regVars, callVars, readerVars
    <2>2. QED
      BY Constants, <1>5, <2>1, FrameKeepsCapacity
  <1>6. ASSUME TypeOK, OwnershipInv, CapacityInv, NEW t \in Threads, EndBump(t) PROVE CapacityInv'
    <2>1. CapacityFrame(t)
      BY Constants, <1>6 DEF EndBump, Bump, Goto, CapacityFrame, ChangePcs, TypeOK,
         CallType, PcType, regVars, callVars, readerVars
    <2>2. QED
      BY Constants, <1>6, <2>1, FrameKeepsCapacity
  <1>7. ASSUME TypeOK, OwnershipInv, CapacityInv, NEW t \in Threads, EndWake(t) PROVE CapacityInv'
    <2>1. CapacityFrame(t)
      BY Constants, InRange, <1>7 DEF EndWake, SetControl, Goto, CapacityFrame,
         ChangePcs, TypeOK, CallType, PcType, OwnershipInv, OpShape, WorkPcs,
         DetachPcs, BlockPcs, AddPcs, Bracket, MutationPcs, regVars, callVars,
         readerVars
    <2>2. QED
      BY Constants, <1>7, <2>1, FrameKeepsCapacity
  <1>8. ASSUME TypeOK, OwnershipInv, CapacityInv, NEW t \in Threads, Poison(t) PROVE CapacityInv'
    BY <1>8, PoisonKeepsCapacity
  <1>9. ASSUME TypeOK, OwnershipInv, CapacityInv,
               NEW t \in Threads, DetachCas(t) PROVE CapacityInv'
    <2>1. CapacityFrame(t)
      BY Constants, InRange, <1>9 DEF DetachCas, AfterDetach, Goto, CapacityFrame,
         ChangePcs, TypeOK, CallType, PcType, OwnershipInv, OpShape, WorkPcs,
         DetachPcs, BlockPcs, AddPcs, Bracket, MutationPcs, Numbered,
         RegistrationType, regVars, callVars, readerVars
    <2>2. QED
      BY Constants, <1>9, <2>1, FrameKeepsCapacity
  <1>10. ASSUME TypeOK, OwnershipInv, CapacityInv,
                NEW t \in Threads, DetachLock(t) PROVE CapacityInv'
    <2>1. CapacityFrame(t)
      BY Constants, <1>10 DEF DetachLock, Goto, CapacityFrame, ChangePcs, TypeOK,
         CallType, PcType, regVars, callVars, readerVars
    <2>2. QED
      BY Constants, <1>10, <2>1, FrameKeepsCapacity
  <1>11. ASSUME TypeOK, OwnershipInv, CapacityInv,
                NEW t \in Threads, Release(t) PROVE CapacityInv'
    <2>1. CapacityFrame(t)
      BY Constants, InRange, <1>11 DEF Release, ReleaseStep, Goto, CapacityFrame,
         ChangePcs, TypeOK, CallType, PcType, OwnershipInv, OpShape, WorkPcs,
         DetachPcs, BlockPcs, AddPcs, Bracket, MutationPcs, regVars, callVars,
         readerVars
    <2>2. QED
      BY Constants, <1>11, <2>1, FrameKeepsCapacity
  <1>12. ASSUME TypeOK, OwnershipInv, CapacityInv,
                NEW t \in Threads, DetachNative(t) PROVE CapacityInv'
    BY <1>12, DetachNativeKeepsCapacity
  <1>13. ASSUME TypeOK, OwnershipInv, CapacityInv,
                NEW t \in Threads, Unclaim(t) PROVE CapacityInv'
    <2>1. CapacityFrame(t)
      BY Constants, <1>13 DEF Unclaim, Goto, CapacityFrame, ChangePcs, TypeOK,
         CallType, PcType, regVars, callVars, readerVars
    <2>2. QED
      BY Constants, <1>13, <2>1, FrameKeepsCapacity
  <1>14. ASSUME TypeOK, OwnershipInv, CapacityInv, NEW t \in Threads, Erase(t) PROVE CapacityInv'
    <2>1. CapacityFrame(t)
      BY Constants, InRange, <1>14 DEF Erase, Goto, CapacityFrame, ChangePcs, TypeOK,
         CallType, PcType, OwnershipInv, Numbered, RegistrationType, WorkPcs,
         MutationPcs, regVars, callVars, readerVars
    <2>2. QED
      BY Constants, <1>14, <2>1, FrameKeepsCapacity
  <1>15. ASSUME TypeOK, OwnershipInv, CapacityInv,
                NEW t \in Threads, DetachUnlock(t) PROVE CapacityInv'
    <2>1. CapacityFrame(t)
      BY Constants, InRange, <1>15 DEF DetachUnlock, AfterDetach, Goto, CapacityFrame,
         ChangePcs, TypeOK, CallType, PcType, OwnershipInv, OpShape, WorkPcs,
         DetachPcs, BlockPcs, AddPcs, Bracket, MutationPcs, regVars, callVars,
         readerVars
    <2>2. QED
      BY Constants, <1>15, <2>1, FrameKeepsCapacity
  <1>16. ASSUME TypeOK, OwnershipInv, CapacityInv,
                NEW t \in Clients, CloseCopy(t) PROVE CapacityInv'
    <2>1. CapacityFrame(t)
      BY Constants, <1>16 DEF CloseCopy, Goto, CapacityFrame, ChangePcs, TypeOK,
         CallType, PcType, regVars, callVars, readerVars
    <2>2. QED
      BY Constants, <1>16, <2>1, FrameKeepsCapacity
  <1>17. ASSUME TypeOK, OwnershipInv, CapacityInv,
                NEW t \in Clients, AddLock(t) PROVE CapacityInv'
    <2>1. /\ \A u \in Threads : u # t => pc'[u] = pc[u] /\ cur'[u] = cur[u]
          /\ pc[t] = "add_lock" /\ op[t] = "add" /\ pc'[t] \in {"publish", "op_end"}
      BY Constants, <1>17 DEF AddLock, Goto, TypeOK, PcType, CallType, OwnershipInv, OpShape, AddPcs
    <2>2. \A n \in 1..created : phase'[n] = phase[n] /\ target'[n] = target[n]
      BY <1>17, CreateKeepsOlder
    <2>3. UNCHANGED <<op, arg, listed, attached, blocking, overlooked, poisoned>>
      BY <1>17 DEF AddLock, readerVars
    <2>4. CapacityFrame(t)
      BY <2>1, <2>2, <2>3, <1>17 DEF CapacityFrame, OwnershipInv, Numbered
    <2>5. QED
      BY Constants, <1>17, <2>4, FrameKeepsCapacity
  <1>18. ASSUME TypeOK, OwnershipInv, CapacityInv, NEW t \in Clients, Claim(t) PROVE CapacityInv'
    <2>1. CASE CanClaim(arg[t]) /\ arg[t] \notin Guards
      BY <1>18, <2>1, ClaimKeepsCapacity
    <2>2. CASE ~(CanClaim(arg[t]) /\ arg[t] \notin Guards)
      <3>1. CapacityFrame(t)
        BY Constants, InRange, <1>18, <2>2 DEF Claim, CanClaim, Goto, CapacityFrame,
           ChangePcs, TypeOK, CallType, PcType, OwnershipInv, OpShape, WorkPcs,
           DetachPcs, BlockPcs, AddPcs, Bracket, MutationPcs, regVars, callVars,
           readerVars
      <3>2. QED
        BY Constants, <1>18, <2>2, <3>1, FrameKeepsCapacity
    <2>3. QED
      BY <2>1, <2>2
  <1>19. ASSUME TypeOK, OwnershipInv, CapacityInv,
                NEW t \in Clients, AttachReader(t) PROVE CapacityInv'
    <2>1. CASE attached' = attached \union {cur[t]} /\ Goto(t, "claimed")
      BY <1>19, <2>1, AttachKeepsCapacity
    <2>2. CASE attached' = attached /\ Goto(t, "end_topology")
      <3>1. CapacityFrame(t)
        BY Constants, <1>19, <2>2 DEF AttachReader, Goto, CapacityFrame, ChangePcs,
           TypeOK, CallType, PcType, regVars, callVars, readerVars
      <3>2. QED
        BY Constants, <1>19, <2>2, <3>1, FrameKeepsCapacity
    <2>3. QED
      BY <1>19, <2>1, <2>2 DEF AttachReader
  <1>20. ASSUME TypeOK, OwnershipInv, CapacityInv,
                NEW t \in Clients, Claimed(t) PROVE CapacityInv'
    BY <1>20, ClaimedKeepsCapacity
  <1>21. ASSUME TypeOK, OwnershipInv, CapacityInv, NEW t \in Clients, Insert(t) PROVE CapacityInv'
    <2>1. CASE phase[cur[t]] = "Attached"
      BY <1>21, <2>1, InsertKeepsCapacity
    <2>2. CASE phase[cur[t]] # "Attached"
      <3>1. CapacityFrame(t)
        BY Constants, InRange, <1>21, <2>2 DEF Insert, Goto, CapacityFrame,
           ChangePcs, TypeOK, CallType, PcType, OwnershipInv, OpShape, WorkPcs,
           DetachPcs, BlockPcs, AddPcs, Bracket, MutationPcs, regVars, callVars,
           readerVars
      <3>2. QED
        BY Constants, <1>21, <2>2, <3>1, FrameKeepsCapacity
    <2>3. QED
      BY <2>1, <2>2
  <1>22. ASSUME TypeOK, OwnershipInv, CapacityInv,
                NEW t \in Clients, AddUnlock(t) PROVE CapacityInv'
    <2>1. CapacityFrame(t)
      BY Constants, <1>22 DEF AddUnlock, Goto, CapacityFrame, ChangePcs, TypeOK,
         CallType, PcType, regVars, callVars, readerVars
    <2>2. QED
      BY Constants, <1>22, <2>1, FrameKeepsCapacity
  <1>23. ASSUME TypeOK, OwnershipInv, CapacityInv,
                NEW t \in Clients, RemoveFind(t) PROVE CapacityInv'
    <2>1. CapacityFrame(t)
      BY Constants, <1>23 DEF RemoveFind, Goto, CapacityFrame, ChangePcs, TypeOK,
         CallType, PcType, regVars, callVars, readerVars
    <2>2. QED
      BY Constants, <1>23, <2>1, FrameKeepsCapacity
  <1>24. ASSUME TypeOK, OwnershipInv, CapacityInv,
                NEW t \in Clients, BlockCopy(t) PROVE CapacityInv'
    BY <1>24, BlockCopyKeepsCapacity
  <1>25. ASSUME TypeOK, OwnershipInv, CapacityInv,
                NEW t \in Clients, BlockLock(t) PROVE CapacityInv'
    <2>1. CASE phase[cur[t]] # "Attached"
      BY <1>25, <2>1, BlockLockKeepsCapacity
    <2>2. CASE phase[cur[t]] = "Attached"
      <3>1. CapacityFrame(t)
        BY Constants, <1>25, <2>2 DEF BlockLock, Goto, CapacityFrame, ChangePcs,
           TypeOK, CallType, PcType, regVars, callVars, readerVars
      <3>2. QED
        BY Constants, <1>25, <2>2, <3>1, FrameKeepsCapacity
    <2>3. QED
      BY <2>1, <2>2
  <1>26. ASSUME TypeOK, OwnershipInv, CapacityInv,
                NEW t \in Clients, Reconcile(t) PROVE CapacityInv'
    BY <1>26, ReconcileKeepsCapacity
  <1>27. ASSUME TypeOK, OwnershipInv, CapacityInv,
                NEW t \in Clients, ReconcileNative(t) PROVE CapacityInv'
    BY <1>27, ReconcileNativeKeepsCapacity
  <1>28. ASSUME TypeOK, OwnershipInv, CapacityInv,
                NEW w \in Waiters, Snapshot(w) PROVE CapacityInv'
    <2>1. CapacityFrame(w)
      BY Constants, <1>28 DEF Snapshot, Goto, CapacityFrame, ChangePcs, TypeOK,
         CallType, PcType, regVars, callVars, readerVars
    <2>2. QED
      BY Constants, <1>28, <2>1, FrameKeepsCapacity
  <1>29. ASSUME TypeOK, OwnershipInv, CapacityInv,
                NEW w \in Waiters, NEW n \in Regs, Scan(w, n) PROVE CapacityInv'
    <2>1. CapacityFrame(w)
      BY Constants, <1>29 DEF Scan, Goto, CapacityFrame, ChangePcs, TypeOK, CallType,
         PcType, regVars, callVars, readerVars
    <2>2. QED
      BY Constants, <1>29, <2>1, FrameKeepsCapacity
  <1>30. ASSUME TypeOK, OwnershipInv, CapacityInv,
                NEW t \in Clients, NEW g \in Guards, CloseGuard(t, g) PROVE CapacityInv'
    <2>1. CapacityFrame(t)
      BY Constants, <1>30 DEF CloseGuard, Goto, CapacityFrame, ChangePcs, TypeOK,
         CallType, PcType, regVars, callVars, readerVars
    <2>2. QED
      BY Constants, <1>30, <2>1, FrameKeepsCapacity
  <1>31. ASSUME TypeOK, OwnershipInv, CapacityInv,
                NEW t \in Clients, NEW x \in Waitables, Add(t, x) PROVE CapacityInv'
    <2>1. CapacityFrame(t)
      BY Constants, <1>31 DEF Add, Begin, CapacityFrame, ChangePcs, TypeOK, CallType,
         PcType, regVars, callVars, readerVars
    <2>2. QED
      BY Constants, <1>31, <2>1, FrameKeepsCapacity
  <1>32. ASSUME TypeOK, OwnershipInv, CapacityInv,
                NEW t \in Clients, NEW n \in Regs, Remove(t, n) PROVE CapacityInv'
    <2>1. CapacityFrame(t)
      BY Constants, InRange, <1>32 DEF Remove, Begin, CapacityFrame, ChangePcs,
         TypeOK, CallType, PcType, OwnershipInv, Numbered, RegistrationType, WorkPcs,
         MutationPcs, regVars, callVars, readerVars
    <2>2. QED
      BY Constants, <1>32, <2>1, FrameKeepsCapacity
  <1>33. ASSUME TypeOK, OwnershipInv, CapacityInv,
                NEW t \in Clients, NEW r \in Readers, SetBlocking(t, r) PROVE CapacityInv'
    <2>1. CASE ~shutdown
      BY <1>33, <2>1, SetBlockingKeepsCapacity
    <2>2. CASE shutdown
      <3>1. CapacityFrame(t)
        BY Constants, <1>33, <2>2 DEF SetBlocking, Begin, CapacityFrame, ChangePcs,
           TypeOK, CallType, PcType, regVars, callVars, readerVars
      <3>2. QED
        BY Constants, <1>33, <2>2, <3>1, FrameKeepsCapacity
    <2>3. QED
      BY <2>1, <2>2
  <1>34. ASSUME TypeOK, OwnershipInv, CapacityInv, NEW t \in Threads, OpEnd(t) PROVE CapacityInv'
    <2>1. CapacityFrame(t)
      BY Constants, InRange, <1>34 DEF OpEnd, Goto, CapacityFrame, ChangePcs, TypeOK,
         CallType, PcType, OwnershipInv, OpShape, WorkPcs, DetachPcs, BlockPcs,
         AddPcs, Bracket, MutationPcs, regVars, callVars, readerVars
    <2>2. QED
      BY Constants, <1>34, <2>1, FrameKeepsCapacity
  <1>35. ASSUME TypeOK, OwnershipInv, CapacityInv,
                NEW t \in Clients, StageTrigger(t) PROVE CapacityInv'
    <2>1. CapacityFrame(t)
      BY Constants, <1>35 DEF StageTrigger, Exhausted, Goto, CapacityFrame, ChangePcs,
         TypeOK, CallType, PcType, regVars, callVars, readerVars
    <2>2. QED
      BY Constants, <1>35, <2>1, FrameKeepsCapacity
  <1>36. ASSUME TypeOK, OwnershipInv, CapacityInv,
                NEW t \in Clients, NotifyLock(t) PROVE CapacityInv'
    <2>1. CapacityFrame(t)
      BY Constants, <1>36 DEF NotifyLock, Bump, Goto, CapacityFrame, ChangePcs,
         TypeOK, CallType, PcType, regVars, callVars, readerVars
    <2>2. QED
      BY Constants, <1>36, <2>1, FrameKeepsCapacity
  <1>37. ASSUME TypeOK, OwnershipInv, CapacityInv,
                NEW t \in Clients, NotifyWake(t) PROVE CapacityInv'
    <2>1. CapacityFrame(t)
      BY Constants, <1>37 DEF NotifyWake, SetControl, Goto, CapacityFrame, ChangePcs,
         TypeOK, CallType, PcType, regVars, callVars, readerVars
    <2>2. QED
      BY Constants, <1>37, <2>1, FrameKeepsCapacity
  <1>38. ASSUME TypeOK, OwnershipInv, CapacityInv,
                NEW t \in Clients, Children(t) PROVE CapacityInv'
    <2>1. CapacityFrame(t)
      BY Constants, <1>38 DEF Children, Bump, Goto, CapacityFrame, ChangePcs, TypeOK,
         CallType, PcType, regVars, callVars, readerVars
    <2>2. QED
      BY Constants, <1>38, <2>1, FrameKeepsCapacity
  <1>39. ASSUME TypeOK, OwnershipInv, CapacityInv,
                NEW t \in Clients, ChildrenWake(t) PROVE CapacityInv'
    <2>1. CapacityFrame(t)
      BY Constants, <1>39 DEF ChildrenWake, SetControl, Goto, CapacityFrame,
         ChangePcs, TypeOK, CallType, PcType, regVars, callVars, readerVars
    <2>2. QED
      BY Constants, <1>39, <2>1, FrameKeepsCapacity
  <1>40. ASSUME TypeOK, OwnershipInv, CapacityInv, NEW t \in Clients, Drain(t) PROVE CapacityInv'
    <2>1. CapacityFrame(t)
      BY Constants, <1>40 DEF Drain, Goto, CapacityFrame, ChangePcs, TypeOK, CallType,
         PcType, regVars, callVars, readerVars
    <2>2. QED
      BY Constants, <1>40, <2>1, FrameKeepsCapacity
  <1>41. ASSUME TypeOK, OwnershipInv, CapacityInv,
                NEW w \in Waiters, BeginWait(w) PROVE CapacityInv'
    <2>1. CapacityFrame(w)
      BY Constants, <1>41 DEF BeginWait, Goto, CapacityFrame, ChangePcs, TypeOK,
         CallType, PcType, regVars, callVars, readerVars
    <2>2. QED
      BY Constants, <1>41, <2>1, FrameKeepsCapacity
  <1>42. ASSUME TypeOK, OwnershipInv, CapacityInv, NEW w \in Waiters, Top(w) PROVE CapacityInv'
    <2>1. CapacityFrame(w)
      BY Constants, <1>42 DEF Top, Goto, CapacityFrame, ChangePcs, TypeOK, CallType,
         PcType, regVars, callVars, readerVars
    <2>2. QED
      BY Constants, <1>42, <2>1, FrameKeepsCapacity
  <1>43. ASSUME TypeOK, OwnershipInv, CapacityInv,
                NEW w \in Waiters, IsShutdown(w) PROVE CapacityInv'
    <2>1. CapacityFrame(w)
      BY Constants, <1>43 DEF IsShutdown, Goto, CapacityFrame, ChangePcs, TypeOK,
         CallType, PcType, regVars, callVars, readerVars
    <2>2. QED
      BY Constants, <1>43, <2>1, FrameKeepsCapacity
  <1>44. ASSUME TypeOK, OwnershipInv, CapacityInv,
                NEW w \in Waiters, ObserveTopology(w) PROVE CapacityInv'
    <2>1. CapacityFrame(w)
      BY Constants, <1>44 DEF ObserveTopology, Goto, CapacityFrame, ChangePcs, TypeOK,
         CallType, PcType, regVars, callVars, readerVars
    <2>2. QED
      BY Constants, <1>44, <2>1, FrameKeepsCapacity
  <1>45. ASSUME TypeOK, OwnershipInv, CapacityInv,
                NEW w \in Waiters, ObserveWake(w) PROVE CapacityInv'
    <2>1. CapacityFrame(w)
      BY Constants, <1>45 DEF ObserveWake, Goto, CapacityFrame, ChangePcs, TypeOK,
         CallType, PcType, regVars, callVars, readerVars
    <2>2. QED
      BY Constants, <1>45, <2>1, FrameKeepsCapacity
  <1>46. ASSUME TypeOK, OwnershipInv, CapacityInv, NEW w \in Waiters, Check(w) PROVE CapacityInv'
    <2>1. CapacityFrame(w)
      BY Constants, <1>46 DEF Check, Goto, CapacityFrame, ChangePcs, TypeOK, CallType,
         PcType, regVars, callVars, readerVars
    <2>2. QED
      BY Constants, <1>46, <2>1, FrameKeepsCapacity
  <1>47. ASSUME TypeOK, OwnershipInv, CapacityInv,
                NEW w \in Waiters, Recheck(w) PROVE CapacityInv'
    <2>1. CapacityFrame(w)
      BY Constants, <1>47 DEF Recheck, Goto, CapacityFrame, ChangePcs, TypeOK,
         CallType, PcType, regVars, callVars, readerVars
    <2>2. QED
      BY Constants, <1>47, <2>1, FrameKeepsCapacity
  <1>48. ASSUME TypeOK, OwnershipInv, CapacityInv,
                NEW w \in Waiters, Handoff(w) PROVE CapacityInv'
    <2>1. CapacityFrame(w)
      BY Constants, <1>48 DEF Handoff, Goto, CapacityFrame, ChangePcs, TypeOK,
         CallType, PcType, regVars, callVars, readerVars
    <2>2. QED
      BY Constants, <1>48, <2>1, FrameKeepsCapacity
  <1>49. ASSUME TypeOK, OwnershipInv, CapacityInv,
                NEW w \in Waiters, NativeLock(w) PROVE CapacityInv'
    <2>1. CapacityFrame(w)
      BY Constants, <1>49 DEF NativeLock, Goto, CapacityFrame, ChangePcs, TypeOK,
         CallType, PcType, regVars, callVars, readerVars
    <2>2. QED
      BY Constants, <1>49, <2>1, FrameKeepsCapacity
  <1>50. ASSUME TypeOK, OwnershipInv, CapacityInv,
                NEW w \in Waiters, NativeReturn(w) PROVE CapacityInv'
    <2>1. CapacityFrame(w)
      BY Constants, <1>50 DEF NativeReturn, Goto, CapacityFrame, ChangePcs, TypeOK,
         CallType, PcType, regVars, callVars, readerVars
    <2>2. QED
      BY Constants, <1>50, <2>1, FrameKeepsCapacity
  <1>51. ASSUME TypeOK, OwnershipInv, CapacityInv,
                NEW w \in Waiters, WaitEnd(w) PROVE CapacityInv'
    <2>1. CapacityFrame(w)
      BY Constants, <1>51 DEF WaitEnd, Goto, CapacityFrame, ChangePcs, TypeOK,
         CallType, PcType, regVars, callVars, readerVars
    <2>2. QED
      BY Constants, <1>51, <2>1, FrameKeepsCapacity
  <1>52. ASSUME TypeOK, OwnershipInv, CapacityInv,
                NEW w \in Waiters, NativeFault(w) PROVE CapacityInv'
    <2>1. CapacityFrame(w)
      BY Constants, <1>52 DEF NativeFault, Goto, CapacityFrame, ChangePcs, TypeOK,
         CallType, PcType, regVars, callVars, readerVars
    <2>2. QED
      BY Constants, <1>52, <2>1, FrameKeepsCapacity
  <1>53. ASSUME TypeOK, OwnershipInv, CapacityInv,
                NEW w \in Waiters, NEW k \in Timeouts, Wait(w, k) PROVE CapacityInv'
    <2>1. CapacityFrame(w)
      BY Constants, <1>53 DEF Wait, Goto, CapacityFrame, ChangePcs, TypeOK, CallType,
         PcType, regVars, callVars, readerVars
    <2>2. QED
      BY Constants, <1>53, <2>1, FrameKeepsCapacity
  <1>54. ASSUME TypeOK, OwnershipInv, CapacityInv,
                NEW t \in Clients, NEW g \in Guards, Trigger(t, g) PROVE CapacityInv'
    <2>1. CapacityFrame(t)
      BY Constants, <1>54 DEF Trigger, Begin, CapacityFrame, ChangePcs, TypeOK,
         CallType, PcType, regVars, callVars, readerVars
    <2>2. QED
      BY Constants, <1>54, <2>1, FrameKeepsCapacity
  <1>55. ASSUME TypeOK, OwnershipInv, CapacityInv,
                NEW t \in Clients, Shutdown(t) PROVE CapacityInv'
    <2>1. CapacityFrame(t)
      BY Constants, <1>55 DEF Shutdown, Goto, CapacityFrame, ChangePcs, TypeOK,
         CallType, PcType, regVars, callVars, readerVars
    <2>2. QED
      BY Constants, <1>55, <2>1, FrameKeepsCapacity
  <1>56. ASSUME CapacityInv, NEW w \in Waiters, Expire(w) PROVE CapacityInv'
    BY <1>56, StutterKeepsCapacity DEF Expire, regVars, callVars, readerVars
  <1>57. ASSUME CapacityInv, NEW r \in Readers, DataArrives(r) PROVE CapacityInv'
    BY <1>57, StutterKeepsCapacity DEF DataArrives, regVars, callVars, readerVars
  <1>58. ASSUME CapacityInv, NEW r \in Readers, Take(r) PROVE CapacityInv'
    BY <1>58, StutterKeepsCapacity DEF Take, regVars, callVars, readerVars
  <1>59. ASSUME CapacityInv, UNCHANGED vars PROVE CapacityInv'
    BY <1>59, StutterKeepsCapacity DEF vars, regVars, callVars, readerVars
  <1>60. ASSUME TypeOK, OwnershipInv, CapacityInv,
                NEW t \in Clients, InsertThrows(t) PROVE CapacityInv'
    BY <1>60, TakeBackKeepsCapacity
  <1>61. QED
    BY <1>1, <1>2, <1>3, <1>4, <1>5, <1>6, <1>7, <1>8, <1>9, <1>10, <1>11, <1>12, <1>13,
       <1>14, <1>15, <1>16, <1>17, <1>18, <1>19, <1>20, <1>21, <1>22, <1>23, <1>24,
       <1>25, <1>26, <1>27, <1>28, <1>29, <1>30, <1>31, <1>32, <1>33, <1>34, <1>35,
       <1>36, <1>37, <1>38, <1>39, <1>40, <1>41, <1>42, <1>43, <1>44, <1>45, <1>46,
       <1>47, <1>48, <1>49, <1>50, <1>51, <1>52, <1>53, <1>54, <1>55, <1>56, <1>57,
       <1>58, <1>59, <1>60 DEF Next, MutationStep, ClientStep, WaiterStep, Call

\* Every reader starts able to block, with its condition attached.
LEMMA CapacityInit == Init => CapacityInv
  <1> SUFFICES ASSUME Init PROVE CapacityInv
    OBVIOUS
  <1> DEFINE m == Len(InitialRegs)
  <1>1. m \in Nat /\ m <= MaxRegistrations /\ \A n \in 1..m : n \in Regs
    BY WaitSetAssumption DEF Regs
  <1>2. /\ listed = 1..m /\ attached = {n \in 1..m : InitialRegs[n] \in Readers}
        /\ \A n \in 1..m : target[n] = InitialRegs[n]
    BY <1>1 DEF Init
  <1>3. \A t \in Threads : Informed(t)
    BY DEF Init, Informed
  <1>4. ASSUME NEW n \in listed, target[n] \in Readers PROVE Matched(n)
    <2>1. n \in attached
      BY <1>2, <1>4
    <2>2. blocking[target[n]] = TRUE
      BY <1>4 DEF Init
    <2>3. QED
      BY <2>1, <2>2 DEF Matched, Agrees
  <1>5. QED
    BY <1>3, <1>4 DEF CapacityInv

\* A capacity change in the way of agreement is an operation on that reader.
LEMMA MatchedIsAgreed == TypeOK /\ OwnershipInv /\ CapacityInv => ConditionMatchesCapacity
  <1> SUFFICES ASSUME TypeOK, OwnershipInv, CapacityInv, NEW n \in listed,
                      target[n] \notin overlooked, phase[n] = "Attached", target[n] \in Readers,
                      ~poisoned,
                      \A t \in Threads : op[t] # "none" => op[t] = "wait" \/ arg[t] # target[n]
               PROVE  (n \in attached) = blocking[target[n]]
    BY DEF ConditionMatchesCapacity, CapacityAgrees
  <1>1. \A t \in Threads : ~Changing(t, n)
    BY DEF Changing
  <1>2. \A t \in Threads : cur[t] = n => pc[t] \notin {"rec_attach", "rec_detach", "poison"}
    BY Constants DEF OwnershipInv, OpShape, Named, BlockPcs, WorkPcs, MutationPcs
  <1>3. Agrees(n, n \in attached)
    BY <1>2 DEF CapacityInv, Matched
  <1>4. QED
    BY <1>1, <1>3 DEF Agrees

\* The condition of a registered reader is in the native WaitSet exactly while the
\* reader may block, unless a change is under way, was overlooked because no
\* callback was installed, or a native call failed: ConditionMatchesCapacity, for
\* every number of threads, readers, registrations and capacity changes.
THEOREM CapacityIsMatched == Spec => []ConditionMatchesCapacity
  BY TypeCorrect, OwnershipCorrect, CapacityInit, CapacityNext, MatchedIsAgreed, PTL DEF Spec
-----------------------------------------------------------------------------
(* Triggers of a guard.                                                    *)

\* Where a wait has observed the wake generation and taken its snapshot.
WakePcs == {"scan", "recheck", "handoff", "native_lock"} \union (WorkPcs \ {"remove_find"})

\* The waiter has looked at registration n since it observed the wake generation.
Passed(w, n) ==
    /\ pc[w] \in WakePcs /\ n \notin todo[w]
    /\ ~(pc[w] = "detach_cas" /\ cur[w] = n)

Unconsumed(n) ==
    phase[n] = "Attached" /\ target[n] \in Guards /\ consumed[target[n]] # triggered[target[n]]

\* Someone will still advance the wake generation.
WillBump(n) ==
    \E t \in Threads : \/ arg[t] = target[n] /\ pc[t] = "notify_lock"
                       \/ t \in mutations \/ pc[t] = "end_bump"

\* Someone will still trigger the control condition.
WillWake(n) ==
    \E t \in Threads : \/ arg[t] = target[n] /\ pc[t] \in {"notify_lock", "notify_wake"}
                       \/ t \in mutations \/ pc[t] \in {"end_bump", "end_wake"}

Asleep(w) == pc[w] = "native" /\ ~control /\ ~broken

\* A trigger that a wait has missed has advanced the generation since the wait
\* observed it, or will: clear_if_unchanged then refuses to sleep.
Noticed ==
    \A w \in Waiters, n \in listed :
        Passed(w, n) /\ Unconsumed(n) => seenWake[w] < generation \/ WillBump(n)

\* NoTriggerSleptOn with its parts named.
Roused == \A w \in Waiters, n \in listed : Asleep(w) /\ Unconsumed(n) => WillWake(n)

WakeInv ==
    /\ \A w \in Waiters : seenWake[w] <= generation
    /\ \A w \in Waiters : pc[w] \in {"recheck", "handoff", "native_lock"} => todo[w] = {}
    /\ Noticed /\ Roused

\* Steps that neither trigger nor consume, and withdraw no announced wake.
WakeFrame(t) ==
    /\ \A u \in Threads : u # t => pc'[u] = pc[u] /\ arg'[u] = arg[u] /\ cur'[u] = cur[u]
    /\ pc[t] \notin {"notify_lock", "notify_wake", "end_bump", "end_wake"}
    /\ t \in Waiters =>
         /\ pc'[t] # "native" /\ (pc'[t] \in WakePcs => pc[t] \in WakePcs)
         /\ pc[t] # "detach_cas"
         /\ pc'[t] \in {"recheck", "handoff", "native_lock"} => todo[t] = {}
    /\ generation' \in Nat /\ generation <= generation' /\ mutations \subseteq mutations'
    /\ (control => control') /\ (broken => broken')
    /\ listed' \subseteq listed
    /\ \A n \in listed' : /\ target'[n] = target[n]
                          /\ phase'[n] = "Attached" /\ target[n] \in Guards => phase[n] = "Attached"
    /\ UNCHANGED <<consumed, triggered, seenWake, todo>>

LEMMA FrameKeepsWake ==
    ASSUME TypeOK, OwnershipInv, WakeInv, NEW t \in Threads, WakeFrame(t)
    PROVE  WakeInv'
  <1>1. /\ \A u \in Threads : u # t => pc'[u] = pc[u] /\ arg'[u] = arg[u] /\ cur'[u] = cur[u]
        /\ generation' \in Nat /\ generation <= generation' /\ mutations \subseteq mutations'
        /\ (control => control') /\ (broken => broken') /\ listed' \subseteq listed
        /\ UNCHANGED <<consumed, triggered, seenWake, todo>>
        /\ \A n \in listed' : target'[n] = target[n]
    BY DEF WakeFrame
  <1>2. \A n \in listed' : Unconsumed(n)' => Unconsumed(n)
    BY <1>1 DEF WakeFrame, Unconsumed
  <1>3. \A n \in listed' : WillBump(n) => WillBump(n)'
    BY <1>1 DEF WakeFrame, WillBump
  <1>4. \A n \in listed' : WillWake(n) => WillWake(n)'
    BY <1>1 DEF WakeFrame, WillWake
  <1>5. \A w \in Waiters, n \in listed' : Passed(w, n)' => Passed(w, n)
    BY <1>1, Constants DEF WakeFrame, Passed
  <1>6. \A w \in Waiters : Asleep(w)' => Asleep(w)
    BY <1>1, Constants DEF WakeFrame, Asleep
  <1>7. \A w \in Waiters : seenWake[w] \in Nat /\ generation \in Nat
    BY DEF TypeOK, WaitType, WakeType
  <1>8. \A w \in Waiters : seenWake'[w] <= generation'
    BY <1>1, <1>7 DEF WakeInv
  <1>9. \A w \in Waiters : pc'[w] \in {"recheck", "handoff", "native_lock"} => todo'[w] = {}
    BY <1>1, Constants DEF WakeFrame, WakeInv
  <1>10. Noticed'
    BY <1>1, <1>2, <1>3, <1>5, <1>7 DEF WakeInv, Noticed
  <1>11. Roused'
    BY <1>1, <1>2, <1>4, <1>6 DEF WakeInv, Roused
  <1>12. QED
    BY <1>8, <1>9, <1>10, <1>11 DEF WakeInv

\* A step that advances the generation is noticed by every wait.
LEMMA BumpIsNoticed ==
    ASSUME TypeOK, WakeInv, generation' = generation + 1, UNCHANGED seenWake
    PROVE  Noticed' /\ \A w \in Waiters : seenWake'[w] <= generation' /\ seenWake'[w] < generation'
  <1>1. \A w \in Waiters : seenWake[w] \in Nat /\ generation \in Nat /\ seenWake[w] <= generation
    BY DEF TypeOK, WaitType, WakeType, WakeInv
  <1>2. QED
    BY <1>1 DEF Noticed

\* The compare-exchange of a trigger: the thread goes on to notify.
LEMMA StageKeepsWake ==
    ASSUME TypeOK, OwnershipInv, WakeInv, NEW t \in Clients, StageTrigger(t)
    PROVE  WakeInv'
  <1>1. /\ pc[t] = "stage" /\ pc'[t] \in {"op_end", "notify_lock"}
        /\ \A u \in Threads : u # t => pc'[u] = pc[u]
        /\ pc'[t] = "op_end" => triggered' = triggered
        /\ \A g \in Guards : g # arg[t] => triggered'[g] = triggered[g]
    BY Constants DEF StageTrigger, Goto, TypeOK, PcType, GuardType
  <1>2. UNCHANGED <<arg, cur, listed, phase, target, consumed, generation, control, broken, mutations,
                    seenWake, todo>>
    BY DEF StageTrigger, wakeVars, topoVars, regVars, waitVars, callVars
  <1>3. \A n \in listed : Unconsumed(n)' => Unconsumed(n) \/ (pc'[t] = "notify_lock" /\ arg'[t] = target'[n])
    BY <1>1, <1>2 DEF Unconsumed
  <1>4. \A n \in listed : WillBump(n) \/ (pc'[t] = "notify_lock" /\ arg'[t] = target'[n]) => WillBump(n)'
    BY <1>1, <1>2, Constants DEF WillBump
  <1>5. \A n \in listed : WillWake(n) \/ (pc'[t] = "notify_lock" /\ arg'[t] = target'[n]) => WillWake(n)'
    BY <1>1, <1>2, Constants DEF WillWake
  <1>6. \A w \in Waiters : UNCHANGED <<pc[w], cur[w], todo[w], seenWake[w]>>
    BY <1>1, <1>2, Constants
  <1>7. Noticed'
    BY <1>2, <1>3, <1>4, <1>6 DEF WakeInv, Noticed, Passed
  <1>8. Roused'
    BY <1>2, <1>3, <1>5, <1>6 DEF WakeInv, Roused, Asleep
  <1>9. QED
    BY <1>2, <1>6, <1>7, <1>8 DEF WakeInv

\* notify_wait_set of a guard that is registered advances the generation.
LEMMA NotifyLockKeepsWake ==
    ASSUME TypeOK, OwnershipInv, WakeInv, NEW t \in Clients, NotifyLock(t)
    PROVE  WakeInv'
  <1>1. /\ pc[t] = "notify_lock"
        /\ \A u \in Threads : u # t => pc'[u] = pc[u]
        /\ \/ owner[arg[t]] # 0 /\ pc'[t] = "notify_wake" /\ generation' = generation + 1
           \/ owner[arg[t]] = 0 /\ pc'[t] = "op_end" /\ generation' = generation
    BY Constants DEF NotifyLock, Bump, Goto, TypeOK, PcType, wakeVars
  <1>2. UNCHANGED <<arg, cur, listed, phase, target, consumed, triggered, control, broken, mutations,
                    seenWake, todo>>
    BY DEF NotifyLock, Bump, wakeVars, topoVars, regVars, guardVars, waitVars, callVars
  <1>3. \A n \in listed : Unconsumed(n)' => Unconsumed(n) /\ owner[target[n]] # 0
    BY <1>2, InRange, Constants DEF Unconsumed, OwnershipInv, Owned
  <1>4. \A w \in Waiters : UNCHANGED <<pc[w], cur[w], todo[w], seenWake[w]>>
    BY <1>1, <1>2, Constants
  <1>5. \A n \in listed : owner[target[n]] # 0 /\ WillWake(n) => WillWake(n)'
    BY <1>1, <1>2, Constants DEF WillWake
  <1>6. Roused'
    BY <1>2, <1>3, <1>4, <1>5 DEF WakeInv, Roused, Asleep
  <1>7. Noticed' /\ \A w \in Waiters : seenWake'[w] <= generation'
    <2>1. CASE generation' = generation + 1
      BY <1>2, <2>1, BumpIsNoticed
    <2>2. CASE owner[arg[t]] = 0 /\ generation' = generation
      <3>1. \A n \in listed : owner[target[n]] # 0 /\ WillBump(n) => WillBump(n)'
        BY <1>1, <1>2, <2>2, Constants DEF WillBump
      <3>2. QED
        BY <1>2, <1>3, <1>4, <2>2, <3>1 DEF WakeInv, Noticed, Passed
    <2>3. QED
      BY <1>1, <2>1, <2>2
  <1>8. QED
    BY <1>2, <1>4, <1>6, <1>7 DEF WakeInv

\* The control condition is triggered, or the wake marked broken: nobody sleeps
\* without a pending wake any more.
LEMMA WakeKeepsWake ==
    ASSUME TypeOK, WakeInv, NEW t \in Threads, control' \/ broken',
           pc[t] \in {"notify_wake", "end_wake"}, pc[t] = "end_wake" => pc'[t] \in WorkPcs,
           pc'[t] \notin {"recheck", "handoff", "native_lock", "detach_cas", "scan"},
           t \in Waiters => pc[t] = "end_wake",
           \A u \in Threads : u # t => pc'[u] = pc[u],
           UNCHANGED <<arg, cur, listed, phase, target, consumed, triggered, generation, mutations,
                       seenWake, todo>>
    PROVE  WakeInv'
  <1>1. Roused'
    BY DEF Roused, Asleep
  <1>2. \A n \in listed : WillBump(n) => WillBump(n)'
    BY DEF WillBump
  <1>3. \A w \in Waiters, n \in listed : Passed(w, n)' => Passed(w, n)
    BY Constants DEF Passed, WakePcs, WorkPcs, MutationPcs
  <1>4. \A n \in listed : Unconsumed(n)' => Unconsumed(n)
    BY DEF Unconsumed
  <1>5. Noticed'
    BY <1>2, <1>3, <1>4 DEF WakeInv, Noticed
  <1>6. \A w \in Waiters : pc'[w] \in {"recheck", "handoff", "native_lock"} => todo'[w] = {}
    BY Constants DEF WakeInv
  <1>7. QED
    BY <1>1, <1>5, <1>6 DEF WakeInv

\* A mutation that retires still has a wake to send.
LEMMA RetireKeepsWake ==
    ASSUME TypeOK, OwnershipInv, WakeInv, NEW t \in Threads, Retire(t)
    PROVE  WakeInv'
  <1>1. /\ pc[t] = "retire" /\ pc'[t] = "end_bump" /\ mutations' = mutations \ {t}
        /\ \A u \in Threads : u # t => pc'[u] = pc[u]
    BY DEF Retire, Goto, TypeOK, PcType
  <1>2. UNCHANGED <<arg, cur, listed, phase, target, consumed, triggered, generation, control, broken,
                    seenWake, todo>>
    BY DEF Retire, wakeVars, regVars, guardVars, waitVars, callVars
  <1>3. \A n : WillBump(n)' /\ WillWake(n)'
    BY <1>1 DEF WillBump, WillWake
  <1>4. Noticed' /\ Roused'
    BY <1>3 DEF Noticed, Roused
  <1>5. QED
    BY <1>1, <1>2, <1>4, Constants DEF WakeInv

\* It advances the generation before it triggers the control condition.
LEMMA EndBumpKeepsWake ==
    ASSUME TypeOK, OwnershipInv, WakeInv, NEW t \in Threads, EndBump(t)
    PROVE  WakeInv'
  <1>1. /\ pc[t] = "end_bump" /\ pc'[t] = "end_wake" /\ generation' = generation + 1
        /\ \A u \in Threads : u # t => pc'[u] = pc[u]
    BY DEF EndBump, Bump, Goto, TypeOK, PcType
  <1>2. UNCHANGED <<arg, cur, listed, phase, target, consumed, triggered, seenWake, todo>>
    BY DEF EndBump, Bump, wakeVars, regVars, guardVars, waitVars, callVars
  <1>3. \A n : WillWake(n)'
    BY <1>1 DEF WillWake
  <1>4. Roused'
    BY <1>3 DEF Roused
  <1>5. Noticed' /\ \A w \in Waiters : seenWake'[w] <= generation'
    BY <1>1, <1>2, BumpIsNoticed
  <1>6. QED
    BY <1>1, <1>2, <1>4, <1>5, Constants DEF WakeInv

\* add() lists a registration only inside its topology mutation.
LEMMA InsertKeepsWake ==
    ASSUME TypeOK, OwnershipInv, HandoffInv, WakeInv, NEW t \in Clients, Insert(t)
    PROVE  WakeInv'
  <1>1. /\ pc[t] = "insert" /\ pc'[t] = "end_topology" /\ t \in mutations /\ mutations' = mutations
        /\ \A u \in Threads : u # t => pc'[u] = pc[u]
    BY Constants DEF Insert, Goto, TypeOK, PcType, HandoffInv, Mutating, MutationPcs, topoVars
  <1>2. UNCHANGED <<generation, seenWake, todo>>
    BY DEF Insert, wakeVars, waitVars
  <1>3. \A n : WillBump(n)' /\ WillWake(n)'
    BY <1>1, Constants DEF WillBump, WillWake
  <1>4. Noticed' /\ Roused'
    BY <1>3 DEF Noticed, Roused
  <1>5. QED
    BY <1>1, <1>2, <1>4, Constants DEF WakeInv

\* A wait observes the generation before it looks at any registration.
LEMMA ObserveKeepsWake ==
    ASSUME TypeOK, OwnershipInv, WakeInv, NEW w \in Waiters, ObserveWake(w)
    PROVE  WakeInv'
  <1>1. /\ pc'[w] = "snapshot" /\ seenWake'[w] = generation
        /\ \A u \in Threads : u # w => pc'[u] = pc[u]
        /\ \A v \in Waiters : v # w => seenWake'[v] = seenWake[v]
        /\ pc[w] = "observe_wake"
    BY Constants DEF ObserveWake, Goto, TypeOK, PcType, WaitType
  <1>2. UNCHANGED <<arg, cur, listed, phase, target, consumed, triggered, generation, control, broken,
                    mutations, todo>>
    BY DEF ObserveWake, wakeVars, topoVars, regVars, guardVars, callVars
  <1>3. \A n \in listed : Unconsumed(n)' => Unconsumed(n)
    BY <1>2 DEF Unconsumed
  <1>4. \A n \in listed : (WillBump(n) => WillBump(n)') /\ (WillWake(n) => WillWake(n)')
    BY <1>1, <1>2, Constants DEF WillBump, WillWake
  <1>5. \A v \in Waiters, n \in listed : Passed(v, n)' => v # w /\ Passed(v, n)
    BY <1>1, <1>2, Constants DEF Passed, WakePcs, WorkPcs, MutationPcs
  <1>6. \A v \in Waiters : Asleep(v)' => Asleep(v)
    BY <1>1, <1>2, Constants DEF Asleep
  <1>7. \A v \in Waiters : seenWake'[v] <= generation'
    BY <1>1, <1>2 DEF WakeInv, TypeOK, WakeType
  <1>8. Noticed' /\ Roused'
    BY <1>1, <1>2, <1>3, <1>4, <1>5, <1>6 DEF WakeInv, Noticed, Roused
  <1>9. QED
    BY <1>1, <1>2, <1>7, <1>8, Constants DEF WakeInv

\* The snapshot holds every live registration.
LEMMA SnapshotKeepsWake ==
    ASSUME TypeOK, OwnershipInv, WakeInv, NEW w \in Waiters, Snapshot(w)
    PROVE  WakeInv'
  <1>1. /\ pc[w] = "snapshot" /\ pc'[w] = "scan" /\ todo'[w] = {n \in listed : phase[n] = "Attached"}
        /\ \A u \in Threads : u # w => pc'[u] = pc[u]
        /\ \A v \in Waiters : v # w => todo'[v] = todo[v]
    BY Constants DEF Snapshot, Goto, TypeOK, PcType, WaitType
  <1>2. UNCHANGED <<arg, cur, listed, phase, target, consumed, triggered, generation, control, broken,
                    mutations, seenWake>>
    BY DEF Snapshot, wakeVars, topoVars, regVars, guardVars, callVars
  <1>3. \A n \in listed : Unconsumed(n)' => Unconsumed(n) /\ n \in todo'[w]
    BY <1>1, <1>2 DEF Unconsumed
  <1>4. \A n \in listed : (WillBump(n) => WillBump(n)') /\ (WillWake(n) => WillWake(n)')
    BY <1>1, <1>2, Constants DEF WillBump, WillWake
  <1>5. \A v \in Waiters, n \in listed : Passed(v, n)' /\ n \in todo'[w] => v # w /\ Passed(v, n)
    BY <1>1, <1>2, Constants DEF Passed
  <1>6. \A v \in Waiters : Asleep(v)' => Asleep(v)
    BY <1>1, <1>2, Constants DEF Asleep
  <1>7. Noticed' /\ Roused'
    BY <1>2, <1>3, <1>4, <1>5, <1>6 DEF WakeInv, Noticed, Roused
  <1>8. QED
    BY <1>1, <1>2, <1>7, Constants DEF WakeInv

\* A guard of the snapshot is consumed, unless it is closing and will be detached.
LEMMA ScanKeepsWake ==
    ASSUME TypeOK, OwnershipInv, WakeInv, NEW w \in Waiters, NEW m \in Regs, Scan(w, m)
    PROVE  WakeInv'
  <1>1. /\ pc[w] = "scan" /\ pc'[w] \in {"scan", "detach_cas"}
        /\ pc'[w] = "detach_cas" => cur'[w] = m
        /\ \A u \in Threads : u # w => pc'[u] = pc[u] /\ cur'[u] = cur[u] /\ arg'[u] = arg[u]
        /\ \A v \in Waiters : v # w => todo'[v] = todo[v]
        /\ todo'[w] = todo[w] \ {m}
    BY Constants DEF Scan, Goto, TypeOK, PcType, WaitType, CallType
  <1>2. /\ pc'[w] = "scan" /\ target[m] \in Guards => consumed'[target[m]] = triggered[target[m]]
        /\ \A g \in Guards : consumed'[g] = consumed[g] \/ consumed'[g] = triggered[g]
    BY Constants DEF Scan, Goto, TypeOK, PcType, GuardType
  <1>3. UNCHANGED <<listed, phase, target, triggered, generation, control, broken, mutations, seenWake>>
    BY DEF Scan, wakeVars, topoVars, regVars
  <1>4. \A n \in listed : Unconsumed(n)' => Unconsumed(n) /\ (n = m => pc'[w] = "detach_cas")
    BY <1>1, <1>2, <1>3 DEF Unconsumed
  <1>5. \A n \in listed : (WillBump(n) => WillBump(n)') /\ (WillWake(n) => WillWake(n)')
    BY <1>1, <1>3, Constants DEF WillBump, WillWake
  <1>6. \A v \in Waiters, n \in listed :
            Passed(v, n)' /\ (n = m => pc'[w] = "detach_cas") => Passed(v, n)
    <2>1. ASSUME NEW v \in Waiters, v # w, NEW n \in listed, Passed(v, n)' PROVE Passed(v, n)
      BY <1>1, <2>1, Constants DEF Passed
    <2>2. ASSUME NEW n \in listed, Passed(w, n)', n = m => pc'[w] = "detach_cas" PROVE Passed(w, n)
      BY <1>1, <2>2 DEF Passed, WakePcs
    <2>3. QED
      BY <2>1, <2>2
  <1>7. \A v \in Waiters : Asleep(v)' => Asleep(v)
    BY <1>1, <1>3, Constants DEF Asleep
  <1>8. Noticed' /\ Roused'
    BY <1>3, <1>4, <1>5, <1>6, <1>7 DEF WakeInv, Noticed, Roused
  <1>9. QED
    BY <1>1, <1>3, <1>8, Constants DEF WakeInv

\* detach(): whoever wins the compare-exchange, the registration is not live any
\* more when the thread goes on.
LEMMA DetachCasKeepsWake ==
    ASSUME TypeOK, OwnershipInv, WakeInv, NEW t \in Threads, DetachCas(t)
    PROVE  WakeInv'
  <1>1. /\ pc[t] = "detach_cas" /\ cur[t] \in Regs /\ op[t] \in {"remove", "close", "wait"}
        /\ t \in Waiters => op[t] = "wait"
    BY InRange DEF DetachCas, OwnershipInv, OpShape, WaiterShape, DetachPcs, WorkPcs
  <1>2. /\ pc'[t] \in {"detach_lock", "scan", "op_end", "notify_lock"}
        /\ t \in Waiters => pc'[t] \in {"detach_lock", "scan"}
        /\ \A u \in Threads : u # t => pc'[u] = pc[u]
        /\ phase'[cur[t]] # "Attached"
        /\ \A n \in Regs : n # cur[t] => phase'[n] = phase[n]
    BY <1>1 DEF DetachCas, AfterDetach, Goto, TypeOK, PcType, RegistrationType
  <1>3. UNCHANGED <<arg, cur, listed, target, consumed, triggered, generation, control, broken,
                    mutations, seenWake, todo>>
    BY DEF DetachCas, wakeVars, topoVars, guardVars, waitVars, callVars
  <1>4. \A n \in listed : Unconsumed(n)' => Unconsumed(n) /\ n # cur[t]
    BY <1>1, <1>2, <1>3, InRange DEF Unconsumed
  <1>5. \A n \in listed : (WillBump(n) => WillBump(n)') /\ (WillWake(n) => WillWake(n)')
    BY <1>1, <1>2, <1>3 DEF WillBump, WillWake
  <1>6. \A v \in Waiters, n \in listed : Passed(v, n)' /\ n # cur[t] => Passed(v, n)
    BY <1>1, <1>2, <1>3, Constants DEF Passed, WakePcs, WorkPcs
  <1>7. \A v \in Waiters : Asleep(v)' => Asleep(v)
    BY <1>1, <1>2, <1>3, Constants DEF Asleep
  <1>8. Noticed' /\ Roused'
    BY <1>3, <1>4, <1>5, <1>6, <1>7 DEF WakeInv, Noticed, Roused
  <1>9. QED
    BY <1>2, <1>3, <1>8, Constants DEF WakeInv

\* clear_if_unchanged: a wait goes to sleep only if the generation is still the
\* one it observed, so that whatever it missed is still to be announced.
LEMMA NativeLockKeepsWake ==
    ASSUME TypeOK, OwnershipInv, HandoffInv, WakeInv, NEW w \in Waiters, NativeLock(w)
    PROVE  WakeInv'
  <1>1. /\ pc[w] = "native_lock" /\ pc'[w] \in {"top", "native"} /\ native = NoThread
        /\ pc'[w] = "native" => generation = seenWake[w]
        /\ pc'[w] = "top" => control' = control /\ (broken => broken')
        /\ \A u \in Threads : u # w => pc'[u] = pc[u]
    BY Constants DEF NativeLock, Goto, TypeOK, PcType
  <1>2. UNCHANGED <<arg, cur, listed, phase, target, consumed, triggered, generation, mutations,
                    seenWake, todo>>
    BY DEF NativeLock, topoVars, regVars, guardVars, waitVars, callVars
  <1>3. \A n \in listed : Unconsumed(n)' => Unconsumed(n)
    BY <1>2 DEF Unconsumed
  <1>4. \A n \in listed : (WillBump(n) => WillBump(n)') /\ (WillWake(n) => WillWake(n)')
    BY <1>1, <1>2, Constants DEF WillBump, WillWake
  <1>5. \A v \in Waiters, n \in listed : Passed(v, n)' => Passed(v, n)
    BY <1>1, <1>2, Constants DEF Passed, WakePcs, WorkPcs, MutationPcs
  <1>6. Noticed'
    BY <1>2, <1>3, <1>4, <1>5 DEF WakeInv, Noticed
  <1>7. \A v \in Waiters : Asleep(v)' => v = w
    BY <1>1, Constants DEF Asleep, HandoffInv
  <1>8. ASSUME NEW n \in listed, Unconsumed(n), pc'[w] = "native" PROVE WillWake(n)
    <2>1. Passed(w, n)
      BY <1>1 DEF WakeInv, Passed, WakePcs
    <2>2. WillBump(n)
      BY <1>1, <1>8, <2>1 DEF WakeInv, Noticed, TypeOK, WakeType
    <2>3. QED
      BY <2>2 DEF WillBump, WillWake
  <1>9. Roused'
    <2>1. \A v \in Waiters : Asleep(v)' => pc'[w] = "native"
      BY <1>7 DEF Asleep
    <2>2. QED
      BY <1>2, <1>3, <1>4, <1>8, <2>1 DEF Roused
  <1>10. QED
    BY <1>1, <1>2, <1>6, <1>9, Constants DEF WakeInv

\* The control condition is replaced under native_mutex_, when nobody sleeps.
LEMMA RepairKeepsWake ==
    ASSUME TypeOK, OwnershipInv, HandoffInv, WakeInv, NEW w \in Waiters, Top(w), broken
    PROVE  WakeInv'
  <1>1. /\ pc[w] = "top" /\ pc'[w] \in {"is_shutdown", "wait_end"} /\ native = NoThread
        /\ \A u \in Threads : u # w => pc'[u] = pc[u]
    BY Constants DEF Top, Goto, TypeOK, PcType
  <1>2. UNCHANGED <<arg, cur, listed, phase, target, consumed, triggered, generation, mutations,
                    seenWake, todo>>
    BY DEF Top, regVars, guardVars, callVars
  <1>3. \A n \in listed : Unconsumed(n)' => Unconsumed(n)
    BY <1>2 DEF Unconsumed
  <1>4. \A n \in listed : WillBump(n) => WillBump(n)'
    BY <1>1, <1>2, Constants DEF WillBump
  <1>5. \A v \in Waiters, n \in listed : Passed(v, n)' => Passed(v, n)
    BY <1>1, <1>2, Constants DEF Passed, WakePcs, WorkPcs, MutationPcs
  <1>6. Noticed'
    BY <1>2, <1>3, <1>4, <1>5 DEF WakeInv, Noticed
  <1>7. Roused'
    BY <1>1, Constants DEF Roused, Asleep, HandoffInv
  <1>8. QED
    BY <1>1, <1>2, <1>6, <1>7, Constants DEF WakeInv

\* The invariant is about these variables only.
LEMMA StutterKeepsWake ==
    ASSUME WakeInv,
           UNCHANGED <<pc, arg, cur, listed, phase, target, consumed, triggered, generation, control,
                       broken, mutations, seenWake, todo>>
    PROVE  WakeInv'
  BY DEF WakeInv, Noticed, Roused, Passed, Unconsumed, WillBump, WillWake, Asleep

\* Every step keeps the wake invariant.
LEMMA WakeNext ==
    TypeOK /\ OwnershipInv /\ HandoffInv /\ WakeInv /\ [Next]_vars => WakeInv'
  <1>1. ASSUME TypeOK, OwnershipInv, HandoffInv, WakeInv,
               NEW t \in Threads, Publish(t) PROVE WakeInv'
    <2>1. WakeFrame(t)
      BY Constants, <1>1 DEF Publish, Goto, WakeFrame, TypeOK, CallType, PcType,
         WakeType, WakePcs, WorkPcs, MutationPcs, wakeVars, topoVars, regVars,
         guardVars, waitVars, callVars
    <2>2. QED
      BY Constants, <1>1, <2>1, FrameKeepsWake
  <1>2. ASSUME TypeOK, OwnershipInv, HandoffInv, WakeInv,
               NEW t \in Threads, MutBump(t) PROVE WakeInv'
    <2>1. WakeFrame(t)
      BY Constants, <1>2 DEF MutBump, Bump, Goto, WakeFrame, TypeOK, CallType, PcType,
         WakeType, WakePcs, WorkPcs, MutationPcs, wakeVars, topoVars, regVars,
         guardVars, waitVars, callVars
    <2>2. QED
      BY Constants, <1>2, <2>1, FrameKeepsWake
  <1>3. ASSUME TypeOK, OwnershipInv, HandoffInv, WakeInv,
               NEW t \in Threads, MutWake(t) PROVE WakeInv'
    <2>1. WakeFrame(t)
      BY Constants, <1>3 DEF MutWake, SetControl, Body, Goto, WakeFrame, TypeOK,
         CallType, PcType, WakeType, OwnershipInv, OpShape, WorkPcs, MutationPcs,
         WakePcs, wakeVars, topoVars, regVars, guardVars, waitVars, callVars
    <2>2. QED
      BY Constants, <1>3, <2>1, FrameKeepsWake
  <1>4. ASSUME TypeOK, OwnershipInv, HandoffInv, WakeInv,
               NEW t \in Threads, EndTopology(t) PROVE WakeInv'
    <2>1. WakeFrame(t)
      BY Constants, <1>4 DEF EndTopology, Goto, WakeFrame, TypeOK, CallType, PcType,
         WakeType, WakePcs, WorkPcs, MutationPcs, wakeVars, topoVars, regVars,
         guardVars, waitVars, callVars
    <2>2. QED
      BY Constants, <1>4, <2>1, FrameKeepsWake
  <1>5. ASSUME TypeOK, OwnershipInv, HandoffInv, WakeInv,
               NEW t \in Threads, Retire(t) PROVE WakeInv'
    BY <1>5, RetireKeepsWake
  <1>6. ASSUME TypeOK, OwnershipInv, HandoffInv, WakeInv,
               NEW t \in Threads, EndBump(t) PROVE WakeInv'
    BY <1>6, EndBumpKeepsWake
  <1>7. ASSUME TypeOK, OwnershipInv, HandoffInv, WakeInv,
               NEW t \in Threads, EndWake(t) PROVE WakeInv'
    <2>1. control' \/ broken'
      BY <1>7 DEF EndWake, SetControl
    <2>2. /\ pc[t] = "end_wake" /\ pc'[t] \in {"add_unlock", "detach_unlock"}
          /\ \A u \in Threads : u # t => pc'[u] = pc[u]
      BY Constants, <1>7 DEF EndWake, Goto, TypeOK, PcType
    <2>3. UNCHANGED <<arg, cur, listed, phase, target, consumed, triggered, generation, mutations,
                      seenWake, todo>>
      BY <1>7 DEF EndWake, SetControl, wakeVars, topoVars, regVars, guardVars, waitVars, callVars
    <2>4. QED
      BY Constants, <1>7, <2>1, <2>2, <2>3, WakeKeepsWake DEF WorkPcs
  <1>8. ASSUME TypeOK, OwnershipInv, HandoffInv, WakeInv,
               NEW t \in Threads, Poison(t) PROVE WakeInv'
    <2>1. WakeFrame(t)
      BY Constants, <1>8 DEF Poison, Goto, WakeFrame, TypeOK, CallType, PcType,
         WakeType, WakePcs, WorkPcs, MutationPcs, wakeVars, topoVars, regVars,
         guardVars, waitVars, callVars
    <2>2. QED
      BY Constants, <1>8, <2>1, FrameKeepsWake
  <1>9. ASSUME TypeOK, OwnershipInv, HandoffInv, WakeInv,
               NEW t \in Threads, DetachCas(t) PROVE WakeInv'
    BY <1>9, DetachCasKeepsWake
  <1>10. ASSUME TypeOK, OwnershipInv, HandoffInv, WakeInv,
                NEW t \in Threads, DetachLock(t) PROVE WakeInv'
    <2>1. WakeFrame(t)
      BY Constants, <1>10 DEF DetachLock, Goto, WakeFrame, TypeOK, CallType, PcType,
         WakeType, WakePcs, WorkPcs, MutationPcs, wakeVars, topoVars, regVars,
         guardVars, waitVars, callVars
    <2>2. QED
      BY Constants, <1>10, <2>1, FrameKeepsWake
  <1>11. ASSUME TypeOK, OwnershipInv, HandoffInv, WakeInv,
                NEW t \in Threads, Release(t) PROVE WakeInv'
    <2>1. WakeFrame(t)
      BY Constants, InRange, <1>11 DEF Release, ReleaseStep, Goto, WakeFrame, TypeOK,
         CallType, PcType, WakeType, RegistrationType, OwnershipInv, OpShape, Named,
         Numbered, WorkPcs, MutationPcs, WakePcs, wakeVars, topoVars, regVars,
         guardVars, waitVars, callVars
    <2>2. QED
      BY Constants, <1>11, <2>1, FrameKeepsWake
  <1>12. ASSUME TypeOK, OwnershipInv, HandoffInv, WakeInv,
                NEW t \in Threads, DetachNative(t) PROVE WakeInv'
    <2>1. WakeFrame(t)
      BY Constants, InRange, <1>12 DEF DetachNative, Goto, WakeFrame, TypeOK,
         CallType, PcType, WakeType, RegistrationType, OwnershipInv, OpShape, Named,
         Numbered, WorkPcs, MutationPcs, WakePcs, wakeVars, topoVars, regVars,
         guardVars, waitVars, callVars
    <2>2. QED
      BY Constants, <1>12, <2>1, FrameKeepsWake
  <1>13. ASSUME TypeOK, OwnershipInv, HandoffInv, WakeInv,
                NEW t \in Threads, Unclaim(t) PROVE WakeInv'
    <2>1. WakeFrame(t)
      BY Constants, InRange, <1>13 DEF Unclaim, Goto, WakeFrame, TypeOK, CallType,
         PcType, WakeType, RegistrationType, OwnershipInv, OpShape, Named, Numbered,
         WorkPcs, MutationPcs, WakePcs, wakeVars, topoVars, regVars, guardVars,
         waitVars, callVars
    <2>2. QED
      BY Constants, <1>13, <2>1, FrameKeepsWake
  <1>14. ASSUME TypeOK, OwnershipInv, HandoffInv, WakeInv,
                NEW t \in Threads, Erase(t) PROVE WakeInv'
    <2>1. WakeFrame(t)
      BY Constants, InRange, <1>14 DEF Erase, Goto, WakeFrame, TypeOK, CallType,
         PcType, WakeType, RegistrationType, OwnershipInv, OpShape, Named, Numbered,
         WorkPcs, MutationPcs, WakePcs, wakeVars, topoVars, regVars, guardVars,
         waitVars, callVars
    <2>2. QED
      BY Constants, <1>14, <2>1, FrameKeepsWake
  <1>15. ASSUME TypeOK, OwnershipInv, HandoffInv, WakeInv,
                NEW t \in Threads, DetachUnlock(t) PROVE WakeInv'
    <2>1. WakeFrame(t)
      BY Constants, <1>15 DEF DetachUnlock, AfterDetach, Goto, WakeFrame, TypeOK,
         CallType, PcType, WakeType, OwnershipInv, OpShape, WorkPcs, MutationPcs,
         WakePcs, wakeVars, topoVars, regVars, guardVars, waitVars, callVars
    <2>2. QED
      BY Constants, <1>15, <2>1, FrameKeepsWake
  <1>16. ASSUME TypeOK, OwnershipInv, HandoffInv, WakeInv,
                NEW t \in Clients, CloseCopy(t) PROVE WakeInv'
    <2>1. WakeFrame(t)
      BY Constants, <1>16 DEF CloseCopy, Goto, WakeFrame, TypeOK, CallType, PcType,
         WakeType, OwnershipInv, OpShape, WorkPcs, MutationPcs, wakeVars, topoVars,
         regVars, guardVars, waitVars, callVars
    <2>2. QED
      BY Constants, <1>16, <2>1, FrameKeepsWake
  <1>17. ASSUME TypeOK, OwnershipInv, HandoffInv, WakeInv,
                NEW t \in Clients, AddLock(t) PROVE WakeInv'
    <2>1. /\ \A u \in Threads : u # t => pc'[u] = pc[u] /\ cur'[u] = cur[u]
          /\ pc[t] = "add_lock" /\ t \notin Waiters
      BY Constants, <1>17 DEF AddLock, Goto, TypeOK, PcType, CallType
    <2>2. \A n \in 1..created : phase'[n] = phase[n] /\ target'[n] = target[n]
      BY <1>17, CreateKeepsOlder
    <2>3. UNCHANGED <<arg, listed, consumed, triggered, generation, control, broken, mutations,
                      seenWake, todo>>
      BY <1>17 DEF AddLock, wakeVars, topoVars, guardVars, waitVars
    <2>4. WakeFrame(t)
      BY <2>1, <2>2, <2>3, <1>17 DEF WakeFrame, OwnershipInv, Numbered, TypeOK, WakeType
    <2>5. QED
      BY Constants, <1>17, <2>4, FrameKeepsWake
  <1>18. ASSUME TypeOK, OwnershipInv, HandoffInv, WakeInv,
                NEW t \in Clients, Claim(t) PROVE WakeInv'
    <2>1. WakeFrame(t)
      BY Constants, <1>18 DEF Claim, CanClaim, Goto, WakeFrame, TypeOK, CallType,
         PcType, WakeType, wakeVars, topoVars, regVars, guardVars, waitVars, callVars
    <2>2. QED
      BY Constants, <1>18, <2>1, FrameKeepsWake
  <1>19. ASSUME TypeOK, OwnershipInv, HandoffInv, WakeInv,
                NEW t \in Clients, AttachReader(t) PROVE WakeInv'
    <2>1. WakeFrame(t)
      BY Constants, <1>19 DEF AttachReader, Goto, WakeFrame, TypeOK, CallType, PcType,
         WakeType, wakeVars, topoVars, regVars, guardVars, waitVars, callVars
    <2>2. QED
      BY Constants, <1>19, <2>1, FrameKeepsWake
  <1>20. ASSUME TypeOK, OwnershipInv, HandoffInv, WakeInv,
                NEW t \in Clients, Claimed(t) PROVE WakeInv'
    <2>1. WakeFrame(t)
      BY Constants, <1>20 DEF Claimed, Goto, WakeFrame, TypeOK, CallType, PcType,
         WakeType, wakeVars, topoVars, regVars, guardVars, waitVars, callVars
    <2>2. QED
      BY Constants, <1>20, <2>1, FrameKeepsWake
  <1>21. ASSUME TypeOK, OwnershipInv, HandoffInv, WakeInv,
                NEW t \in Clients, Insert(t) PROVE WakeInv'
    BY <1>21, InsertKeepsWake
  <1>22. ASSUME TypeOK, OwnershipInv, HandoffInv, WakeInv,
                NEW t \in Clients, AddUnlock(t) PROVE WakeInv'
    <2>1. WakeFrame(t)
      BY Constants, <1>22 DEF AddUnlock, Goto, WakeFrame, TypeOK, CallType, PcType,
         WakeType, wakeVars, topoVars, regVars, guardVars, waitVars, callVars
    <2>2. QED
      BY Constants, <1>22, <2>1, FrameKeepsWake
  <1>23. ASSUME TypeOK, OwnershipInv, HandoffInv, WakeInv,
                NEW t \in Clients, RemoveFind(t) PROVE WakeInv'
    <2>1. WakeFrame(t)
      BY Constants, <1>23 DEF RemoveFind, Goto, WakeFrame, TypeOK, CallType, PcType,
         WakeType, wakeVars, topoVars, regVars, guardVars, waitVars, callVars
    <2>2. QED
      BY Constants, <1>23, <2>1, FrameKeepsWake
  <1>24. ASSUME TypeOK, OwnershipInv, HandoffInv, WakeInv,
                NEW t \in Clients, BlockCopy(t) PROVE WakeInv'
    <2>1. WakeFrame(t)
      BY Constants, <1>24 DEF BlockCopy, Goto, WakeFrame, TypeOK, CallType, PcType,
         WakeType, wakeVars, topoVars, regVars, guardVars, waitVars, callVars
    <2>2. QED
      BY Constants, <1>24, <2>1, FrameKeepsWake
  <1>25. ASSUME TypeOK, OwnershipInv, HandoffInv, WakeInv,
                NEW t \in Clients, BlockLock(t) PROVE WakeInv'
    <2>1. WakeFrame(t)
      BY Constants, <1>25 DEF BlockLock, Goto, WakeFrame, TypeOK, CallType, PcType,
         WakeType, wakeVars, topoVars, regVars, guardVars, waitVars, callVars
    <2>2. QED
      BY Constants, <1>25, <2>1, FrameKeepsWake
  <1>26. ASSUME TypeOK, OwnershipInv, HandoffInv, WakeInv,
                NEW t \in Clients, Reconcile(t) PROVE WakeInv'
    <2>1. WakeFrame(t)
      BY Constants, <1>26 DEF Reconcile, ReconcileStep, Goto, WakeFrame, TypeOK,
         CallType, PcType, WakeType, wakeVars, topoVars, regVars, guardVars, waitVars,
         callVars
    <2>2. QED
      BY Constants, <1>26, <2>1, FrameKeepsWake
  <1>27. ASSUME TypeOK, OwnershipInv, HandoffInv, WakeInv,
                NEW t \in Clients, ReconcileNative(t) PROVE WakeInv'
    <2>1. WakeFrame(t)
      BY Constants, <1>27 DEF ReconcileNative, Goto, WakeFrame, TypeOK, CallType,
         PcType, WakeType, wakeVars, topoVars, regVars, guardVars, waitVars, callVars
    <2>2. QED
      BY Constants, <1>27, <2>1, FrameKeepsWake
  <1>28. ASSUME TypeOK, OwnershipInv, HandoffInv, WakeInv,
                NEW w \in Waiters, Snapshot(w) PROVE WakeInv'
    BY <1>28, SnapshotKeepsWake
  <1>29. ASSUME TypeOK, OwnershipInv, HandoffInv, WakeInv,
                NEW w \in Waiters, NEW n \in Regs, Scan(w, n) PROVE WakeInv'
    BY <1>29, ScanKeepsWake
  <1>30. ASSUME TypeOK, OwnershipInv, HandoffInv, WakeInv,
                NEW t \in Clients, NEW g \in Guards, CloseGuard(t, g) PROVE WakeInv'
    <2>1. WakeFrame(t)
      BY Constants, <1>30 DEF CloseGuard, Goto, WakeFrame, TypeOK, CallType, PcType,
         WakeType, wakeVars, topoVars, regVars, guardVars, waitVars, callVars
    <2>2. QED
      BY Constants, <1>30, <2>1, FrameKeepsWake
  <1>31. ASSUME TypeOK, OwnershipInv, HandoffInv, WakeInv,
                NEW t \in Clients, NEW x \in Waitables, Add(t, x) PROVE WakeInv'
    <2>1. WakeFrame(t)
      BY Constants, <1>31 DEF Add, Begin, WakeFrame, TypeOK, CallType, PcType,
         WakeType, wakeVars, topoVars, regVars, guardVars, waitVars, callVars
    <2>2. QED
      BY Constants, <1>31, <2>1, FrameKeepsWake
  <1>32. ASSUME TypeOK, OwnershipInv, HandoffInv, WakeInv,
                NEW t \in Clients, NEW n \in Regs, Remove(t, n) PROVE WakeInv'
    <2>1. WakeFrame(t)
      BY Constants, <1>32 DEF Remove, Begin, WakeFrame, TypeOK, CallType, PcType,
         WakeType, wakeVars, topoVars, regVars, guardVars, waitVars, callVars
    <2>2. QED
      BY Constants, <1>32, <2>1, FrameKeepsWake
  <1>33. ASSUME TypeOK, OwnershipInv, HandoffInv, WakeInv,
                NEW t \in Clients, NEW r \in Readers, SetBlocking(t, r) PROVE WakeInv'
    <2>1. WakeFrame(t)
      BY Constants, <1>33 DEF SetBlocking, Begin, WakeFrame, TypeOK, CallType, PcType,
         WakeType, wakeVars, topoVars, regVars, guardVars, waitVars, callVars
    <2>2. QED
      BY Constants, <1>33, <2>1, FrameKeepsWake
  <1>34. ASSUME TypeOK, OwnershipInv, HandoffInv, WakeInv,
                NEW t \in Threads, OpEnd(t) PROVE WakeInv'
    <2>1. WakeFrame(t)
      BY Constants, <1>34 DEF OpEnd, Goto, WakeFrame, TypeOK, CallType, PcType,
         WakeType, WakePcs, WorkPcs, MutationPcs, wakeVars, topoVars, regVars,
         guardVars, waitVars, callVars
    <2>2. QED
      BY Constants, <1>34, <2>1, FrameKeepsWake
  <1>35. ASSUME TypeOK, OwnershipInv, HandoffInv, WakeInv,
                NEW t \in Clients, StageTrigger(t) PROVE WakeInv'
    BY <1>35, StageKeepsWake
  <1>36. ASSUME TypeOK, OwnershipInv, HandoffInv, WakeInv,
                NEW t \in Clients, NotifyLock(t) PROVE WakeInv'
    BY <1>36, NotifyLockKeepsWake
  <1>37. ASSUME TypeOK, OwnershipInv, HandoffInv, WakeInv,
                NEW t \in Clients, NotifyWake(t) PROVE WakeInv'
    <2>1. control' \/ broken'
      BY <1>37 DEF NotifyWake, SetControl
    <2>2. /\ pc[t] = "notify_wake" /\ pc'[t] \in {"op_end"}
          /\ \A u \in Threads : u # t => pc'[u] = pc[u]
      BY Constants, <1>37 DEF NotifyWake, Goto, TypeOK, PcType
    <2>3. UNCHANGED <<arg, cur, listed, phase, target, consumed, triggered, generation, mutations,
                      seenWake, todo>>
      BY <1>37 DEF NotifyWake, SetControl, wakeVars, topoVars, regVars, guardVars, waitVars, callVars
    <2>4. QED
      BY Constants, <1>37, <2>1, <2>2, <2>3, WakeKeepsWake DEF WorkPcs
  <1>38. ASSUME TypeOK, OwnershipInv, HandoffInv, WakeInv,
                NEW t \in Clients, Children(t) PROVE WakeInv'
    <2>1. WakeFrame(t)
      BY Constants, <1>38 DEF Children, Bump, Goto, WakeFrame, TypeOK, CallType,
         PcType, WakeType, wakeVars, topoVars, regVars, guardVars, waitVars, callVars
    <2>2. QED
      BY Constants, <1>38, <2>1, FrameKeepsWake
  <1>39. ASSUME TypeOK, OwnershipInv, HandoffInv, WakeInv,
                NEW t \in Clients, ChildrenWake(t) PROVE WakeInv'
    <2>1. WakeFrame(t)
      BY Constants, <1>39 DEF ChildrenWake, SetControl, Goto, WakeFrame, TypeOK,
         CallType, PcType, WakeType, wakeVars, topoVars, regVars, guardVars, waitVars,
         callVars
    <2>2. QED
      BY Constants, <1>39, <2>1, FrameKeepsWake
  <1>40. ASSUME TypeOK, OwnershipInv, HandoffInv, WakeInv,
                NEW t \in Clients, Drain(t) PROVE WakeInv'
    <2>1. WakeFrame(t)
      BY Constants, <1>40 DEF Drain, Goto, WakeFrame, TypeOK, CallType, PcType,
         WakeType, wakeVars, topoVars, regVars, guardVars, waitVars, callVars
    <2>2. QED
      BY Constants, <1>40, <2>1, FrameKeepsWake
  <1>41. ASSUME TypeOK, OwnershipInv, HandoffInv, WakeInv,
                NEW w \in Waiters, BeginWait(w) PROVE WakeInv'
    <2>1. WakeFrame(w)
      BY Constants, <1>41 DEF BeginWait, Goto, WakeFrame, TypeOK, CallType, PcType,
         WakeType, WakePcs, WorkPcs, MutationPcs, wakeVars, topoVars, regVars,
         guardVars, waitVars, callVars
    <2>2. QED
      BY Constants, <1>41, <2>1, FrameKeepsWake
  <1>42. ASSUME TypeOK, OwnershipInv, HandoffInv, WakeInv,
                NEW w \in Waiters, Top(w) PROVE WakeInv'
    <2>1. CASE broken
      BY <1>42, <2>1, RepairKeepsWake
    <2>2. CASE ~broken
      <3>1. WakeFrame(w)
        BY Constants, <1>42, <2>2 DEF Top, Goto, WakeFrame, TypeOK, CallType,
           PcType, WakeType, WakePcs, WorkPcs, MutationPcs, wakeVars, topoVars,
           regVars, guardVars, waitVars, callVars
      <3>2. QED
        BY Constants, <1>42, <2>2, <3>1, FrameKeepsWake
    <2>3. QED
      BY <2>1, <2>2
  <1>43. ASSUME TypeOK, OwnershipInv, HandoffInv, WakeInv,
                NEW w \in Waiters, IsShutdown(w) PROVE WakeInv'
    <2>1. WakeFrame(w)
      BY Constants, <1>43 DEF IsShutdown, Goto, WakeFrame, TypeOK, CallType, PcType,
         WakeType, WakePcs, WorkPcs, MutationPcs, wakeVars, topoVars, regVars,
         guardVars, waitVars, callVars
    <2>2. QED
      BY Constants, <1>43, <2>1, FrameKeepsWake
  <1>44. ASSUME TypeOK, OwnershipInv, HandoffInv, WakeInv,
                NEW w \in Waiters, ObserveTopology(w) PROVE WakeInv'
    <2>1. WakeFrame(w)
      BY Constants, <1>44 DEF ObserveTopology, Goto, WakeFrame, TypeOK, CallType,
         PcType, WakeType, WakePcs, WorkPcs, MutationPcs, wakeVars, topoVars, regVars,
         guardVars, waitVars, callVars
    <2>2. QED
      BY Constants, <1>44, <2>1, FrameKeepsWake
  <1>45. ASSUME TypeOK, OwnershipInv, HandoffInv, WakeInv,
                NEW w \in Waiters, ObserveWake(w) PROVE WakeInv'
    BY <1>45, ObserveKeepsWake
  <1>46. ASSUME TypeOK, OwnershipInv, HandoffInv, WakeInv,
                NEW w \in Waiters, Check(w) PROVE WakeInv'
    <2>1. WakeFrame(w)
      BY Constants, <1>46 DEF Check, Goto, WakeFrame, TypeOK, CallType, PcType,
         WakeType, WakePcs, WorkPcs, MutationPcs, wakeVars, topoVars, regVars,
         guardVars, waitVars, callVars
    <2>2. QED
      BY Constants, <1>46, <2>1, FrameKeepsWake
  <1>47. ASSUME TypeOK, OwnershipInv, HandoffInv, WakeInv,
                NEW w \in Waiters, Recheck(w) PROVE WakeInv'
    <2>1. WakeFrame(w)
      BY Constants, <1>47 DEF Recheck, Goto, WakeFrame, TypeOK, CallType, PcType,
         WakeType, WakePcs, WorkPcs, MutationPcs, WakeInv, wakeVars, topoVars,
         regVars, guardVars, waitVars, callVars
    <2>2. QED
      BY Constants, <1>47, <2>1, FrameKeepsWake
  <1>48. ASSUME TypeOK, OwnershipInv, HandoffInv, WakeInv,
                NEW w \in Waiters, Handoff(w) PROVE WakeInv'
    <2>1. WakeFrame(w)
      BY Constants, <1>48 DEF Handoff, Goto, WakeFrame, TypeOK, CallType, PcType,
         WakeType, WakePcs, WorkPcs, MutationPcs, WakeInv, wakeVars, topoVars,
         regVars, guardVars, waitVars, callVars
    <2>2. QED
      BY Constants, <1>48, <2>1, FrameKeepsWake
  <1>49. ASSUME TypeOK, OwnershipInv, HandoffInv, WakeInv,
                NEW w \in Waiters, NativeLock(w) PROVE WakeInv'
    BY <1>49, NativeLockKeepsWake
  <1>50. ASSUME TypeOK, OwnershipInv, HandoffInv, WakeInv,
                NEW w \in Waiters, NativeReturn(w) PROVE WakeInv'
    <2>1. WakeFrame(w)
      BY Constants, <1>50 DEF NativeReturn, Goto, WakeFrame, TypeOK, CallType, PcType,
         WakeType, WakePcs, WorkPcs, MutationPcs, wakeVars, topoVars, regVars,
         guardVars, waitVars, callVars
    <2>2. QED
      BY Constants, <1>50, <2>1, FrameKeepsWake
  <1>51. ASSUME TypeOK, OwnershipInv, HandoffInv, WakeInv,
                NEW w \in Waiters, WaitEnd(w) PROVE WakeInv'
    <2>1. WakeFrame(w)
      BY Constants, <1>51 DEF WaitEnd, Goto, WakeFrame, TypeOK, CallType, PcType,
         WakeType, WakePcs, WorkPcs, MutationPcs, wakeVars, topoVars, regVars,
         guardVars, waitVars, callVars
    <2>2. QED
      BY Constants, <1>51, <2>1, FrameKeepsWake
  <1>52. ASSUME TypeOK, OwnershipInv, HandoffInv, WakeInv,
                NEW w \in Waiters, NativeFault(w) PROVE WakeInv'
    <2>1. WakeFrame(w)
      BY Constants, <1>52 DEF NativeFault, Goto, WakeFrame, TypeOK, CallType, PcType,
         WakeType, WakePcs, WorkPcs, MutationPcs, wakeVars, topoVars, regVars,
         guardVars, waitVars, callVars
    <2>2. QED
      BY Constants, <1>52, <2>1, FrameKeepsWake
  <1>53. ASSUME TypeOK, OwnershipInv, HandoffInv, WakeInv,
                NEW w \in Waiters, NEW k \in Timeouts, Wait(w, k) PROVE WakeInv'
    <2>1. WakeFrame(w)
      BY Constants, <1>53 DEF Wait, Goto, WakeFrame, TypeOK, CallType, PcType,
         WakeType, WakePcs, WorkPcs, MutationPcs, wakeVars, topoVars, regVars,
         guardVars, waitVars, callVars
    <2>2. QED
      BY Constants, <1>53, <2>1, FrameKeepsWake
  <1>54. ASSUME TypeOK, OwnershipInv, HandoffInv, WakeInv,
                NEW t \in Clients, NEW g \in Guards, Trigger(t, g) PROVE WakeInv'
    <2>1. WakeFrame(t)
      BY Constants, <1>54 DEF Trigger, Begin, WakeFrame, TypeOK, CallType, PcType,
         WakeType, wakeVars, topoVars, regVars, guardVars, waitVars, callVars
    <2>2. QED
      BY Constants, <1>54, <2>1, FrameKeepsWake
  <1>55. ASSUME TypeOK, OwnershipInv, HandoffInv, WakeInv,
                NEW t \in Clients, Shutdown(t) PROVE WakeInv'
    <2>1. WakeFrame(t)
      BY Constants, <1>55 DEF Shutdown, Goto, WakeFrame, TypeOK, CallType, PcType,
         WakeType, wakeVars, topoVars, regVars, guardVars, waitVars, callVars
    <2>2. QED
      BY Constants, <1>55, <2>1, FrameKeepsWake
  <1>56. ASSUME WakeInv, NEW w \in Waiters, Expire(w) PROVE WakeInv'
    BY <1>56, StutterKeepsWake DEF Expire, wakeVars, topoVars, regVars, guardVars,
       waitVars, callVars
  <1>57. ASSUME WakeInv, NEW r \in Readers, DataArrives(r) PROVE WakeInv'
    BY <1>57, StutterKeepsWake DEF DataArrives, wakeVars, topoVars, regVars, guardVars,
       waitVars, callVars
  <1>58. ASSUME WakeInv, NEW r \in Readers, Take(r) PROVE WakeInv'
    BY <1>58, StutterKeepsWake DEF Take, wakeVars, topoVars, regVars, guardVars,
       waitVars, callVars
  <1>59. ASSUME WakeInv, UNCHANGED vars PROVE WakeInv'
    BY <1>59, StutterKeepsWake DEF vars, wakeVars, topoVars, regVars, guardVars,
       waitVars, callVars
  <1>60. ASSUME TypeOK, OwnershipInv, HandoffInv, WakeInv,
                NEW t \in Clients, InsertThrows(t) PROVE WakeInv'
    <2>1. WakeFrame(t)
      BY Constants, InRange, <1>60 DEF InsertThrows, Goto, WakeFrame, TypeOK, CallType,
         PcType, WakeType, RegistrationType, OwnershipInv, Numbered, wakeVars, topoVars,
         regVars, guardVars, waitVars, callVars
    <2>2. QED
      BY Constants, <1>60, <2>1, FrameKeepsWake
  <1>61. QED
    BY <1>1, <1>2, <1>3, <1>4, <1>5, <1>6, <1>7, <1>8, <1>9, <1>10, <1>11, <1>12, <1>13,
       <1>14, <1>15, <1>16, <1>17, <1>18, <1>19, <1>20, <1>21, <1>22, <1>23, <1>24,
       <1>25, <1>26, <1>27, <1>28, <1>29, <1>30, <1>31, <1>32, <1>33, <1>34, <1>35,
       <1>36, <1>37, <1>38, <1>39, <1>40, <1>41, <1>42, <1>43, <1>44, <1>45, <1>46,
       <1>47, <1>48, <1>49, <1>50, <1>51, <1>52, <1>53, <1>54, <1>55, <1>56, <1>57,
       <1>58, <1>59, <1>60 DEF Next, MutationStep, ClientStep, WaiterStep, Call

\* Nothing has been triggered yet.
LEMMA WakeInit == Init => WakeInv
  <1> SUFFICES ASSUME Init PROVE WakeInv
    OBVIOUS
  <1>1. \A w \in Waiters : pc[w] = "idle" /\ seenWake[w] = 0 /\ generation = 0
    BY Constants DEF Init
  <1>2. \A n : ~Unconsumed(n)
    BY DEF Init, Unconsumed
  <1>3. QED
    BY <1>1, <1>2 DEF WakeInv, Noticed, Roused

\* A thread asleep without a pending wake has seen every trigger of the guards it
\* waits on, or the trigger is still to be announced: NoTriggerSleptOn, for every
\* number of threads, guards, registrations and triggers.
THEOREM NoTriggerIsSleptOn == Spec => []NoTriggerSleptOn
  <1>1. WakeInv => NoTriggerSleptOn
    BY DEF WakeInv, Roused, Asleep, Unconsumed, WillWake, NoTriggerSleptOn
  <1>2. Spec => []HandoffInv
    BY TypeCorrect, InitHandoff, NextHandoff, PTL DEF Spec
  <1>3. QED
    BY <1>1, <1>2, TypeCorrect, OwnershipCorrect, WakeInit, WakeNext, PTL DEF Spec
=============================================================================
