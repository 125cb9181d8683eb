------------------------------- MODULE WaitSet -------------------------------
(***************************************************************************)
(* dmw::WaitSet: one waiting thread at a time, threads that change the     *)
(* topology (add, remove, waitable destructor, Server capacity), threads   *)
(* that trigger GuardConditions, and Context::shutdown.                    *)
(*                                                                         *)
(* Every atomic load, store or read-modify-write and every mutex           *)
(* acquisition of wait_set_impl.hpp that another thread can observe is a   *)
(* step of its own.  A native Fast DDS wait is entered with native_mutex_  *)
(* held and ends when an attached condition has a true trigger value.      *)
(***************************************************************************)
EXTENDS Integers, FiniteSets, Sequences

CONSTANTS
    Waiters,           \* threads that call WaitSet::wait
    Clients,           \* threads that call everything else
    Guards,            \* GuardConditions of the Context
    Readers,           \* DataReaders (Subscriber, Client or Server requests)
    Operations,        \* which operations the clients of this instance call
    Timeouts,          \* WaitTimeout kinds in use
    InitialRegs,       \* waitables registered before the run: a sequence
    MaxRegistrations,  \* bound: registration objects ever created
    MaxTrigger,        \* the largest trigger generation (2^64 - 1 in the code)
    MaxCalls,          \* bound: operations begun by one client
    MaxArrivals,       \* bound: samples that arrive
    MaxFaults,         \* bound: Fast DDS calls and allocations that fail
    NoThread           \* a free mutex

Threads   == Waiters \union Clients
Waitables == Guards \union Readers
Regs      == 1..MaxRegistrations
RegIds    == 0..MaxRegistrations      \* with 0: no registration

AllOperations == {"trigger", "add", "remove", "close", "block", "shutdown"}

ASSUME WaitSetAssumption ==
    /\ Waiters \intersect Clients = {}
    /\ Guards \intersect Readers = {} /\ Waitables # {}
    /\ NoThread \notin Threads
    /\ Operations \subseteq AllOperations
    /\ Timeouts \subseteq {"poll", "finite", "infinite"}
    /\ MaxRegistrations \in Nat /\ MaxTrigger \in Nat /\ MaxCalls \in Nat
    /\ MaxArrivals \in Nat /\ MaxFaults \in Nat
    /\ InitialRegs \in Seq(Waitables)
    /\ Len(InitialRegs) <= MaxRegistrations
    /\ \A i, j \in DOMAIN InitialRegs : InitialRegs[i] = InitialRegs[j] => i = j

VARIABLES
    \* impl::Context
    shutdown,     \* shutdown_
    operations,   \* the threads that hold an OperationGuard
    complete,     \* shutdown_complete_
    \* WaitSetWake
    generation,   \* WaitSetWake::generation
    control,      \* the trigger value of the control condition
    broken,       \* WaitSetWake::broken
    \* WaitSetState
    topology,     \* topology_generation_
    mutations,    \* the threads inside a TopologyMutationGuard
    handoff,      \* owner of topology_handoff_mutex_
    native,       \* owner of native_mutex_
    mutex,        \* owner of mutex_
    waiting,      \* waiting_
    poisoned,     \* poisoned_
    listed,       \* keys of registrations_
    created,      \* registration objects created so far
    phase,        \* Registration::phase
    target,       \* the waitable a registration is for
    conditions,   \* owner of Registration::conditions_mutex
    attached,     \* registrations whose reader condition is attached natively
    \* waitables
    triggered,    \* trigger_generation of a guard
    consumed,     \* consumed_generation of a guard
    closing,      \* closing
    owner,        \* registration_id: 0 when the waitable is unclaimed
    callback,     \* owner of callback_mutex
    topologyCb,   \* readers whose topology_callback is installed
    blocking,     \* blocking_enabled of a reader
    unread,       \* get_unread_count() # 0 of a reader
    \* threads
    pc, op, arg, cur,
    timeout, expired, seenTopology, seenWake, todo, ready,
    calls, arrivals, faults,
    \* history
    reported,     \* the largest trigger generation a wait has reported
    overlooked    \* readers whose capacity changed while no callback was installed

ctxVars    == <<shutdown, operations, complete>>
wakeVars   == <<generation, control, broken>>
lockVars   == <<handoff, native, mutex, conditions, callback>>
topoVars   == <<topology, mutations>>
regVars    == <<listed, created, phase, target, attached, owner, topologyCb>>
guardVars  == <<triggered, consumed, reported>>
readerVars == <<blocking, unread, overlooked>>
waitVars   == <<timeout, expired, seenTopology, seenWake, todo, ready, waiting>>
callVars   == <<op, arg, cur>>
boundVars  == <<calls, arrivals, faults>>

vars == <<ctxVars, wakeVars, lockVars, topoVars, regVars, guardVars, readerVars,
          waitVars, callVars, boundVars, poisoned, closing, pc>>

-----------------------------------------------------------------------------
Phases == {"unused", "Attached", "Detaching", "Detached"}

WaitPcs == {"begin", "top", "is_shutdown", "observe_topology", "observe_wake", "snapshot",
            "scan", "recheck", "handoff", "native_lock", "native",
            "wait_end"}
MutationPcs == {"publish", "mut_bump", "mut_wake", "claim", "attach",
                "claimed", "insert", "release", "detach", "unclaim", "erase",
                "reconcile", "rec_attach", "rec_detach", "poison",
                "end_topology", "retire", "end_bump", "end_wake"}
CallPcs == {"idle", "stage", "add_lock", "add_unlock", "remove_find", "detach_cas",
            "detach_lock", "detach_unlock", "close_copy", "block_copy",
            "block_lock", "notify_lock", "notify_wake", "op_end",
            "children", "children_wake", "drain", "await_complete"}
Pcs == WaitPcs \union MutationPcs \union CallPcs

AnyWaitable  == CHOOSE x \in Waitables : TRUE
InitialOf(x) == {n \in 1..Len(InitialRegs) : InitialRegs[n] = x}

Init ==
    /\ shutdown = FALSE /\ operations = {} /\ complete = FALSE
    /\ generation = 0 /\ control = FALSE /\ broken = FALSE
    /\ topology = 1 /\ mutations = {}
    /\ handoff = NoThread /\ native = NoThread /\ mutex = NoThread
    /\ waiting = FALSE /\ poisoned = FALSE
    /\ listed = 1..Len(InitialRegs) /\ created = Len(InitialRegs)
    /\ phase = [n \in Regs |-> IF n <= Len(InitialRegs) THEN "Attached" ELSE "unused"]
    /\ target = [n \in Regs |-> IF n <= Len(InitialRegs) THEN InitialRegs[n]
                                                         ELSE AnyWaitable]
    /\ conditions = [n \in Regs |-> NoThread]
    /\ attached = {n \in 1..Len(InitialRegs) : InitialRegs[n] \in Readers}
    /\ triggered = [g \in Guards |-> 0] /\ consumed = [g \in Guards |-> 0]
    /\ reported = [g \in Guards |-> 0]
    /\ closing = [x \in Waitables |-> FALSE]
    /\ owner = [x \in Waitables |-> IF InitialOf(x) = {} THEN 0
                                    ELSE CHOOSE n \in InitialOf(x) : TRUE]
    /\ callback = [x \in Waitables |-> NoThread]
    /\ topologyCb = {r \in Readers : InitialOf(r) # {}}
    /\ blocking = [r \in Readers |-> TRUE] /\ unread = [r \in Readers |-> FALSE]
    /\ overlooked = {}
    /\ pc = [t \in Threads |-> "idle"] /\ op = [t \in Threads |-> "none"]
    /\ arg = [t \in Threads |-> AnyWaitable]
    /\ cur = [t \in Threads |-> 0]
    /\ timeout = [w \in Waiters |-> "poll"] /\ expired = [w \in Waiters |-> FALSE]
    /\ seenTopology = [w \in Waiters |-> 0] /\ seenWake = [w \in Waiters |-> 0]
    /\ todo = [w \in Waiters |-> {}] /\ ready = [w \in Waiters |-> {}]
    /\ calls = [t \in Clients |-> 0] /\ arrivals = 0 /\ faults = 0

Goto(t, l) == pc' = [pc EXCEPT ![t] = l]

-----------------------------------------------------------------------------
(* impl::Context: OperationGuard.                                          *)

\* A client begins operation o.  Context::try_acquire_operation refuses it
\* once shutdown_ is set; the operation then returns ContextShutdown.
Begin(t, o, l) ==
    /\ pc[t] = "idle" /\ o \in Operations /\ calls[t] < MaxCalls
    /\ calls' = [calls EXCEPT ![t] = @ + 1]
    /\ operations' = IF shutdown THEN operations ELSE operations \union {t}
    /\ op' = IF shutdown THEN op ELSE [op EXCEPT ![t] = o]
    /\ pc' = IF shutdown THEN pc ELSE [pc EXCEPT ![t] = l]
    /\ UNCHANGED <<shutdown, complete, arrivals, faults>>

OpEndKeepsGuard(t) ==
    /\ pc[t] = "op_end" /\ op' = [op EXCEPT ![t] = "none"] /\ Goto(t, "idle")
    /\ UNCHANGED <<ctxVars, arg, cur, wakeVars, lockVars, topoVars, regVars,
                   guardVars, readerVars, waitVars, boundVars, poisoned, closing>>

\* The operation returns and its OperationGuard is destroyed.
OpEnd(t) ==
    /\ pc[t] = "op_end"
    /\ operations' = operations \ {t}
    /\ op' = [op EXCEPT ![t] = "none"]
    /\ Goto(t, "idle")
    /\ UNCHANGED <<shutdown, complete, arg, cur, wakeVars, lockVars, topoVars, regVars,
                   guardVars, readerVars, waitVars, boundVars, poisoned, closing>>

-----------------------------------------------------------------------------
(* WaitSetWake::notify: the generation first, the native trigger second.   *)

BumpMissing == UNCHANGED <<generation, control, broken>>
Bump == generation' = generation + 1 /\ UNCHANGED <<control, broken>>

SetControlMissing == UNCHANGED <<generation, control, broken, faults>>

\* set_trigger_value(true); a Fast DDS failure marks the wake broken.
SetControl ==
    /\ UNCHANGED generation
    /\ \/ control' = TRUE /\ UNCHANGED <<broken, faults>>
       \/ /\ faults < MaxFaults /\ faults' = faults + 1
          /\ broken' = TRUE /\ UNCHANGED control

\* notify_wait_set of a waitable: the wake callback runs under callback_mutex.
NotifyLock(t) ==
    /\ pc[t] = "notify_lock" /\ callback[arg[t]] = NoThread
    /\ IF owner[arg[t]] # 0
       THEN /\ callback' = [callback EXCEPT ![arg[t]] = t]
            /\ Bump /\ Goto(t, "notify_wake")
       ELSE Goto(t, "op_end") /\ UNCHANGED <<callback, wakeVars>>
    /\ UNCHANGED <<ctxVars, handoff, native, mutex, conditions, topoVars, regVars, guardVars,
                   readerVars, waitVars, callVars, boundVars, poisoned, closing>>

NotifyWake(t) ==
    /\ pc[t] = "notify_wake"
    /\ SetControl
    /\ callback' = [callback EXCEPT ![arg[t]] = NoThread]
    /\ Goto(t, "op_end")
    /\ UNCHANGED <<ctxVars, handoff, native, mutex, conditions, topoVars, regVars, guardVars,
                   readerVars, waitVars, callVars, calls, arrivals, poisoned, closing>>

-----------------------------------------------------------------------------
(* GuardConditionState.                                                    *)

Trigger(t, g) ==
    /\ Begin(t, "trigger", "stage")
    /\ arg' = [arg EXCEPT ![t] = g]
    /\ UNCHANGED <<cur, wakeVars, lockVars, topoVars, regVars, guardVars, readerVars,
                   waitVars, poisoned, closing>>

ExhaustedNever(g) == FALSE
Exhausted(g)      == triggered[g] = MaxTrigger

\* The compare-exchange that stages the next generation; the largest one is
\* never exceeded (ResourceExhausted).
StageTrigger(t) ==
    /\ pc[t] = "stage"
    /\ IF Exhausted(arg[t])
       THEN Goto(t, "op_end") /\ UNCHANGED triggered
       ELSE /\ triggered' = [triggered EXCEPT ![arg[t]] = @ + 1]
            /\ Goto(t, "notify_lock")
    /\ UNCHANGED <<ctxVars, wakeVars, lockVars, topoVars, regVars, consumed, reported,
                   readerVars, waitVars, callVars, boundVars, poisoned, closing>>

\* ~GuardCondition: closing first, then the detach callback, then a wake.
\* The destructor holds no OperationGuard.
CloseGuard(t, g) ==
    /\ pc[t] = "idle" /\ "close" \in Operations /\ calls[t] < MaxCalls
    /\ ~closing[g]
    /\ calls' = [calls EXCEPT ![t] = @ + 1]
    /\ closing' = [closing EXCEPT ![g] = TRUE]
    /\ op' = [op EXCEPT ![t] = "close"] /\ arg' = [arg EXCEPT ![t] = g]
    /\ Goto(t, "close_copy")
    /\ UNCHANGED <<ctxVars, wakeVars, lockVars, topoVars, regVars, guardVars, readerVars,
                   waitVars, cur, arrivals, faults, poisoned>>

CloseCopy(t) ==
    /\ pc[t] = "close_copy" /\ callback[arg[t]] = NoThread
    /\ cur' = [cur EXCEPT ![t] = owner[arg[t]]]
    /\ Goto(t, IF owner[arg[t]] # 0 THEN "detach_cas" ELSE "notify_lock")
    /\ UNCHANGED <<ctxVars, wakeVars, lockVars, topoVars, regVars, guardVars, readerVars,
                   waitVars, op, arg, boundVars, poisoned, closing>>

-----------------------------------------------------------------------------
(* TopologyMutationGuard.                                                  *)

Publish(t) ==
    /\ pc[t] = "publish" /\ handoff = NoThread
    /\ mutations' = mutations \union {t}
    /\ Goto(t, "mut_bump")
    /\ UNCHANGED <<ctxVars, wakeVars, lockVars, topology, regVars, guardVars, readerVars,
                   waitVars, callVars, boundVars, poisoned, closing>>

MutBump(t) ==
    /\ pc[t] = "mut_bump" /\ Bump /\ Goto(t, "mut_wake")
    /\ UNCHANGED <<ctxVars, lockVars, topoVars, regVars, guardVars, readerVars,
                   waitVars, callVars, boundVars, poisoned, closing>>

\* What the guard encloses: the body of add, detach or set_reader_blocking.
Body(o) == IF o = "add" THEN "claim" ELSE IF o = "block" THEN "reconcile" ELSE "release"

MutWake(t) ==
    /\ pc[t] = "mut_wake" /\ SetControl /\ Goto(t, Body(op[t]))
    /\ UNCHANGED <<ctxVars, lockVars, topoVars, regVars, guardVars, readerVars,
                   waitVars, callVars, calls, arrivals, poisoned, closing>>

EndTopology(t) ==
    /\ pc[t] = "end_topology" /\ topology' = topology + 1 /\ Goto(t, "retire")
    /\ UNCHANGED <<ctxVars, wakeVars, lockVars, mutations, regVars, guardVars, readerVars,
                   waitVars, callVars, boundVars, poisoned, closing>>

Retire(t) ==
    /\ pc[t] = "retire" /\ handoff = NoThread
    /\ mutations' = mutations \ {t} /\ Goto(t, "end_bump")
    /\ UNCHANGED <<ctxVars, wakeVars, lockVars, topology, regVars, guardVars, readerVars,
                   waitVars, callVars, boundVars, poisoned, closing>>

EndBump(t) ==
    /\ pc[t] = "end_bump" /\ Bump /\ Goto(t, "end_wake")
    /\ UNCHANGED <<ctxVars, lockVars, topoVars, regVars, guardVars, readerVars,
                   waitVars, callVars, boundVars, poisoned, closing>>

EndWake(t) ==
    /\ pc[t] = "end_wake" /\ SetControl
    /\ Goto(t, IF op[t] = "add" THEN "add_unlock" ELSE "detach_unlock")
    /\ UNCHANGED <<ctxVars, lockVars, topoVars, regVars, guardVars, readerVars,
                   waitVars, callVars, calls, arrivals, poisoned, closing>>

\* Marks the set poisoned, under mutex_, after a native attach or detach failed.
Poison(t) ==
    /\ pc[t] = "poison" /\ mutex = NoThread
    /\ poisoned' = TRUE /\ Goto(t, "end_topology")
    /\ UNCHANGED <<ctxVars, wakeVars, lockVars, topoVars, regVars, guardVars, readerVars,
                   waitVars, callVars, boundVars, closing>>

-----------------------------------------------------------------------------
(* WaitSetState::add.                                                      *)

\* The application adds a reader that is not registered: adding a registered
\* reader is the subject of module ReaderRegistration.
Add(t, x) ==
    /\ Begin(t, "add", "add_lock")
    /\ created < MaxRegistrations
    /\ x \in Readers => /\ owner[x] = 0
                        /\ \A u \in Clients : op[u] = "add" => arg[u] # x
    /\ arg' = [arg EXCEPT ![t] = x]
    /\ UNCHANGED <<cur, wakeVars, lockVars, topoVars, regVars, guardVars, readerVars,
                   waitVars, poisoned, closing>>

\* mutex_ is taken for the whole of add; the registration object is created.
AddLock(t) ==
    /\ pc[t] = "add_lock" /\ mutex = NoThread
    /\ IF poisoned \/ created = MaxRegistrations
       THEN Goto(t, "op_end") /\ UNCHANGED <<mutex, created, cur, phase, target>>
       ELSE /\ mutex' = t
            /\ created' = created + 1
            /\ cur' = [cur EXCEPT ![t] = created + 1]
            /\ phase' = [phase EXCEPT ![created + 1] = "Attached"]
            /\ target' = [target EXCEPT ![created + 1] = arg[t]]
            /\ Goto(t, "publish")
    /\ UNCHANGED <<ctxVars, wakeVars, handoff, native, conditions, callback, topoVars, listed,
                   attached, owner, topologyCb, guardVars, readerVars, waitVars, op, arg,
                   boundVars, poisoned, closing>>

CanClaimTwice(x) == ~closing[x]
CanClaim(x)      == ~closing[x] /\ owner[x] = 0

\* Registration::claim.  A logical waitable is claimed in one critical section
\* of its callback_mutex; a reader is first attached natively.
Claim(t) ==
    LET x == arg[t] IN
    /\ pc[t] = "claim" /\ callback[x] = NoThread
    /\ IF ~CanClaim(x)
       THEN Goto(t, "end_topology") /\ UNCHANGED <<owner, overlooked>>
       ELSE IF x \in Guards
       THEN /\ owner' = [owner EXCEPT ![x] = cur[t]]
            /\ Goto(t, "insert") /\ UNCHANGED overlooked
       ELSE /\ Goto(t, IF blocking[x] THEN "attach" ELSE "claimed")
            /\ overlooked' = overlooked \ {x} /\ UNCHANGED owner
    /\ UNCHANGED <<ctxVars, wakeVars, lockVars, topoVars, listed, created, phase, target,
                   attached, topologyCb, guardVars, blocking, unread, waitVars,
                   callVars, boundVars, poisoned, closing>>

AttachReader(t) ==
    /\ pc[t] = "attach" /\ native = NoThread
    /\ \/ attached' = attached \union {cur[t]} /\ Goto(t, "claimed") /\ UNCHANGED faults
       \/ /\ faults < MaxFaults /\ faults' = faults + 1
          /\ Goto(t, "end_topology") /\ UNCHANGED attached
    /\ UNCHANGED <<ctxVars, wakeVars, lockVars, topoVars, listed, created, phase, target,
                   owner, topologyCb, guardVars, readerVars, waitVars, callVars,
                   calls, arrivals, poisoned, closing>>

Claimed(t) ==
    /\ pc[t] = "claimed" /\ callback[arg[t]] = NoThread
    /\ owner' = [owner EXCEPT ![arg[t]] = cur[t]]
    /\ Goto(t, "insert")
    /\ UNCHANGED <<ctxVars, wakeVars, lockVars, topoVars, listed, created, phase, target,
                   attached, topologyCb, guardVars, readerVars, waitVars, callVars,
                   boundVars, poisoned, closing>>

\* A registration that a concurrent destructor is already detaching is
\* released again; otherwise its callbacks are installed and it is listed.
Insert(t) ==
    /\ pc[t] = "insert" /\ callback[arg[t]] = NoThread
    /\ IF phase[cur[t]] # "Attached"
       THEN /\ owner' = [owner EXCEPT ![arg[t]] = IF @ = cur[t] THEN 0 ELSE @]
            /\ UNCHANGED <<listed, topologyCb>>
       ELSE /\ topologyCb' = topologyCb \union ({arg[t]} \intersect Readers)
            /\ listed' = listed \union {cur[t]}
            /\ UNCHANGED owner
    /\ Goto(t, "end_topology")
    /\ UNCHANGED <<ctxVars, wakeVars, lockVars, topoVars, created, phase, target, attached,
                   guardVars, readerVars, waitVars, callVars, boundVars, poisoned, closing>>

\* The list does not grow: what the claim has published is taken back, and the
\* registration object is gone.  Left out are a detach that fails as well and a
\* capacity change that got hold of the object through its callback just before.
InsertThrows(t) ==
    LET x == arg[t] n == cur[t] IN
    /\ pc[t] = "insert" /\ callback[x] = NoThread /\ phase[n] = "Attached"
    /\ faults < MaxFaults /\ faults' = faults + 1
    /\ n \in attached => native = NoThread
    /\ attached' = attached \ {n}
    /\ owner' = [owner EXCEPT ![x] = 0]
    /\ phase' = [phase EXCEPT ![n] = "Detached"]
    /\ Goto(t, "end_topology")
    /\ UNCHANGED <<ctxVars, wakeVars, lockVars, topoVars, listed, created, target, topologyCb,
                   guardVars, readerVars, waitVars, callVars, calls, arrivals, poisoned, closing>>

AddUnlock(t) ==
    /\ pc[t] = "add_unlock" /\ mutex' = NoThread /\ Goto(t, "op_end")
    /\ UNCHANGED <<ctxVars, wakeVars, handoff, native, conditions, callback, topoVars, regVars,
                   guardVars, readerVars, waitVars, callVars, boundVars, poisoned, closing>>

-----------------------------------------------------------------------------
(* WaitSetState::remove and detach.                                        *)

\* The application holds a token for every registration that was ever listed.
Remove(t, n) ==
    /\ Begin(t, "remove", "remove_find")
    /\ n \in listed \/ phase[n] \in {"Detaching", "Detached"}
    /\ cur' = [cur EXCEPT ![t] = n] /\ arg' = [arg EXCEPT ![t] = target[n]]
    /\ UNCHANGED <<wakeVars, lockVars, topoVars, regVars, guardVars, readerVars,
                   waitVars, poisoned, closing>>

\* A token that is no longer listed is stale: NotRegistered.
RemoveFind(t) ==
    /\ pc[t] = "remove_find" /\ mutex = NoThread
    /\ Goto(t, IF cur[t] \in listed THEN "detach_cas" ELSE "op_end")
    /\ UNCHANGED <<ctxVars, wakeVars, lockVars, topoVars, regVars, guardVars, readerVars,
                   waitVars, callVars, boundVars, poisoned, closing>>

\* Where a thread continues after detach().
AfterDetach(o) == IF o = "wait" THEN "scan" ELSE IF o = "remove" THEN "op_end" ELSE "notify_lock"

\* Exactly one thread moves a registration from Attached to Detaching.
DetachCas(t) ==
    LET n == cur[t] IN
    /\ pc[t] = "detach_cas"
    /\ IF phase[n] = "Attached"
       THEN phase' = [phase EXCEPT ![n] = "Detaching"] /\ Goto(t, "detach_lock")
       ELSE Goto(t, AfterDetach(op[t])) /\ UNCHANGED phase
    /\ UNCHANGED <<ctxVars, wakeVars, lockVars, topoVars, listed, created, target, attached,
                   owner, topologyCb, guardVars, readerVars, waitVars, callVars, boundVars,
                   poisoned, closing>>

DetachLock(t) ==
    /\ pc[t] = "detach_lock" /\ conditions[cur[t]] = NoThread
    /\ conditions' = [conditions EXCEPT ![cur[t]] = t]
    /\ Goto(t, "publish")
    /\ UNCHANGED <<ctxVars, wakeVars, handoff, native, mutex, callback, topoVars, regVars,
                   guardVars, readerVars, waitVars, callVars, boundVars, poisoned, closing>>

\* A reader whose condition is attached is detached natively first.
ReleaseStepSkipsNative(n) == "unclaim"
ReleaseStep(n)            == IF n \in attached THEN "detach" ELSE "unclaim"

\* Registration::release: a waitable that another registration owns by now is
\* left alone; a reader's condition is detached before its identity is cleared.
Release(t) ==
    LET x == arg[t] n == cur[t] IN
    /\ pc[t] = "release" /\ callback[x] = NoThread
    /\ IF x \in Readers /\ owner[x] = n
       THEN Goto(t, ReleaseStep(n)) /\ UNCHANGED owner
       ELSE /\ owner' = [owner EXCEPT ![x] = IF @ = n THEN 0 ELSE @]
            /\ Goto(t, "erase")
    /\ UNCHANGED <<ctxVars, wakeVars, lockVars, topoVars, listed, created, phase, target,
                   attached, topologyCb, guardVars, readerVars, waitVars, callVars,
                   boundVars, poisoned, closing>>

\* A failed native detach keeps the registration and poisons the set.
DetachNative(t) ==
    /\ pc[t] = "detach" /\ native = NoThread
    /\ \/ /\ attached' = attached \ {cur[t]} /\ Goto(t, "unclaim")
          /\ UNCHANGED <<phase, faults>>
       \/ /\ faults < MaxFaults /\ faults' = faults + 1
          /\ phase' = [phase EXCEPT ![cur[t]] = "Attached"]
          /\ Goto(t, "poison") /\ UNCHANGED attached
    /\ UNCHANGED <<ctxVars, wakeVars, lockVars, topoVars, listed, created, target, owner,
                   topologyCb, guardVars, readerVars, waitVars, callVars, calls, arrivals,
                   poisoned, closing>>

Unclaim(t) ==
    /\ pc[t] = "unclaim" /\ callback[arg[t]] = NoThread
    /\ owner' = [owner EXCEPT ![arg[t]] = 0]
    /\ topologyCb' = topologyCb \ {arg[t]}
    /\ Goto(t, "erase")
    /\ UNCHANGED <<ctxVars, wakeVars, lockVars, topoVars, listed, created, phase, target,
                   attached, guardVars, readerVars, waitVars, callVars, boundVars,
                   poisoned, closing>>

Erase(t) ==
    /\ pc[t] = "erase" /\ mutex = NoThread
    /\ listed' = listed \ {cur[t]}
    /\ phase' = [phase EXCEPT ![cur[t]] = "Detached"]
    /\ Goto(t, "end_topology")
    /\ UNCHANGED <<ctxVars, wakeVars, lockVars, topoVars, created, target, attached, owner,
                   topologyCb, guardVars, readerVars, waitVars, callVars, boundVars,
                   poisoned, closing>>

\* conditions_mutex is released after the mutation guard.
DetachUnlock(t) ==
    /\ pc[t] = "detach_unlock"
    /\ conditions' = [conditions EXCEPT ![cur[t]] = NoThread]
    /\ Goto(t, AfterDetach(op[t]))
    /\ UNCHANGED <<ctxVars, wakeVars, handoff, native, mutex, callback, topoVars, regVars,
                   guardVars, readerVars, waitVars, callVars, boundVars, poisoned, closing>>

-----------------------------------------------------------------------------
(* ReaderWaitState::set_blocking_enabled and set_reader_blocking.          *)

\* A Server operation, under its OperationGuard, toggles the capacity flag.
SetBlocking(t, r) ==
    /\ Begin(t, "block", "block_copy")
    /\ blocking' = IF shutdown THEN blocking ELSE [blocking EXCEPT ![r] = ~@]
    /\ arg' = [arg EXCEPT ![t] = r]
    /\ UNCHANGED <<cur, wakeVars, lockVars, topoVars, regVars, guardVars, unread, overlooked,
                   waitVars, poisoned, closing>>

BlockCopy(t) ==
    /\ pc[t] = "block_copy" /\ callback[arg[t]] = NoThread
    /\ IF arg[t] \in topologyCb
       THEN /\ cur' = [cur EXCEPT ![t] = owner[arg[t]]] /\ Goto(t, "block_lock")
            /\ UNCHANGED overlooked
       ELSE /\ overlooked' = overlooked \union {arg[t]} /\ Goto(t, "notify_lock")
            /\ UNCHANGED cur
    /\ UNCHANGED <<ctxVars, wakeVars, lockVars, topoVars, regVars, guardVars, blocking,
                   unread, waitVars, op, arg, boundVars, poisoned, closing>>

BlockLock(t) ==
    LET n == cur[t] IN
    /\ pc[t] = "block_lock" /\ conditions[n] = NoThread
    /\ IF phase[n] # "Attached"
       THEN Goto(t, "notify_lock") /\ UNCHANGED conditions
       ELSE conditions' = [conditions EXCEPT ![n] = t] /\ Goto(t, "publish")
    /\ UNCHANGED <<ctxVars, wakeVars, handoff, native, mutex, callback, topoVars, regVars,
                   guardVars, readerVars, waitVars, callVars, boundVars, poisoned, closing>>

\* reconcile_reader_condition reads the current flag, not the callback's value.
ReconcileStepDetachOnly(x, n) ==
    IF ~blocking[x] /\ n \in attached THEN "rec_detach" ELSE "end_topology"
ReconcileStep(x, n) ==
    IF blocking[x] /\ n \notin attached THEN "rec_attach"
    ELSE IF ~blocking[x] /\ n \in attached THEN "rec_detach" ELSE "end_topology"

Reconcile(t) ==
    /\ pc[t] = "reconcile"
    /\ Goto(t, ReconcileStep(arg[t], cur[t]))
    /\ overlooked' = overlooked \ {arg[t]}
    /\ UNCHANGED <<ctxVars, wakeVars, lockVars, topoVars, regVars, guardVars, blocking,
                   unread, waitVars, callVars, boundVars, poisoned, closing>>

ReconcileNative(t) ==
    /\ pc[t] \in {"rec_attach", "rec_detach"} /\ native = NoThread
    /\ \/ /\ attached' = IF pc[t] = "rec_attach" THEN attached \union {cur[t]}
                                                 ELSE attached \ {cur[t]}
          /\ Goto(t, "end_topology") /\ UNCHANGED faults
       \/ /\ faults < MaxFaults /\ faults' = faults + 1
          /\ Goto(t, "poison") /\ UNCHANGED attached
    /\ UNCHANGED <<ctxVars, wakeVars, lockVars, topoVars, listed, created, phase, target,
                   owner, topologyCb, guardVars, readerVars, waitVars, callVars,
                   calls, arrivals, poisoned, closing>>

-----------------------------------------------------------------------------
(* WaitSet::wait.                                                          *)

Wait(w, k) ==
    /\ pc[w] = "idle" /\ ~shutdown
    /\ operations' = operations \union {w}
    /\ op' = [op EXCEPT ![w] = "wait"]
    /\ timeout' = [timeout EXCEPT ![w] = k] /\ expired' = [expired EXCEPT ![w] = FALSE]
    /\ Goto(w, "begin")
    /\ UNCHANGED <<shutdown, complete, wakeVars, lockVars, topoVars, regVars, guardVars,
                   readerVars, seenTopology, seenWake, todo, ready, waiting, arg, cur,
                   boundVars, poisoned, closing>>

\* begin_wait: a poisoned set refuses, a second wait is Busy.
BeginWait(w) ==
    /\ pc[w] = "begin" /\ mutex = NoThread
    /\ waiting' = (waiting \/ ~poisoned)
    /\ Goto(w, IF poisoned \/ waiting THEN "op_end" ELSE "top")
    /\ UNCHANGED <<ctxVars, wakeVars, lockVars, topoVars, regVars, guardVars, readerVars,
                   timeout, expired, seenTopology, seenWake, todo, ready, callVars,
                   boundVars, poisoned, closing>>

\* repair_control_guard_if_needed: a broken control condition is replaced by a
\* fresh, untriggered one; a failed replacement poisons the set and fails wait.
Top(w) ==
    /\ pc[w] = "top"
    /\ ready' = [ready EXCEPT ![w] = {}]
    /\ IF broken
       THEN /\ native = NoThread
            /\ \/ /\ broken' = FALSE /\ control' = FALSE /\ topology' = topology + 1
                  /\ Goto(w, "is_shutdown") /\ UNCHANGED <<poisoned, faults>>
               \/ /\ faults < MaxFaults /\ faults' = faults + 1
                  /\ poisoned' = TRUE
                  /\ Goto(w, "wait_end") /\ UNCHANGED <<broken, control, topology>>
       ELSE Goto(w, "is_shutdown") /\ UNCHANGED <<broken, control, topology, poisoned, faults>>
    /\ UNCHANGED <<ctxVars, generation, lockVars, mutations, regVars, guardVars, readerVars,
                   timeout, expired, seenTopology, seenWake, todo, waiting, callVars,
                   calls, arrivals, closing>>

IsShutdown(w) ==
    /\ pc[w] = "is_shutdown"
    /\ Goto(w, IF shutdown THEN "wait_end" ELSE "observe_topology")
    /\ UNCHANGED <<ctxVars, wakeVars, lockVars, topoVars, regVars, guardVars, readerVars,
                   waitVars, callVars, boundVars, poisoned, closing>>

\* is_closing() passes through mutex_ before the first observation.
ObserveTopology(w) ==
    /\ pc[w] = "observe_topology" /\ mutex = NoThread
    /\ seenTopology' = [seenTopology EXCEPT ![w] = topology]
    /\ Goto(w, "observe_wake")
    /\ UNCHANGED <<ctxVars, wakeVars, lockVars, topoVars, regVars, guardVars, readerVars,
                   timeout, expired, seenWake, todo, ready, waiting, callVars, boundVars,
                   poisoned, closing>>

ObserveWake(w) ==
    /\ pc[w] = "observe_wake"
    /\ seenWake' = [seenWake EXCEPT ![w] = generation]
    /\ Goto(w, "snapshot")
    /\ UNCHANGED <<ctxVars, wakeVars, lockVars, topoVars, regVars, guardVars, readerVars,
                   timeout, expired, seenTopology, todo, ready, waiting, callVars, boundVars,
                   poisoned, closing>>

Snapshot(w) ==
    /\ pc[w] = "snapshot" /\ mutex = NoThread
    /\ todo' = [todo EXCEPT ![w] = {n \in listed : phase[n] = "Attached"}]
    /\ Goto(w, "scan")
    /\ UNCHANGED <<ctxVars, wakeVars, lockVars, topoVars, regVars, guardVars, readerVars,
                   timeout, expired, seenTopology, seenWake, ready, waiting, callVars,
                   boundVars, poisoned, closing>>

\* Registration::ready_mask of a waitable that is not a consuming one.
IsReady(x) == x \in Readers /\ blocking[x] /\ ~closing[x] /\ unread[x]

\* One registration of the snapshot, in any order: a closing waitable is
\* detached, a guard consumes its trigger, a reader is only looked at.
Scan(w, n) ==
    LET x == target[n] IN
    /\ pc[w] = "scan" /\ n \in todo[w]
    /\ todo' = [todo EXCEPT ![w] = @ \ {n}]
    /\ IF closing[x]
       THEN /\ cur' = [cur EXCEPT ![w] = n] /\ arg' = [arg EXCEPT ![w] = x]
            /\ Goto(w, "detach_cas") /\ UNCHANGED <<ready, consumed>>
       ELSE /\ ready' = [ready EXCEPT ![w] =
                  IF IsReady(x) \/ (x \in Guards /\ consumed[x] # triggered[x])
                  THEN @ \union {n} ELSE @]
            /\ consumed' = IF x \in Guards THEN [consumed EXCEPT ![x] = triggered[x]]
                                           ELSE consumed
            /\ UNCHANGED <<cur, arg, pc>>
    /\ UNCHANGED <<ctxVars, wakeVars, lockVars, topoVars, regVars, triggered, reported,
                   readerVars, timeout, expired, seenTopology, seenWake, waiting, op,
                   boundVars, poisoned, closing>>

\* A readiness set assembled across a topology change is not exposed.
Check(w) ==
    /\ pc[w] = "scan" /\ todo[w] = {}
    /\ Goto(w, IF topology # seenTopology[w] THEN "top"
               ELSE IF \/ ready[w] # {} \/ timeout[w] = "poll"
                       \/ timeout[w] = "finite" /\ expired[w] THEN "wait_end"
               ELSE "recheck")
    /\ reported' = IF topology # seenTopology[w] THEN reported
                   ELSE [g \in Guards |-> IF \E n \in ready[w] : target[n] = g
                                          THEN consumed[g] ELSE reported[g]]
    /\ UNCHANGED <<ctxVars, wakeVars, lockVars, topoVars, regVars, triggered, consumed,
                   readerVars, waitVars, callVars, boundVars, poisoned, closing>>

\* The topology is compared once more after the deadlines were computed; a
\* finite deadline that has passed is re-evaluated instead of waited for.
Recheck(w) ==
    /\ pc[w] = "recheck"
    /\ Goto(w, IF topology # seenTopology[w] \/ (timeout[w] = "finite" /\ expired[w])
               THEN "top" ELSE "handoff")
    /\ UNCHANGED <<ctxVars, wakeVars, lockVars, topoVars, regVars, guardVars, readerVars,
                   waitVars, callVars, boundVars, poisoned, closing>>

TopologyQuietAlways == TRUE
TopologyQuiet       == mutations = {}

\* wait_for_notification: topology_handoff_mutex_ once no mutation is active,
Handoff(w) ==
    /\ pc[w] = "handoff" /\ handoff = NoThread /\ TopologyQuiet
    /\ handoff' = w /\ Goto(w, "native_lock")
    /\ UNCHANGED <<ctxVars, wakeVars, native, mutex, conditions, callback, topoVars, regVars,
                   guardVars, readerVars, waitVars, callVars, boundVars, poisoned, closing>>

\* then native_mutex_ and clear_if_unchanged; the handoff mutex is released and
\* the native wait entered only if no notification came since ObserveWake.
NativeLock(w) ==
    /\ pc[w] = "native_lock" /\ native = NoThread
    /\ handoff' = NoThread
    /\ UNCHANGED generation
    /\ IF generation # seenWake[w]
       THEN Goto(w, "top") /\ UNCHANGED <<native, control, broken, faults>>
       ELSE \/ /\ control' = FALSE /\ native' = w /\ Goto(w, "native")
               /\ UNCHANGED <<broken, faults>>
            \/ /\ faults < MaxFaults /\ faults' = faults + 1
               /\ broken' = TRUE /\ Goto(w, "top") /\ UNCHANGED <<control, native>>
    /\ UNCHANGED <<ctxVars, mutex, conditions, callback, topoVars, regVars, guardVars,
                   readerVars, waitVars, callVars, calls, arrivals, poisoned, closing>>

\* An attached condition whose trigger value is true.
NativeTriggered == control \/ \E n \in attached : unread[target[n]]

NativeReturn(w) ==
    /\ pc[w] = "native"
    /\ NativeTriggered \/ (timeout[w] = "finite" /\ expired[w])
    /\ native' = NoThread /\ Goto(w, "top")
    /\ UNCHANGED <<ctxVars, wakeVars, handoff, mutex, conditions, callback, topoVars, regVars,
                   guardVars, readerVars, waitVars, callVars, boundVars, poisoned, closing>>

\* The native wait fails and wait() returns the error.
NativeFault(w) ==
    /\ pc[w] = "native" /\ faults < MaxFaults /\ faults' = faults + 1
    /\ native' = NoThread /\ Goto(w, "wait_end")
    /\ UNCHANGED <<ctxVars, wakeVars, handoff, mutex, conditions, callback, topoVars, regVars,
                   guardVars, readerVars, waitVars, callVars, calls, arrivals, poisoned, closing>>

\* WaitActivityGuard: end_wait.
WaitEnd(w) ==
    /\ pc[w] = "wait_end" /\ mutex = NoThread
    /\ waiting' = FALSE /\ Goto(w, "op_end")
    /\ ready' = [ready EXCEPT ![w] = {}]
    /\ UNCHANGED <<ctxVars, wakeVars, lockVars, topoVars, regVars, guardVars, readerVars,
                   timeout, expired, seenTopology, seenWake, todo, callVars, boundVars,
                   poisoned, closing>>

\* The finite deadline of an active wait passes.
Expire(w) ==
    /\ op[w] = "wait" /\ timeout[w] = "finite" /\ ~expired[w]
    /\ expired' = [expired EXCEPT ![w] = TRUE]
    /\ UNCHANGED <<ctxVars, wakeVars, lockVars, topoVars, regVars, guardVars, readerVars,
                   timeout, seenTopology, seenWake, todo, ready, waiting, callVars, boundVars,
                   poisoned, closing, pc>>

-----------------------------------------------------------------------------
(* Context::shutdown, seen from this WaitSet: its shutdown callback is one *)
(* WaitSetWake::notify.                                                    *)

Shutdown(t) ==
    /\ pc[t] = "idle" /\ "shutdown" \in Operations /\ calls[t] < MaxCalls
    /\ calls' = [calls EXCEPT ![t] = @ + 1]
    /\ shutdown' = TRUE
    /\ op' = [op EXCEPT ![t] = "shutdown"]
    /\ Goto(t, IF shutdown THEN "await_complete" ELSE "children")
    /\ UNCHANGED <<operations, complete, wakeVars, lockVars, topoVars, regVars, guardVars,
                   readerVars, waitVars, arg, cur, arrivals, faults, poisoned, closing>>

Children(t) ==
    /\ pc[t] = "children" /\ Bump /\ Goto(t, "children_wake")
    /\ UNCHANGED <<ctxVars, lockVars, topoVars, regVars, guardVars, readerVars, waitVars,
                   callVars, boundVars, poisoned, closing>>

ChildrenWake(t) ==
    /\ pc[t] = "children_wake" /\ SetControl /\ Goto(t, "drain")
    /\ UNCHANGED <<ctxVars, lockVars, topoVars, regVars, guardVars, readerVars, waitVars,
                   callVars, calls, arrivals, poisoned, closing>>

Drained       == operations = {}

\* The first caller waits until no OperationGuard is left, a later one until
\* the first has finished.
Drain(t) ==
    /\ \/ pc[t] = "drain" /\ Drained /\ complete' = TRUE
       \/ pc[t] = "await_complete" /\ complete /\ UNCHANGED complete
    /\ Goto(t, "op_end")
    /\ UNCHANGED <<shutdown, operations, wakeVars, lockVars, topoVars, regVars, guardVars,
                   readerVars, waitVars, callVars, boundVars, poisoned, closing>>

-----------------------------------------------------------------------------
(* Fast DDS: a sample arrives at a reader, the application takes it.       *)

DataArrives(r) ==
    /\ ~unread[r] /\ arrivals < MaxArrivals
    /\ arrivals' = arrivals + 1 /\ unread' = [unread EXCEPT ![r] = TRUE]
    /\ UNCHANGED <<ctxVars, wakeVars, lockVars, topoVars, regVars, guardVars, blocking, overlooked,
                   waitVars, callVars, calls, faults, poisoned, closing, pc>>

Take(r) ==
    /\ unread[r] /\ blocking[r] /\ unread' = [unread EXCEPT ![r] = FALSE]
    /\ UNCHANGED <<ctxVars, wakeVars, lockVars, topoVars, regVars, guardVars, blocking, overlooked,
                   waitVars, callVars, boundVars, poisoned, closing, pc>>

-----------------------------------------------------------------------------
\* The steps that continue an operation a thread has begun.
MutationStep(t) ==
    \/ Publish(t) \/ MutBump(t) \/ MutWake(t) \/ EndTopology(t) \/ Retire(t)
    \/ EndBump(t) \/ EndWake(t) \/ Poison(t)
    \/ DetachCas(t) \/ DetachLock(t) \/ Release(t) \/ DetachNative(t) \/ Unclaim(t)
    \/ Erase(t) \/ DetachUnlock(t)

ClientStep(t) ==
    \/ StageTrigger(t) \/ NotifyLock(t) \/ NotifyWake(t) \/ CloseCopy(t)
    \/ AddLock(t) \/ Claim(t) \/ AttachReader(t) \/ Claimed(t) \/ Insert(t)
    \/ InsertThrows(t) \/ AddUnlock(t)
    \/ RemoveFind(t) \/ BlockCopy(t) \/ BlockLock(t) \/ Reconcile(t) \/ ReconcileNative(t)
    \/ Children(t) \/ ChildrenWake(t) \/ Drain(t)

WaiterStep(w) ==
    \/ BeginWait(w) \/ Top(w) \/ IsShutdown(w) \/ ObserveTopology(w) \/ ObserveWake(w)
    \/ Snapshot(w) \/ (\E n \in Regs : Scan(w, n)) \/ Check(w) \/ Recheck(w) \/ Handoff(w)
    \/ NativeLock(w) \/ NativeReturn(w) \/ WaitEnd(w)

Call(t) ==
    \/ \E g \in Guards : Trigger(t, g) \/ CloseGuard(t, g)
    \/ \E x \in Waitables : Add(t, x)
    \/ \E n \in Regs : Remove(t, n)
    \/ \E r \in Readers : SetBlocking(t, r)
    \/ Shutdown(t)

Next ==
    \/ \E t \in Threads : MutationStep(t) \/ OpEnd(t)
    \/ \E t \in Clients : Call(t) \/ ClientStep(t)
    \/ \E w \in Waiters : WaiterStep(w) \/ NativeFault(w) \/ Expire(w)
    \/ \E w \in Waiters, k \in Timeouts : Wait(w, k)
    \/ \E r \in Readers : DataArrives(r) \/ Take(r)

Spec == Init /\ [][Next]_vars

\* Threads keep running inside an operation they have begun and deadlines pass;
\* nobody is obliged to begin an operation.  A mutator that waits for a mutex the
\* waiter takes and releases over and over gets it eventually (strong fairness).
Fairness ==
    /\ \A t \in Threads : SF_vars(MutationStep(t)) /\ WF_vars(OpEnd(t))
    /\ \A t \in Clients : WF_vars(ClientStep(t))
    /\ \A w \in Waiters : WF_vars(WaiterStep(w)) /\ WF_vars(Expire(w))

FairSpec == Spec /\ Fairness

-----------------------------------------------------------------------------
(* Properties.                                                             *)

ContextType == shutdown \in BOOLEAN /\ operations \subseteq Threads /\ complete \in BOOLEAN
WakeType == generation \in Nat /\ control \in BOOLEAN /\ broken \in BOOLEAN
TopologyType == topology \in Nat /\ mutations \subseteq Threads
LockType ==
    /\ handoff \in Waiters \union {NoThread} /\ native \in Waiters \union {NoThread}
    /\ mutex \in Clients \union {NoThread}
    /\ conditions \in [Regs -> Threads \union {NoThread}]
    /\ callback \in [Waitables -> Threads \union {NoThread}]
RegistrationType ==
    /\ listed \subseteq RegIds /\ created \in 0..MaxRegistrations
    /\ phase \in [Regs -> Phases] /\ target \in [Regs -> Waitables]
    /\ attached \subseteq RegIds /\ topologyCb \subseteq Readers
    /\ owner \in [Waitables -> RegIds]
GuardType ==
    /\ triggered \in [Guards -> 0..MaxTrigger] /\ consumed \in [Guards -> 0..MaxTrigger]
    /\ reported \in [Guards -> 0..MaxTrigger]
ReaderType ==
    /\ blocking \in [Readers -> BOOLEAN] /\ unread \in [Readers -> BOOLEAN]
    /\ overlooked \subseteq Waitables
FlagType == poisoned \in BOOLEAN /\ closing \in [Waitables -> BOOLEAN]
WaitType ==
    /\ timeout \in [Waiters -> {"poll", "finite", "infinite"}]
    /\ expired \in [Waiters -> BOOLEAN] /\ waiting \in BOOLEAN
    /\ seenTopology \in [Waiters -> Nat] /\ seenWake \in [Waiters -> Nat]
    /\ todo \in [Waiters -> SUBSET RegIds] /\ ready \in [Waiters -> SUBSET RegIds]
CallType ==
    /\ op \in [Threads -> AllOperations \union {"none", "wait"}]
    /\ arg \in [Threads -> Waitables] /\ cur \in [Threads -> RegIds]
PcType == pc \in [Threads -> Pcs]
BoundType ==
    /\ calls \in [Clients -> 0..MaxCalls] /\ arrivals \in 0..MaxArrivals
    /\ faults \in 0..MaxFaults

\* Every variable keeps the type of the member it stands for.
TypeOK ==
    /\ ContextType /\ WakeType /\ TopologyType /\ LockType /\ RegistrationType /\ GuardType
    /\ ReaderType /\ FlagType /\ WaitType /\ CallType /\ PcType /\ BoundType

\* A TopologyMutationGuard exists in the thread; it has also sent its wake.
Mutating(t)    == pc[t] \in MutationPcs \ {"publish", "end_bump", "end_wake"}
Reconciling(t) == Mutating(t) /\ pc[t] \notin {"mut_bump", "mut_wake"}

\* A thread asleep in the native wait holds native_mutex_.  Whoever is inside a
\* topology mutation and may need that mutex has woken the sleeper first: the
\* publication of the mutation, the wake and the clear of the control condition
\* never cross (the "handoff" of wait_for_notification).
MutatorWakesSleeper ==
    \A w \in Waiters, t \in Threads :
        pc[w] = "native" /\ Reconciling(t) => control \/ broken

\* The inductive strengthening: who holds native_mutex_ and the handoff mutex,
\* and that the handoff mutex keeps topology mutations out.
HandoffInv ==
    /\ \A w \in Waiters : pc[w] = "native" => native = w
    /\ \A w \in Waiters : pc[w] = "native_lock" => handoff = w
    /\ handoff # NoThread => mutations = {}
    /\ \A t \in Threads : Mutating(t) => t \in mutations
    /\ MutatorWakesSleeper

\* A thread asleep without a pending wake has seen every trigger of the guards
\* it waits on, or the triggering thread is still on its way to notify.
NoTriggerSleptOn ==
    \A w \in Waiters, n \in listed :
        /\ pc[w] = "native" /\ ~control /\ ~broken
        /\ phase[n] = "Attached" /\ target[n] \in Guards
        /\ consumed[target[n]] # triggered[target[n]]
        => \E t \in Threads : \/ arg[t] = target[n] /\ pc[t] \in {"notify_lock", "notify_wake"}
                              \/ t \in mutations \/ pc[t] \in {"end_bump", "end_wake"}

\* The native WaitSet never keeps the condition of a reader whose registration
\* is gone: a detached registration has no condition, and only the registration
\* that owns a reader, or is claiming or releasing it, has one attached.
NoStaleCondition ==
    \A n \in attached :
        /\ phase[n] \in {"Attached", "Detaching"}
        /\ \/ owner[target[n]] = n
           \/ \E t \in Clients : cur[t] = n /\ pc[t] = "claimed"

\* At most one live registration per waitable, and it is the one the waitable's
\* registration_id names, even while an older one is still being erased.
ExclusiveRegistration ==
    \A n \in listed : phase[n] = "Attached" =>
        owner[target[n]] = n /\ \A m \in listed : target[m] = target[n] /\ phase[m] = "Attached" => m = n

\* A registered reader that nothing but waits is busy with has its condition in
\* the native WaitSet exactly when it may block.
CapacityAgrees(n) ==
    /\ phase[n] = "Attached" /\ target[n] \in Readers /\ ~poisoned
    /\ \A t \in Threads : op[t] # "none" => op[t] = "wait" \/ arg[t] # target[n]
    => (n \in attached) = blocking[target[n]]

\* Outside a topology mutation and away from a pending capacity change, the
\* native WaitSet holds a reader's condition exactly when the reader may block,
\* unless the capacity changed while no topology callback was installed.
ConditionMatchesCapacity == \A n \in listed : target[n] \notin overlooked => CapacityAgrees(n)

\* The same without the exception: "a full Server must remove its reader condition
\* from the blocking topology" (message_type_test.cpp:788-789).
FullServerDetached == \A n \in listed : CapacityAgrees(n)

\* A trigger that a wait has consumed is in the result that wait returns, or in
\* the readiness set it is still assembling.
ConsumedIsReported ==
    \A g \in Guards : consumed[g] > reported[g] =>
        \E w \in Waiters : \E n \in ready[w] : target[n] = g

\* Shutdown is complete only when every thread has left its operation, and none
\* enters one afterwards.
ShutdownDrained ==
    complete => \A t \in Threads : op[t] \in {"none", "close", "shutdown"} \/ pc[t] = "idle"

\* A topology change always finishes, even against an infinite wait.
MutationFinishes == \A t \in Clients : (pc[t] = "publish") ~> (pc[t] = "idle")

\* A trigger of a registered guard is consumed by an active wait.
TriggerEndsWait ==
    \A w \in Waiters, n \in Regs :
        (/\ op[w] = "wait" /\ n \in listed /\ phase[n] = "Attached" /\ target[n] \in Guards
         /\ consumed[target[n]] # triggered[target[n]])
        ~> (\/ op[w] # "wait" \/ phase[n] # "Attached"
            \/ (target[n] \in Guards /\ consumed[target[n]] = triggered[target[n]]))

\* Unread data of a registered reader that may block ends an active wait.
UnreadEndsWait ==
    \A w \in Waiters, n \in Regs :
        (op[w] = "wait" /\ n \in listed /\ phase[n] = "Attached" /\ IsReady(target[n]))
        ~> (op[w] # "wait" \/ phase[n] # "Attached" \/ ~IsReady(target[n]))

\* Context::shutdown returns.
ShutdownCompletes == (\E t \in Clients : op[t] = "shutdown") ~> complete
=============================================================================
