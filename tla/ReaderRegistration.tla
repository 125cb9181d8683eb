-------------------------- MODULE ReaderRegistration --------------------------
(***************************************************************************)
(* The life of a DataReader between its owner and a WaitSet: add() of one  *)
(* or several readers under one token, remove() and the sweep of wait(),   *)
(* and ReaderWaitState::close() in the destructor of the owning endpoint,  *)
(* which must not delete a DataReader whose StatusCondition a native       *)
(* WaitSet still holds.                                                    *)
(*                                                                         *)
(* mutex_ is held by add() from its first to its last step.  A critical    *)
(* section of callback_mutex is one step, except in claim(), which calls   *)
(* clear_reader_claims() while it holds the mutex.  The wake-ups of the    *)
(* sleeping waiter are the subject of module WaitSet.                      *)
(***************************************************************************)
EXTENDS Integers, Sequences, FiniteSets

CONSTANTS
    Threads,           \* application threads
    Readers,           \* ReaderWaitStates
    Waitables,         \* the sequences of readers that are added together
    Operations,        \* which operations the threads of this instance call
    Failing,           \* which Fast DDS calls of this instance may fail
    MaxRegistrations,  \* bound: registration objects ever created
    MaxCalls,          \* bound: operations begun by one thread
    MaxFaults,         \* bound: Fast DDS calls that fail
    NoThread           \* a free mutex

Regs == 1..MaxRegistrations
\* "readd": the application may add a reader that is registered or closing.
AllOperations == {"add", "readd", "remove", "close"}

\* wait_states() names each channel of an endpoint once.
ASSUME ReaderRegistrationAssumption ==
    /\ NoThread \notin Threads /\ Readers # {}
    /\ Waitables \subseteq Seq(Readers) /\ Waitables # {} /\ << >> \notin Waitables
    /\ \A w \in Waitables : \A i, j \in DOMAIN w : w[i] = w[j] => i = j
    /\ Operations \subseteq AllOperations
    /\ Failing \subseteq {"attach", "rollback", "detach", "delete"}
    /\ MaxRegistrations \in Nat /\ MaxCalls \in Nat /\ MaxFaults \in Nat

VARIABLES
    mutex,       \* owner of WaitSetState::mutex_
    poisoned,    \* poisoned_
    listed,      \* keys of registrations_
    created,     \* registration objects created so far
    members,     \* Registration::readers
    phase,       \* Registration::phase
    condition,   \* Registration::reader_conditions: the <<n, r>> that are not null
    native,      \* the <<n, r>> whose condition the native WaitSet holds
    callback,    \* owner of callback_mutex, when held across steps
    claiming,    \* claim_in_progress
    closing,     \* closing
    owner,       \* registration_id, 0 when unclaimed; the callbacks go with it
    lifecycle,   \* Lifecycle
    deleted,     \* readers whose DDS DataReader is deleted
    pc, op, reg, idx, arg,
    failed,      \* a reader was found closing, or release() failed
    calls, faults

setVars    == <<poisoned, listed, created, members>>
nativeVars == <<condition, native>>
readerVars == <<claiming, closing, owner, lifecycle, deleted>>
callVars   == <<op, reg, idx, arg, failed>>
boundVars  == <<calls, faults>>

vars == <<mutex, setVars, phase, nativeVars, callback, readerVars, pc, callVars, boundVars>>

Init ==
    /\ mutex = NoThread /\ poisoned = FALSE /\ listed = {} /\ created = 0
    /\ members = [n \in Regs |-> << >>] /\ phase = [n \in Regs |-> "unused"]
    /\ condition = {} /\ native = {}
    /\ callback = [r \in Readers |-> NoThread] /\ claiming = [r \in Readers |-> FALSE]
    /\ closing = [r \in Readers |-> FALSE] /\ owner = [r \in Readers |-> 0]
    /\ lifecycle = [r \in Readers |-> "Open"] /\ deleted = {}
    /\ pc = [t \in Threads |-> "idle"] /\ op = [t \in Threads |-> "none"]
    /\ reg = [t \in Threads |-> 0] /\ idx = [t \in Threads |-> 1]
    /\ arg = [t \in Threads |-> CHOOSE r \in Readers : TRUE]
    /\ failed = [t \in Threads |-> FALSE]
    /\ calls = [t \in Threads |-> 0] /\ faults = 0

Goto(t, l)  == pc' = [pc EXCEPT ![t] = l]
Fault(k)    == k \in Failing /\ faults < MaxFaults /\ faults' = faults + 1 /\ UNCHANGED calls
NoFault     == UNCHANGED boundVars
Reader(t)   == members[reg[t]][idx[t]]
LastReader(t) == idx[t] = Len(members[reg[t]])
Free(r)     == callback[r] = NoThread

\* On to the next reader of the registration, or, after the last one, to l.
Advance(t, here, l) ==
    /\ idx' = [idx EXCEPT ![t] = IF LastReader(t) THEN 1 ELSE @ + 1]
    /\ Goto(t, IF LastReader(t) THEN l ELSE here)

Begin(t, o) ==
    /\ pc[t] = "idle" /\ calls[t] < MaxCalls
    /\ calls' = [calls EXCEPT ![t] = @ + 1] /\ UNCHANGED faults
    /\ op' = [op EXCEPT ![t] = o] /\ idx' = [idx EXCEPT ![t] = 1]
    /\ failed' = [failed EXCEPT ![t] = FALSE]

-----------------------------------------------------------------------------
(* WaitSetState::add and Registration::claim.                              *)

\* Without "readd" the application adds readers that are neither registered nor
\* closing when add() locks mutex_; they may start to close at any time after.
Add(t, s) ==
    /\ "add" \in Operations /\ Begin(t, "add") /\ created < MaxRegistrations
    /\ mutex = NoThread /\ ~poisoned
    /\ \/ "readd" \in Operations
       \/ \A i \in DOMAIN s : owner[s[i]] = 0 /\ ~closing[s[i]]
    /\ mutex' = t
    /\ created' = created + 1
    /\ reg' = [reg EXCEPT ![t] = created + 1]
    /\ members' = [members EXCEPT ![created + 1] = s]
    /\ phase' = [phase EXCEPT ![created + 1] = "Attached"]
    /\ Goto(t, "claim")
    /\ UNCHANGED <<poisoned, listed, nativeVars, callback, readerVars, arg>>

\* Claims the readers one lock at a time.  A reader that cannot be claimed sends
\* claim() into clear_reader_claims() with that reader's callback_mutex held.
Claim(t) ==
    LET r == Reader(t) IN
    /\ pc[t] = "claim" /\ Free(r)
    /\ IF closing[r] \/ owner[r] # 0 \/ claiming[r]
       THEN /\ callback' = [callback EXCEPT ![r] = t]
            /\ idx' = [idx EXCEPT ![t] = 1] /\ Goto(t, "clear")
            /\ UNCHANGED claiming
       ELSE /\ claiming' = [claiming EXCEPT ![r] = TRUE]
            /\ Advance(t, "claim", "attach") /\ UNCHANGED callback
    /\ UNCHANGED <<mutex, setVars, phase, nativeVars, closing, owner, lifecycle, deleted, op,
                   reg, arg, failed, boundVars>>

UnclaimMissing(r) == UNCHANGED claiming
Unclaim(r)        == claiming' = [claiming EXCEPT ![r] = FALSE]

\* clear_reader_claims: the callback_mutex of every reader in turn.
Clear(t) ==
    LET r == Reader(t) IN
    /\ pc[t] = "clear" /\ Free(r) /\ Unclaim(r)
    /\ Advance(t, "clear", "add_unlock")
    /\ UNCHANGED <<mutex, setVars, phase, nativeVars, callback, closing, owner, lifecycle,
                   deleted, op, reg, arg, failed, boundVars>>

\* attach_reader_conditions: a closing reader or a failed attach rolls back
\* what was attached; the result of those native detaches is ignored.
Attach(t) ==
    LET r == Reader(t) IN
    /\ pc[t] = "attach"
    /\ \/ /\ ~closing[r] /\ NoFault
          /\ native' = native \union {<<reg[t], r>>}
          /\ condition' = condition \union {<<reg[t], r>>}
          /\ Advance(t, "attach", "commit")
       \/ /\ \/ /\ IF closing[r] THEN NoFault ELSE Fault("attach")
                /\ native' = {c \in native : c[1] # reg[t]}
             \/ closing[r] /\ Fault("rollback") /\ UNCHANGED native
          /\ condition' = {c \in condition : c[1] # reg[t]}
          /\ idx' = [idx EXCEPT ![t] = 1] /\ Goto(t, "clear")
    /\ UNCHANGED <<mutex, setVars, phase, callback, readerVars, op, reg, arg, failed>>

\* Publishes the registration in every reader; a reader that began to close
\* meanwhile rolls the registration back with detach().
Commit(t) ==
    LET r == Reader(t) IN
    /\ pc[t] = "commit" /\ Free(r)
    /\ claiming' = [claiming EXCEPT ![r] = FALSE]
    /\ owner' = [owner EXCEPT ![r] = reg[t]]
    /\ failed' = [failed EXCEPT ![t] = @ \/ closing[r]]
    /\ Advance(t, "commit", IF failed[t] \/ closing[r] THEN "detach" ELSE "insert")
    /\ UNCHANGED <<mutex, setVars, phase, nativeVars, callback, closing, lifecycle, deleted, op,
                   reg, arg, boundVars>>

\* A registration that a closing reader is already detaching is released here
\* as well; otherwise it is listed.
Insert(t) ==
    /\ pc[t] = "insert"
    /\ IF phase[reg[t]] = "Attached"
       THEN listed' = listed \union {reg[t]} /\ Goto(t, "add_unlock")
       ELSE Goto(t, "release") /\ UNCHANGED listed
    /\ UNCHANGED <<mutex, poisoned, created, members, phase, nativeVars, callback, readerVars,
                   callVars, boundVars>>

AddUnlock(t) ==
    /\ pc[t] = "add_unlock" /\ mutex' = NoThread /\ Goto(t, "idle")
    /\ callback' = [r \in Readers |-> IF callback[r] = t THEN NoThread ELSE callback[r]]
    /\ UNCHANGED <<setVars, phase, nativeVars, readerVars, callVars, boundVars>>

-----------------------------------------------------------------------------
(* WaitSetState::detach, called by remove(), by wait() for a closing       *)
(* waitable, by close() and by the rollback of claim().                    *)

\* Also the sweep of wait(), which detaches a listed registration whose waitable
\* is closing.
Remove(t, n) ==
    /\ "remove" \in Operations /\ Begin(t, "remove") /\ mutex = NoThread /\ n \in listed
    /\ reg' = [reg EXCEPT ![t] = n]
    /\ Goto(t, "detach")
    /\ UNCHANGED <<mutex, setVars, phase, nativeVars, callback, readerVars, arg>>

\* Where detach() returns to.
Return(o) == IF o = "close" THEN "close_end" ELSE IF o = "add" THEN "add_unlock" ELSE "idle"

\* Exactly one thread detaches a registration; the others are told false.
DetachCas(t) ==
    /\ pc[t] = "detach"
    /\ IF phase[reg[t]] = "Attached"
       THEN /\ phase' = [phase EXCEPT ![reg[t]] = "Detaching"]
            /\ Goto(t, "release") /\ UNCHANGED failed
       ELSE /\ failed' = [failed EXCEPT ![t] = TRUE]
            /\ Goto(t, Return(op[t])) /\ UNCHANGED phase
    /\ UNCHANGED <<mutex, setVars, nativeVars, callback, readerVars, op, reg, idx, arg,
                   boundVars>>

\* What follows release(): add() ignores its result.
Released(t) == IF op[t] = "add" /\ ~failed[t] THEN "add_unlock" ELSE "erase"

\* Registration::release, one reader: skipped when it is no longer ours,
Release(t) ==
    LET r == Reader(t) IN
    /\ pc[t] = "release" /\ Free(r)
    /\ IF owner[r] # reg[t]
       THEN Advance(t, "release", Released(t))
       ELSE /\ Goto(t, IF <<reg[t], r>> \in condition THEN "rel_native" ELSE "rel_clear")
            /\ UNCHANGED idx
    /\ UNCHANGED <<mutex, setVars, phase, nativeVars, callback, readerVars, op, reg, arg,
                   failed, boundVars>>

\* its condition is detached natively (an error when it is attached no more),
RelNative(t) ==
    LET c == <<reg[t], Reader(t)>> IN
    /\ pc[t] = "rel_native"
    /\ \/ /\ c \in native /\ native' = native \ {c} /\ NoFault
          /\ Goto(t, "rel_clear")
       \/ /\ IF c \in native THEN Fault("detach") ELSE NoFault
          /\ Goto(t, IF Released(t) = "add_unlock" THEN "add_unlock" ELSE "rel_failed")
          /\ UNCHANGED native
    /\ UNCHANGED <<mutex, setVars, phase, condition, callback, readerVars, callVars>>

\* its identity and callbacks are cleared, if they are still ours,
RelClear(t) ==
    LET r == Reader(t) IN
    /\ pc[t] = "rel_clear" /\ Free(r)
    /\ IF owner[r] # reg[t]
       THEN Advance(t, "release", Released(t)) /\ UNCHANGED <<owner, condition>>
       ELSE /\ owner' = [owner EXCEPT ![r] = 0]
            /\ condition' = condition \ {<<reg[t], r>>}
            /\ Goto(t, "rel_delete") /\ UNCHANGED idx
    /\ UNCHANGED <<mutex, setVars, phase, native, callback, claiming, closing, lifecycle,
                   deleted, op, reg, arg, failed, boundVars>>

DueWhenRegistered(r) == lifecycle[r] = "DeleteDeferredByWaitSet" /\ owner[r] # 0
DeleteDue(r)         == lifecycle[r] = "DeleteDeferredByWaitSet" /\ owner[r] = 0

\* and complete_deferred_delete deletes a DataReader its owner has given up.
RelDelete(t) ==
    LET r == Reader(t) IN
    /\ pc[t] = "rel_delete"
    /\ \/ /\ DeleteDue(r) /\ NoFault
          /\ deleted' = deleted \union {r}
          /\ lifecycle' = [lifecycle EXCEPT ![r] = "Closed"]
       \/ /\ IF DeleteDue(r) THEN Fault("delete") ELSE NoFault
          /\ UNCHANGED <<deleted, lifecycle>>
    /\ Advance(t, "release", Released(t))
    /\ UNCHANGED <<mutex, setVars, phase, nativeVars, callback, claiming, closing, owner, op, reg,
                   arg, failed>>

\* A failed native detach keeps the registration and poisons the set.
RelFailed(t) ==
    /\ pc[t] = "rel_failed"
    /\ phase' = [phase EXCEPT ![reg[t]] = "Attached"]
    /\ failed' = [failed EXCEPT ![t] = TRUE]
    /\ Goto(t, "poison")
    /\ UNCHANGED <<mutex, setVars, nativeVars, callback, readerVars, op, reg, idx, arg,
                   boundVars>>

Poison(t) ==
    /\ pc[t] = "poison" /\ mutex = NoThread
    /\ poisoned' = TRUE /\ Goto(t, Return(op[t]))
    /\ UNCHANGED <<mutex, listed, created, members, phase, nativeVars, callback, readerVars,
                   callVars, boundVars>>

\* mutex_ is not recursive: the rollback inside add() waits for itself.
Erase(t) ==
    /\ pc[t] = "erase" /\ mutex = NoThread
    /\ listed' = listed \ {reg[t]}
    /\ phase' = [phase EXCEPT ![reg[t]] = "Detached"]
    /\ Goto(t, Return(op[t]))
    /\ UNCHANGED <<mutex, poisoned, created, members, nativeVars, callback, readerVars,
                   callVars, boundVars>>

-----------------------------------------------------------------------------
(* ReaderWaitState::close and the destructor of the owning endpoint.       *)

\* Readers that are added together belong to one endpoint.
Together(r, s) == \E w \in Waitables : {r, s} \subseteq {w[i] : i \in DOMAIN w}

\* The destructor of an endpoint closes its readers one after the other.
Close(t, r) ==
    /\ "close" \in Operations /\ Begin(t, "close") /\ ~closing[r] /\ Free(r)
    /\ \A u \in Threads : pc[u] # "idle" /\ op[u] = "close" => ~Together(r, arg[u])
    /\ closing' = [closing EXCEPT ![r] = TRUE]
    /\ arg' = [arg EXCEPT ![t] = r]
    /\ Goto(t, "close_wait")
    /\ UNCHANGED <<mutex, setVars, phase, nativeVars, callback, claiming, owner, lifecycle,
                   deleted, reg>>

ClaimSettledAlways(r) == TRUE
ClaimSettled(r)       == ~claiming[r]

\* Waits for a claim in progress, then runs the detach callback, if any.
CloseWait(t) ==
    LET r == arg[t] IN
    /\ pc[t] = "close_wait" /\ Free(r) /\ ClaimSettled(r)
    /\ reg' = [reg EXCEPT ![t] = owner[r]]
    /\ Goto(t, IF owner[r] # 0 THEN "detach" ELSE "close_end")
    /\ UNCHANGED <<mutex, setVars, phase, nativeVars, callback, readerVars, op, idx, arg,
                   failed, boundVars>>


\* Detached: the owner deletes the DataReader.  Not detached: the deletion is
\* left to the WaitSet.
CloseEnd(t) ==
    LET r == arg[t] IN
    /\ pc[t] = "close_end"
    /\ IF failed[t]
       THEN /\ lifecycle' = [lifecycle EXCEPT ![r] = "DeleteDeferredByWaitSet"]
            /\ Goto(t, "idle")
       ELSE lifecycle' = [lifecycle EXCEPT ![r] = "Closed"] /\ Goto(t, "close_delete")
    /\ UNCHANGED <<mutex, setVars, phase, nativeVars, callback, claiming, closing, owner,
                   deleted, callVars, boundVars>>

CloseDelete(t) ==
    /\ pc[t] = "close_delete" /\ deleted' = deleted \union {arg[t]} /\ Goto(t, "idle")
    /\ UNCHANGED <<mutex, setVars, phase, nativeVars, callback, claiming, closing, owner,
                   lifecycle, callVars, boundVars>>

-----------------------------------------------------------------------------
Step(t) ==
    \/ Claim(t) \/ Clear(t) \/ Attach(t) \/ Commit(t) \/ Insert(t) \/ AddUnlock(t)
    \/ DetachCas(t) \/ Release(t) \/ RelNative(t) \/ RelClear(t) \/ RelDelete(t)
    \/ RelFailed(t) \/ Poison(t) \/ Erase(t)
    \/ CloseWait(t) \/ CloseEnd(t) \/ CloseDelete(t)

Call(t) ==
    \/ \E s \in Waitables : Add(t, s)
    \/ \E n \in Regs : Remove(t, n)
    \/ \E r \in Readers : Close(t, r)

Next == \E t \in Threads : Call(t) \/ Step(t)

Spec == Init /\ [][Next]_vars

\* A thread finishes the operation it has begun.
FairSpec == Spec /\ \A t \in Threads : WF_vars(Step(t))

-----------------------------------------------------------------------------
(* Properties.                                                             *)

Pairs == Regs \X Readers
Pcs == {"idle", "claim", "clear", "attach", "commit", "insert", "add_unlock", "detach",
        "release", "rel_native", "rel_clear", "rel_delete", "rel_failed", "poison", "erase",
        "close_wait", "close_end", "close_delete"}

\* Every variable keeps the type of the member it stands for; the loops over the
\* readers of a registration stay within its vector.
TypeOK ==
    /\ mutex \in Threads \union {NoThread} /\ poisoned \in BOOLEAN
    /\ listed \subseteq Regs /\ created \in 0..MaxRegistrations
    /\ members \in [Regs -> Waitables \union {<< >>}]
    /\ phase \in [Regs -> {"unused", "Attached", "Detaching", "Detached"}]
    /\ condition \subseteq Pairs /\ native \subseteq Pairs
    /\ callback \in [Readers -> Threads \union {NoThread}]
    /\ claiming \in [Readers -> BOOLEAN] /\ closing \in [Readers -> BOOLEAN]
    /\ owner \in [Readers -> 0..MaxRegistrations]
    /\ lifecycle \in [Readers -> {"Open", "DeleteDeferredByWaitSet", "Closed"}]
    /\ deleted \subseteq Readers
    /\ pc \in [Threads -> Pcs] /\ op \in [Threads -> AllOperations \union {"none"}]
    /\ reg \in [Threads -> 0..MaxRegistrations] /\ arg \in [Threads -> Readers]
    /\ idx \in [Threads -> Nat \ {0}]
    /\ \A t \in Threads : idx[t] = 1 \/ (reg[t] # 0 /\ idx[t] \in DOMAIN members[reg[t]])
    /\ failed \in [Threads -> BOOLEAN]
    /\ calls \in [Threads -> 0..MaxCalls] /\ faults \in 0..MaxFaults

\* No DataReader is deleted while the native WaitSet holds its condition or a
\* thread that releases a registration still has a pointer to it.
NoDanglingCondition ==
    /\ \A c \in native : c[2] \notin deleted
    /\ \A t \in Threads : pc[t] = "rel_native" => Reader(t) \notin deleted

\* A deletion that close() left to the WaitSet is not forgotten: the reader is
\* still registered, or the thread that released it has yet to look.
DeferredIsPending ==
    \A r \in Readers : lifecycle[r] = "DeleteDeferredByWaitSet" =>
        \/ owner[r] # 0
        \/ \E t \in Threads : pc[t] = "rel_delete" /\ Reader(t) = r

\* A reader whose registration is gone can be added again: nothing but a claim
\* in progress keeps claim_in_progress, and only a live registration owns a
\* reader that is registered on its own.
NoStaleClaim ==
    \A r \in Readers :
        /\ claiming[r] => \E t \in Threads : pc[t] \in {"claim", "attach", "commit", "clear"}
        /\ owner[r] # 0 /\ phase[owner[r]] = "Detached" /\ (\A s \in Readers \ {r} : ~Together(r, s)) =>
              \E t \in Threads : pc[t] = "commit" /\ reg[t] = owner[r]

\* add() returns: with the token, or with an error such as AlreadyRegistered.
AddReturns == \A t \in Threads : (pc[t] = "claim") ~> (pc[t] = "idle")

\* Claims are taken and given back in pairs, whichever of close, remove and a
\* failed add comes first: no marker stays, and registrations stay well formed.
ClaimsBalanced == TypeOK /\ NoStaleClaim
=============================================================================
