-------------------------------- MODULE Server --------------------------------
(***************************************************************************)
(* dmw::Server: the bounded table of pending requests.  Threads read       *)
(* requests, respond to them and discard them at the same time; requests   *)
(* arrive, response readers match and disappear, the Context shuts down.   *)
(*                                                                         *)
(* A critical section of pending_mutex_ is one step.  The reader's         *)
(* capacity flag (ReaderWaitState::set_blocking_enabled) is changed after  *)
(* that mutex was released, in a step of its own.                          *)
(***************************************************************************)
EXTENDS Integers, Sequences, FiniteSets

CONSTANTS
    Threads,       \* application threads
    Requests,      \* request identities
    Targeted,      \* the requests that name their response reader
    Invalid,       \* a sample without valid data
    Unknown,       \* a sample whose sequence number is unknown
    MaxPending,    \* max_pending_requests
    Changes,       \* what the environment of this instance does
    MaxCalls,      \* bound: operations begun by one thread
    MaxArrivals,   \* bound: samples that arrive
    MaxFaults,     \* bound: calls that fail or throw
    NoThread       \* a free mutex

Samples    == Requests \union {Invalid, Unknown}
AllChanges == {"match", "unmatch", "remove", "degrade", "duplicate", "lose", "shutdown"}

ASSUME ServerAssumption ==
    /\ IsFiniteSet(Requests) /\ Targeted \subseteq Requests
    /\ Requests # {} /\ Invalid \notin Requests /\ Unknown \notin Requests
    /\ NoThread \notin Threads
    /\ MaxPending \in Nat \ {0}
    /\ Changes \subseteq AllChanges
    /\ MaxCalls \in Nat /\ MaxArrivals \in Nat /\ MaxFaults \in Nat

VARIABLES
    shutdown,      \* Context::is_shutdown
    inbox,         \* unread samples of the request reader
    sent,          \* requests that have arrived at least once
    readLock,      \* owner of request_read_mutex_
    phase,         \* pending_: the phase of a request, "none" when absent
    reservations,  \* reservations_
    blocking,      \* blocking_enabled of the request reader
    overtaken,     \* history: the reader was disabled for a table that had room again
    leaked,        \* history: reservations that nobody will release
    delivered,     \* requests that read_request has handed to the application
    matched,       \* ResponseState::readers_: requests whose reader is matched
    removed,       \* requests whose reader the discovery graph calls Removed
    degraded,      \* ResponseState::degraded_, or an unhealthy graph
    pc, req,
    full,          \* became_full
    left,          \* remaining
    after,         \* where the thread continues after the capacity change
    status,        \* the target status a thread has read from the graph
    second,        \* the second wait_for_target of write_claimed_response
    expired,       \* response_deadline has passed
    calls, arrivals, faults

tableVars  == <<phase, reservations, leaked>>
flagVars   == <<blocking, overtaken>>
targetVars == <<matched, removed, degraded>>
callVars   == <<req, full, left, after, status, second, expired>>
boundVars  == <<calls, arrivals, faults>>

vars == <<shutdown, inbox, sent, readLock, tableVars, flagVars, delivered, targetVars,
          pc, callVars, boundVars>>

-----------------------------------------------------------------------------
ReservedPcs == {"disable", "take", "unreserve", "insert"}
ReadPcs     == ReservedPcs \union {"reserve", "commit", "read_unlock"}
ClaimPcs    == {"claimed", "wait_status", "wait_eval", "asleep", "shutdown_check",
                "final_status", "final_eval", "write", "restore"}
Pcs         == ReadPcs \union ClaimPcs
               \union {"idle", "read_lock", "release", "enable", "restore_guard"}

Statuses == {"TimedOut", "Removed", "Unavailable"}

Pending == {r \in Requests : phase[r] # "none"}
Used    == Cardinality(Pending) + reservations

AnyRequest == CHOOSE r \in Requests : TRUE

Init ==
    /\ shutdown = FALSE /\ inbox = << >> /\ sent = {} /\ readLock = NoThread
    /\ phase = [r \in Requests |-> "none"] /\ reservations = 0 /\ leaked = 0
    /\ blocking = TRUE /\ overtaken = FALSE /\ delivered = {}
    /\ matched = Targeted /\ removed = {} /\ degraded = FALSE
    /\ pc = [t \in Threads |-> "idle"] /\ req = [t \in Threads |-> AnyRequest]
    /\ full = [t \in Threads |-> FALSE] /\ left = [t \in Threads |-> 0]
    /\ after = [t \in Threads |-> "idle"] /\ status = [t \in Threads |-> "TimedOut"]
    /\ second = [t \in Threads |-> FALSE] /\ expired = [t \in Threads |-> FALSE]
    /\ calls = [t \in Threads |-> 0] /\ arrivals = 0 /\ faults = 0

Goto(t, l)     == pc' = [pc EXCEPT ![t] = l]
Continue(t, l) == after' = [after EXCEPT ![t] = l]

\* A public operation begins: try_acquire_operation fails once shutdown began.
Begin(t) ==
    /\ pc[t] = "idle" /\ ~shutdown /\ calls[t] < MaxCalls
    /\ calls' = [calls EXCEPT ![t] = @ + 1]
    /\ UNCHANGED <<arrivals, faults>>

\* A call into Fast DDS, an allocation or the application's copy fails.
Fault == faults < MaxFaults /\ faults' = faults + 1 /\ UNCHANGED <<calls, arrivals>>

-----------------------------------------------------------------------------
(* Server::read_request.                                                   *)

Read(t) ==
    /\ Begin(t) /\ Goto(t, "read_lock")
    /\ UNCHANGED <<shutdown, inbox, sent, readLock, tableVars, flagVars, delivered, targetVars,
                   callVars>>

\* request_read_mutex_ is held until read_request returns.
ReadLock(t) ==
    /\ pc[t] = "read_lock" /\ readLock = NoThread
    /\ readLock' = t
    /\ left' = [left EXCEPT ![t] = Len(inbox)]
    /\ Goto(t, "reserve")
    /\ UNCHANGED <<shutdown, inbox, sent, tableVars, flagVars, delivered, targetVars, req, full,
                   after, status, second, expired, boundVars>>

HasRoomOffByOne == Used <= MaxPending
HasRoom         == Used < MaxPending

\* One turn of the loop: reserve_request_slot, or ResourceExhausted.
Reserve(t) ==
    /\ pc[t] = "reserve"
    /\ IF left[t] = 0 \/ ~HasRoom
       THEN Goto(t, "read_unlock") /\ UNCHANGED <<reservations, full, left>>
       ELSE /\ left' = [left EXCEPT ![t] = @ - 1]
            /\ reservations' = reservations + 1
            /\ full' = [full EXCEPT ![t] = (Used + 1 = MaxPending)]
            /\ Goto(t, IF Used + 1 = MaxPending THEN "disable" ELSE "take")
    /\ UNCHANGED <<shutdown, inbox, sent, readLock, phase, leaked, flagVars, delivered, targetVars,
                   req, after, status, second, expired, boundVars>>

Disable(t) ==
    /\ pc[t] = "disable" /\ blocking' = FALSE /\ Goto(t, "take")
    /\ overtaken' = (Used < MaxPending /\ \A u \in Threads : pc[u] # "enable")
    /\ UNCHANGED <<shutdown, inbox, sent, readLock, tableVars, delivered, targetVars, callVars,
                   boundVars>>

\* The destructive take: no data, a failure, a sample without valid data (the
\* loop continues), a sample without identity, or a request.  An exception, of
\* the take or of the first sample buffer, leaves the reservation behind.
Take(t) ==
    /\ pc[t] = "take"
    /\ \/ /\ inbox = << >>
          /\ Continue(t, "read_unlock") /\ Goto(t, "unreserve")
          /\ UNCHANGED <<inbox, leaked, req, boundVars>>
       \/ /\ Fault
          /\ Continue(t, "read_unlock") /\ Goto(t, "unreserve")
          /\ UNCHANGED <<inbox, leaked, req>>
       \/ /\ Fault /\ leaked' = leaked + 1
          /\ Goto(t, "read_unlock")
          /\ UNCHANGED <<inbox, req, after>>
       \/ /\ inbox # << >> /\ Head(inbox) \notin Requests
          /\ inbox' = Tail(inbox)
          /\ Continue(t, IF Head(inbox) = Invalid THEN "reserve" ELSE "read_unlock")
          /\ Goto(t, "unreserve")
          /\ UNCHANGED <<leaked, req, boundVars>>
       \/ /\ inbox # << >> /\ Head(inbox) \in Requests
          /\ inbox' = Tail(inbox)
          /\ req' = [req EXCEPT ![t] = Head(inbox)]
          /\ Goto(t, "insert")
          /\ UNCHANGED <<leaked, after, boundVars>>
    /\ UNCHANGED <<shutdown, sent, readLock, phase, reservations, flagVars, delivered, targetVars,
                   full, left, status, second, expired>>

\* release_request_reservation: the table was full before this slot was freed.
Unreserve(t) ==
    /\ pc[t] = "unreserve"
    /\ reservations' = reservations - 1
    /\ Goto(t, IF Used = MaxPending THEN "enable" ELSE after[t])
    /\ UNCHANGED <<shutdown, inbox, sent, readLock, phase, leaked, flagVars, delivered, targetVars,
                   callVars, boundVars>>

\* A request that is still pending is suppressed.
AfterDuplicateReleases(t) == "unreserve"
AfterDuplicate(t)         == IF full[t] THEN "enable" ELSE "reserve"

\* The reservation becomes a Pending entry.
Insert(t) ==
    LET r == req[t] IN
    /\ pc[t] = "insert"
    /\ reservations' = reservations - 1
    /\ \/ /\ phase[r] = "none"
          /\ phase' = [phase EXCEPT ![r] = "Pending"]
          /\ Goto(t, "commit") /\ UNCHANGED <<after, boundVars>>
       \/ /\ phase[r] # "none"
          /\ Continue(t, "reserve") /\ Goto(t, AfterDuplicate(t))
          /\ UNCHANGED <<phase, boundVars>>
       \/ /\ Fault
          /\ Continue(t, "read_unlock")
          /\ Goto(t, IF full[t] THEN "enable" ELSE "read_unlock") /\ UNCHANGED phase
    /\ UNCHANGED <<shutdown, inbox, sent, readLock, leaked, flagVars, delivered, targetVars, req, full,
                   left, status, second, expired>>

\* The sample is copied to the application, or its entry is released again.
Commit(t) ==
    /\ pc[t] = "commit"
    /\ Continue(t, "read_unlock")
    /\ \/ /\ delivered' = delivered \union {req[t]}
          /\ Goto(t, "read_unlock") /\ UNCHANGED boundVars
       \/ Fault /\ Goto(t, "release") /\ UNCHANGED delivered
    /\ UNCHANGED <<shutdown, inbox, sent, readLock, tableVars, flagVars, targetVars, req, full, left,
                   status, second, expired>>

ReadUnlock(t) ==
    /\ pc[t] = "read_unlock" /\ readLock' = NoThread /\ Goto(t, "idle")
    /\ UNCHANGED <<shutdown, inbox, sent, tableVars, flagVars, delivered, targetVars, callVars,
                   boundVars>>

-----------------------------------------------------------------------------
(* Releasing an entry and the capacity flag.                               *)

WasFull         == Used = MaxPending

\* release_pending_request.
Release(t) ==
    /\ pc[t] = "release"
    /\ phase' = [phase EXCEPT ![req[t]] = "none"]
    /\ Goto(t, IF WasFull THEN "enable" ELSE after[t])
    /\ UNCHANGED <<shutdown, inbox, sent, readLock, reservations, leaked, flagVars, delivered, targetVars,
                   callVars, boundVars>>

Enable(t) ==
    /\ pc[t] = "enable" /\ blocking' = TRUE /\ overtaken' = FALSE /\ Goto(t, after[t])
    /\ UNCHANGED <<shutdown, inbox, sent, readLock, tableVars, delivered, targetVars, callVars,
                   boundVars>>

\* Server::discard_request; an absent request is NotFound, a claimed one Busy.
Discard(t, r) ==
    /\ Begin(t) /\ r \in delivered /\ phase[r] = "Pending"
    /\ phase' = [phase EXCEPT ![r] = "none"]
    /\ Continue(t, "idle")
    /\ Goto(t, IF WasFull THEN "enable" ELSE "idle")
    /\ UNCHANGED <<shutdown, inbox, sent, readLock, reservations, leaked, flagVars, delivered, targetVars,
                   req, full, left, status, second, expired>>

-----------------------------------------------------------------------------
(* Server::write_response: claim_response, then write_claimed_response.    *)

CanRespondTwice(r) == phase[r] # "none"
CanRespond(r)      == phase[r] = "Pending"

\* claim_response; an absent request is NotFound, a claimed one Busy.
Respond(t, r) ==
    /\ Begin(t) /\ r \in delivered /\ CanRespond(r)
    /\ phase' = [phase EXCEPT ![r] = "Responding"]
    /\ req' = [req EXCEPT ![t] = r] /\ second' = [second EXCEPT ![t] = FALSE]
    /\ expired' = [expired EXCEPT ![t] = FALSE]
    /\ Continue(t, "restore_guard")
    /\ Goto(t, "claimed")
    /\ UNCHANGED <<shutdown, inbox, sent, readLock, reservations, leaked, flagVars, delivered, targetVars,
                   full, left, status>>

\* A second OperationGuard, then the deadline from the writer's QoS.
Acquire(t) ==
    /\ pc[t] = "claimed"
    /\ \/ shutdown /\ Goto(t, "restore_guard") /\ UNCHANGED boundVars
       \/ ~shutdown /\ Fault /\ Goto(t, "restore")
       \/ /\ ~shutdown /\ UNCHANGED boundVars
          /\ Goto(t, IF req[t] \in Targeted THEN "wait_status" ELSE "shutdown_check")
    /\ UNCHANGED <<shutdown, inbox, sent, readLock, tableVars, flagVars, delivered, targetVars,
                   callVars>>

\* ResponseState::target_status, read outside ResponseState::mutex_.
TargetStatus(r) ==
    IF degraded THEN "Unavailable" ELSE IF r \in removed THEN "Removed" ELSE "TimedOut"

ReadStatus(t) ==
    /\ \/ pc[t] = "wait_status" /\ Goto(t, "wait_eval")
       \/ pc[t] = "final_status" /\ Goto(t, "final_eval")
    /\ status' = [status EXCEPT ![t] = TargetStatus(req[t])]
    /\ UNCHANGED <<shutdown, inbox, sent, readLock, tableVars, flagVars, delivered, targetVars,
                   req, full, left, after, second, expired, boundVars>>

\* What follows the status: a lost target ends the request successfully.
Decide(t, ready, unmatched) ==
    IF degraded \/ status[t] = "Unavailable" THEN "restore"
    ELSE IF status[t] = "Removed" THEN "release"
    ELSE IF req[t] \in matched THEN ready ELSE unmatched

\* One evaluation inside wait_for_target.
WaitEval(t) ==
    /\ pc[t] = "wait_eval"
    /\ Goto(t, Decide(t, IF second[t] THEN "write" ELSE "shutdown_check", "asleep"))
    /\ UNCHANGED <<shutdown, inbox, sent, readLock, tableVars, flagVars, delivered, targetVars,
                   callVars, boundVars>>

\* The one absolute deadline of both waits passes; cv_.wait_until reports it
\* even if it is notified at the same time.
WaitPcs == {"wait_status", "wait_eval", "asleep", "shutdown_check", "final_status", "final_eval"}

Expire(t) ==
    /\ pc[t] \in WaitPcs /\ ~expired[t] /\ expired' = [expired EXCEPT ![t] = TRUE]
    /\ UNCHANGED <<shutdown, inbox, sent, readLock, tableVars, flagVars, delivered, targetVars,
                   pc, req, full, left, after, status, second, boundVars>>

TimedOut(t) ==
    /\ pc[t] = "asleep" /\ expired[t] /\ Goto(t, "restore")
    /\ UNCHANGED <<shutdown, inbox, sent, readLock, tableVars, flagVars, delivered, targetVars,
                   callVars, boundVars>>

\* The commit point: shutdown, then check_target, which does not wait itself
\* but sends an unmatched target through wait_for_target once more.
ShutdownCheck(t) ==
    /\ pc[t] = "shutdown_check"
    /\ Goto(t, IF shutdown THEN "restore"
               ELSE IF req[t] \in Targeted THEN "final_status" ELSE "write")
    /\ UNCHANGED <<shutdown, inbox, sent, readLock, tableVars, flagVars, delivered, targetVars,
                   callVars, boundVars>>

FinalEval(t) ==
    /\ pc[t] = "final_eval"
    /\ second' = [second EXCEPT ![t] = TRUE]
    /\ Goto(t, Decide(t, "write", "wait_status"))
    /\ UNCHANGED <<shutdown, inbox, sent, readLock, tableVars, flagVars, delivered, targetVars,
                   req, full, left, after, status, expired, boundVars>>

Write(t) ==
    /\ pc[t] = "write"
    /\ \/ Goto(t, "release") /\ UNCHANGED boundVars
       \/ Fault /\ Goto(t, "restore")
    /\ UNCHANGED <<shutdown, inbox, sent, readLock, tableVars, flagVars, delivered, targetVars,
                   callVars>>

ResetMissing(r) == UNCHANGED phase
\* A claim that is given up: the entry, if there is one, is Pending again.
Reset(r) == phase' = [phase EXCEPT ![r] = IF @ = "none" THEN "none" ELSE "Pending"]

\* Every failure resets the claim, and so does the RestorePending guard when
\* write_claimed_response returns, whether or not the reset was done before.
Restore(t) ==
    /\ \/ pc[t] = "restore" /\ Goto(t, "restore_guard")
       \/ pc[t] = "restore_guard" /\ Goto(t, "idle")
    /\ Reset(req[t])
    /\ UNCHANGED <<shutdown, inbox, sent, readLock, reservations, leaked, flagVars, delivered, targetVars,
                   callVars, boundVars>>

-----------------------------------------------------------------------------
(* The environment: samples, response readers, discovery, the Context.     *)

Arrive(s) ==
    /\ arrivals < MaxArrivals /\ arrivals' = arrivals + 1
    /\ s \in sent => "duplicate" \in Changes
    /\ inbox' = Append(inbox, s) /\ sent' = sent \union ({s} \intersect Requests)
    /\ UNCHANGED <<shutdown, readLock, tableVars, flagVars, delivered, targetVars, pc, callVars,
                   calls, faults>>

\* The reader's history drops its oldest unread sample.
Lose ==
    /\ "lose" \in Changes /\ inbox # << >> /\ inbox' = Tail(inbox)
    /\ UNCHANGED <<shutdown, sent, readLock, tableVars, flagVars, delivered, targetVars, pc,
                   callVars, boundVars>>

\* cv_.notify_all: a thread that is not asleep yet does not see it.
NotifyAll == pc' = [t \in Threads |-> IF pc[t] = "asleep" /\ ~expired[t] THEN "wait_status"
                                                                       ELSE pc[t]]

\* ResponseState::observe_reader.
Match(r) ==
    /\ \/ "match" \in Changes /\ r \notin matched \union removed
          /\ matched' = matched \union {r}
       \/ "unmatch" \in Changes /\ r \in matched /\ matched' = matched \ {r}
    /\ NotifyAll
    /\ UNCHANGED <<shutdown, inbox, sent, readLock, tableVars, flagVars, delivered, removed, degraded,
                   callVars, boundVars>>

\* The discovery graph reports a removed reader or becomes unhealthy, and
\* notify_dependency_change runs.
Discover(r) ==
    /\ \/ "remove" \in Changes /\ r \notin removed /\ removed' = removed \union {r}
          /\ UNCHANGED <<matched, degraded>>
       \/ "degrade" \in Changes /\ ~degraded /\ degraded' = TRUE /\ matched' = {}
          /\ UNCHANGED removed
    /\ NotifyAll
    /\ UNCHANGED <<shutdown, inbox, sent, readLock, tableVars, flagVars, delivered, callVars,
                   boundVars>>

Shutdown ==
    /\ "shutdown" \in Changes /\ ~shutdown /\ shutdown' = TRUE
    /\ UNCHANGED <<inbox, sent, readLock, tableVars, flagVars, delivered, targetVars, pc, callVars,
                   boundVars>>

-----------------------------------------------------------------------------
ReadStep(t) ==
    \/ ReadLock(t) \/ Reserve(t) \/ Disable(t) \/ Take(t) \/ Unreserve(t) \/ Insert(t)
    \/ Commit(t) \/ ReadUnlock(t)
RespondStep(t) ==
    \/ Acquire(t) \/ ReadStatus(t) \/ WaitEval(t) \/ TimedOut(t) \/ ShutdownCheck(t)
    \/ FinalEval(t) \/ Write(t) \/ Restore(t)
Step(t) == ReadStep(t) \/ RespondStep(t) \/ Release(t) \/ Enable(t)

Call(t) == Read(t) \/ \E r \in Requests : Respond(t, r) \/ Discard(t, r)

Next ==
    \/ \E t \in Threads : Call(t) \/ Step(t) \/ Expire(t)
    \/ \E s \in Samples : Arrive(s)
    \/ \E r \in Targeted : Match(r) \/ Discover(r)
    \/ Lose \/ Shutdown

Spec == Init /\ [][Next]_vars

\* A thread finishes the operation it has begun; the deadline of a target wait
\* (the writer's max_blocking_time, 100 ms) passes.
Fairness == \A t \in Threads : WF_vars(Step(t)) /\ WF_vars(Expire(t))
FairSpec == Spec /\ Fairness

-----------------------------------------------------------------------------
(* Properties.                                                             *)

TableType ==
    /\ phase \in [Requests -> {"none", "Pending", "Responding"}] /\ reservations \in Nat
    /\ leaked \in Nat /\ delivered \subseteq Requests
ReaderType ==
    /\ inbox \in Seq(Samples) /\ sent \subseteq Requests /\ blocking \in BOOLEAN
    /\ overtaken \in BOOLEAN
    /\ readLock \in Threads \union {NoThread}
TargetType == matched \subseteq Requests /\ removed \subseteq Requests /\ degraded \in BOOLEAN
CallType ==
    /\ req \in [Threads -> Requests] /\ full \in [Threads -> BOOLEAN]
    /\ left \in [Threads -> Nat] /\ after \in [Threads -> {"idle", "reserve", "read_unlock",
                                                           "restore_guard"}]
    /\ status \in [Threads -> Statuses] /\ second \in [Threads -> BOOLEAN]
    /\ expired \in [Threads -> BOOLEAN]
PcType == pc \in [Threads -> Pcs]
BoundType ==
    /\ calls \in [Threads -> 0..MaxCalls] /\ arrivals \in 0..MaxArrivals
    /\ faults \in 0..MaxFaults /\ shutdown \in BOOLEAN

\* Every variable keeps its type; in particular reservations_ never wraps below 0.
TypeOK == TableType /\ ReaderType /\ TargetType /\ CallType /\ PcType /\ BoundType

\* Pending, responding and reserved requests together never exceed
\* max_pending_requests, whatever reads, fails, responds or discards meanwhile.
CapacityBound == Used <= MaxPending

\* read_request runs under request_read_mutex_, so there is one reservation more
\* than those an exception left behind while a reader is between reserving and
\* inserting, and none more otherwise; and a responder that releases its entry is
\* no reader.
InRead(t) ==
    pc[t] \in ReadPcs \/ (pc[t] \in {"release", "enable"} /\ after[t] \in {"reserve", "read_unlock"})

LockHeld       == \A t \in Threads : InRead(t) => readLock = t
UnreserveAfter == \A t \in Threads : pc[t] = "unreserve" => after[t] \in {"reserve", "read_unlock"}
ClaimAfter     == \A t \in Threads : pc[t] \in ClaimPcs => after[t] = "restore_guard"
OneReservation ==
    /\ (\E t \in Threads : pc[t] \in ReservedPcs) => reservations = leaked + 1
    /\ (\A t \in Threads : pc[t] \notin ReservedPcs) => reservations = leaked

\* The table neither overflows nor shrinks: a reservation that is no reader's own
\* was left by a take that threw.  (A table whose takes threw max_pending_requests
\* times reads no request again; nothing in the code gives those slots back.)
CapacityKept == CapacityBound /\ OneReservation

ReservationInv == LockHeld /\ UnreserveAfter /\ ClaimAfter /\ OneReservation

\* A claim always has a thread that will resolve it: no request is left
\* Responding (Busy for ever) by a failure, a timeout or a shutdown.
NoOrphanClaim ==
    \A r \in Requests : phase[r] = "Responding" =>
        \E t \in Threads : /\ req[t] = r
                           /\ pc[t] \in ClaimPcs \union {"release", "restore_guard"}

\* At most one thread at a time is on its way to write a response to a request.
ClaimExclusive ==
    \A t, u \in Threads : pc[t] \in ClaimPcs /\ pc[u] \in ClaimPcs /\ req[t] = req[u] => t = u

\* With room in the table and no capacity change on its way, the request reader
\* takes part in blocking waits again, unless the last change was a Disable
\* decided before a slot was freed and applied after the reader was enabled.
RoomEnables ==
    /\ Used < MaxPending /\ ~overtaken
    /\ \A t \in Threads : pc[t] \notin {"disable", "enable"}
    => blocking

\* The same without that excuse, which a table of two or more requests needs.
RoomAlwaysEnables ==
    Used < MaxPending /\ (\A t \in Threads : pc[t] \notin {"disable", "enable"}) => blocking

\* A full server's request reader does not take part in blocking waits.
FullDisables ==
    Used = MaxPending /\ (\A t \in Threads : pc[t] \notin {"disable", "enable"}) => ~blocking

\* A claimed request is responded to, dropped or Pending again: write_response
\* never hangs on its target.
ClaimResolves == \A r \in Requests : []<>(phase[r] # "Responding")
=============================================================================
