----------------------------- MODULE PyRequests -----------------------------
(***************************************************************************)
(* A service call of the Python library: Client.call_async, its Future,    *)
(* the SingleThreadedExecutor that owns the client, and the native         *)
(* dispatcher that writes the request (dclpy/client.py, executors.py,      *)
(* future.py, src/native_io.cpp, src/service_io.hpp).                      *)
(*                                                                         *)
(* Four kinds of threads meet here: application threads submit, cancel,    *)
(* close and shut down; the dispatcher's worker sends; the owner thread,   *)
(* which holds _spin_lock, commits the sends, takes the responses and runs *)
(* the callbacks; and the service answers, perhaps before the send has     *)
(* been committed.  A call stands for its operation id, its ticket and its *)
(* request id, which are unique.                                           *)
(*                                                                         *)
(* A step is one critical section of _lock, of a Future's condition or of  *)
(* the dispatcher.  What the owner does to a Future is one step: only the  *)
(* owner stops the executor, so nothing can come between its commit and    *)
(* its notifications but what remove_node refuses anyway.                  *)
(***************************************************************************)
EXTENDS Naturals, Sequences, FiniteSets

CONSTANTS
    PyCalls,       \* calls of call_async
    Nobody,        \* "no call"
    MaxEarly,      \* capacity of the staging of early responses (4096)
    MaxReplies,    \* bound on the copies of one response
    MaxMoves,      \* bound on the calls of remove_node
    MaxIoFaults    \* bound on the writes and submissions that fail

ASSUME PyAssumption ==
    /\ Nobody \notin PyCalls
    /\ MaxEarly \in Nat \ {0} /\ MaxReplies \in Nat
    /\ MaxMoves \in Nat /\ MaxIoFaults \in Nat

VARIABLES
    execState,       \* SingleThreadedExecutor._state
    submitter,       \* the call that holds _lock inside _submit_request
    hasRecord,       \* the client has an _EntityRecord
    inWaitSet,       \* ... with a registration in the WaitSet
    clientState,     \* "open", "asked" (_closing) or "closed" (native close())
    future,          \* Future._state with its outcome; "none" before the call
    kept,            \* Futures whose exception keeps the native work of the call
    callbacks,       \* Future._callbacks
    notifications,   \* SingleThreadedExecutor._notifications
    outbound,        \* _operations
    reconciled,      \* operations whose send has been committed
    unreconciled,    \* Client._unreconciled
    awaiting,        \* Client._pending
    early,           \* Client._early: request -> candidates, {} when absent
    tombstones,      \* Client._tombstones
    send,            \* the slot of the call in the dispatcher
    cancelRequested, \* ClientRequestWork::cancel_requested_
    queue, mailbox,  \* user_queue_ and the completions of the port
    wire,            \* external: requests the service has received
    replies, arrived, \* external: copies of a response written, and not yet taken
    taken,           \* responses the owner has taken
    spinner,         \* who holds _spin_lock: "none", "spin" or "shutdown"
    ownerAt, resume, \* where the owner is, and what follows _control
    closingSeen,     \* _control saw the client closing
    pin,             \* the ready batch holds a dispatch pin of the client
    wakeUp,          \* the control GuardCondition of the WaitSet
    raised,          \* an exception has left spin_once
    canceller,       \* where the thread in Future.cancel is, per call
    adder,           \* where the thread in add_done_callback is
    runs,            \* how often the application's callback has run
    moves, ioFaults

clientVars == <<outbound, reconciled, unreconciled, awaiting, early, tombstones>>
futureVars == <<future, callbacks, notifications>>
ioVars == <<send, cancelRequested, queue, mailbox>>
wireVars == <<wire, replies, arrived, taken>>
ownerVars == <<spinner, ownerAt, resume, closingSeen, pin, raised>>
appVars == <<canceller, adder, runs, moves, ioFaults>>
nodeVars == <<hasRecord, inWaitSet, clientState>>
pyVars == <<execState, submitter, kept, nodeVars, futureVars, clientVars, ioVars,
            wireVars, ownerVars, appVars, wakeUp>>

-----------------------------------------------------------------------------
LockFree == submitter = Nobody
Admitting == execState \in {"CREATED", "RUNNING"}
IsDone(o) == future[o] \notin {"none", "pending"}

\* The conditions of these Futures are free: no cancellation holds one.
Free(S) == \A o \in S : canceller[o] # "hooked"

\* Tickets that are accepted and not acknowledged, and what keeps the native
\* client alive: a ticket or an operation holds its WorkLease, a batch its pin,
\* and so does the traceback of the exception that a failed write or a refused
\* ticket left in its Future, which _futures holds until the executor stops.
Outstanding == {o \in PyCalls : send[o] \notin {"none", "acked"}}
Leases ==
    Outstanding \cup {o \in outbound : send[o] # "none"}
                \cup {o \in PyCalls : canceller[o] = "hooked"} \cup kept
Quiescent == Leases = {} /\ ~pin

\* _notification_producers: notifications that have begun and not ended.
ProducersUntilCommit == {o \in PyCalls : canceller[o] \in {"begun", "hooked"}
                                            \/ adder[o] = "begun"}
Producers == {o \in PyCalls : canceller[o] \in {"begun", "hooked", "committed"}
                                 \/ adder[o] = "begun"}

\* _finish of the Futures in S that are still pending, and the schedule of
\* their callbacks on the owner.
Finish(S, outcome) ==
    LET done == {o \in S : future[o] = "pending"}
    IN  /\ future' = [o \in PyCalls |-> IF o \in done THEN outcome ELSE future[o]]
        /\ notifications' = notifications
             \cup UNION {{o} \X callbacks[o] : o \in done}
        /\ callbacks' = [o \in PyCalls |-> IF o \in done THEN {} ELSE callbacks[o]]

\* _retire_candidate of the calls in S.
CandidatesKept(S) == early
WithoutCandidates(S) == [r \in PyCalls |-> early[r] \ S]
RetireCandidates(S) ==
    /\ unreconciled' = unreconciled \ S
    /\ early' = WithoutCandidates(S)

\* ClientRequestWork::cancel of the calls in S: a queued ticket completes as
\* skipped, a running one learns of it if it has not started to send.
CancelLosesTicket(S) ==
    LET keep(o) == o \notin S
    IN  /\ cancelRequested' = cancelRequested \cup S
        /\ queue' = SelectSeq(queue, keep)
        /\ send' = [o \in PyCalls |-> IF o \in S /\ send[o] = "queued"
                                      THEN "skipped" ELSE send[o]]
        /\ UNCHANGED mailbox
CancelWork(S) ==
    LET out(o) == o \in S
        keep(o) == o \notin S
    IN  /\ cancelRequested' = cancelRequested \cup S
        /\ queue' = SelectSeq(queue, keep)
        /\ mailbox' = mailbox \o SelectSeq(queue, out)
        /\ send' = [o \in PyCalls |-> IF o \in S /\ send[o] = "queued"
                                      THEN "skipped" ELSE send[o]]

\* Client._cancel_operation of the calls in S, and the removal of those whose
\* send has been committed.  Their request ids are known.
CancelOperations(S) ==
    LET known == S \cap reconciled
    IN  /\ CancelWork(S)
        /\ awaiting' = awaiting \ known
        /\ tombstones' = tombstones \cup known
        /\ unreconciled' = unreconciled \ S
        /\ early' = [r \in PyCalls |-> IF r \in known THEN {} ELSE early[r] \ S]
        /\ outbound' = outbound \ known
        /\ UNCHANGED reconciled

-----------------------------------------------------------------------------
PyInit ==
    /\ execState = "CREATED" /\ submitter = Nobody
    /\ hasRecord = TRUE /\ inWaitSet = TRUE /\ clientState = "open"
    /\ future = [o \in PyCalls |-> "none"]
    /\ callbacks = [o \in PyCalls |-> {}] /\ notifications = {} /\ kept = {}
    /\ outbound = {} /\ reconciled = {} /\ unreconciled = {}
    /\ awaiting = {} /\ tombstones = {}
    /\ early = [o \in PyCalls |-> {}]
    /\ send = [o \in PyCalls |-> "none"] /\ cancelRequested = {}
    /\ queue = <<>> /\ mailbox = <<>>
    /\ wire = {} /\ taken = {}
    /\ replies = [o \in PyCalls |-> 0] /\ arrived = [o \in PyCalls |-> 0]
    /\ spinner = "none" /\ ownerAt = "idle" /\ resume = "wait"
    /\ closingSeen = FALSE /\ pin = FALSE /\ raised = FALSE /\ wakeUp = FALSE
    /\ canceller = [o \in PyCalls |-> "idle"] /\ adder = [o \in PyCalls |-> "idle"]
    /\ runs = [o \in PyCalls |-> 0]
    /\ moves = 0 /\ ioFaults = 0

-----------------------------------------------------------------------------
(* Application threads. *)

\* _submit_request up to the construction of the native work, which releases
\* the interpreter lock while _lock stays held.
SubmitBegin(o) ==
    /\ future[o] = "none" /\ LockFree /\ Admitting /\ hasRecord
    /\ submitter' = o
    /\ future' = [future EXCEPT ![o] = "pending"]
    /\ outbound' = outbound \cup {o}
    /\ unreconciled' = unreconciled \cup {o}
    /\ UNCHANGED <<execState, nodeVars, callbacks, notifications, kept, reconciled,
                   awaiting, early, tombstones, ioVars, wireVars, ownerVars,
                   appVars, wakeUp>>

\* The work exists: hook, callback and ticket, then _lock is released.
SubmitSend(o) ==
    /\ submitter = o /\ clientState # "closed"
    /\ callbacks' = [callbacks EXCEPT ![o] = {"terminal"}]
    /\ send' = [send EXCEPT ![o] = "queued"]
    /\ queue' = Append(queue, o)
    /\ submitter' = Nobody
    /\ UNCHANGED <<execState, nodeVars, future, notifications, kept, clientVars,
                   cancelRequested, mailbox, wireVars, ownerVars, appVars, wakeUp>>

\* The work cannot be constructed (the client is closed), or the dispatcher
\* refuses the ticket: the call ends with the error.
SubmitFails(o) ==
    /\ submitter = o
    /\ \/ clientState = "closed" /\ UNCHANGED <<notifications, wakeUp, ioFaults, kept>>
       \/ /\ clientState # "closed" /\ ioFaults < MaxIoFaults
          /\ ioFaults' = ioFaults + 1
          /\ kept' = kept \cup {o}
          /\ notifications' = notifications \cup {<<o, "terminal">>}
          /\ wakeUp' = TRUE
    /\ RetireCandidates({o})
    /\ outbound' = outbound \ {o}
    /\ future' = [future EXCEPT ![o] = "exception"]
    /\ submitter' = Nobody
    /\ UNCHANGED <<execState, nodeVars, callbacks, reconciled, awaiting, tombstones,
                   ioVars, wireVars, ownerVars, canceller, adder, runs, moves>>

\* Future.cancel: the first check and the reservation of the notification.
CancelBegin(o) ==
    /\ canceller[o] = "idle" /\ future[o] = "pending"
    /\ LockFree /\ execState # "STOPPED"
    /\ canceller' = [canceller EXCEPT ![o] = "begun"]
    /\ UNCHANGED <<execState, submitter, kept, nodeVars, futureVars, clientVars, ioVars,
                   wireVars, ownerVars, adder, runs, moves, ioFaults, wakeUp>>

\* The second check, under the condition, finds the Future terminal.
CancelLoses(o) ==
    /\ canceller[o] = "begun" /\ IsDone(o) /\ LockFree
    /\ canceller' = [canceller EXCEPT ![o] = "done"]
    /\ wakeUp' = TRUE
    /\ UNCHANGED <<execState, submitter, kept, nodeVars, futureVars, clientVars, ioVars,
                   wireVars, ownerVars, adder, runs, moves, ioFaults>>

\* The native hook runs under the condition, before the state is set.
CancelHook(o) ==
    /\ canceller[o] = "begun" /\ future[o] = "pending"
    /\ canceller' = [canceller EXCEPT ![o] = "hooked"]
    /\ CancelWork({o})
    /\ wakeUp' = (wakeUp \/ send[o] = "queued")
    /\ UNCHANGED <<execState, submitter, kept, nodeVars, futureVars, clientVars,
                   wireVars, ownerVars, adder, runs, moves, ioFaults>>

CancelCommit(o) ==
    /\ canceller[o] = "hooked"
    /\ canceller' = [canceller EXCEPT ![o] = "committed"]
    /\ future' = [future EXCEPT ![o] = "canceled"]
    /\ UNCHANGED <<execState, submitter, kept, nodeVars, callbacks, notifications,
                   clientVars, ioVars, wireVars, ownerVars, adder, runs, moves,
                   ioFaults, wakeUp>>

\* _schedule of the callbacks and _end_future_notification.  An executor that
\* has stopped refuses them.
CancelSchedule(o) ==
    /\ canceller[o] = "committed" /\ LockFree
    /\ canceller' = [canceller EXCEPT ![o] = "done"]
    /\ notifications' = IF execState = "STOPPED" THEN notifications
                        ELSE notifications \cup ({o} \X callbacks[o])
    /\ callbacks' = [callbacks EXCEPT ![o] = {}]
    /\ wakeUp' = TRUE
    /\ UNCHANGED <<execState, submitter, kept, nodeVars, future, clientVars, ioVars,
                   wireVars, ownerVars, adder, runs, moves, ioFaults>>

\* add_done_callback by the application.
AddBegin(o) ==
    /\ adder[o] = "idle" /\ future[o] # "none"
    /\ LockFree /\ execState # "STOPPED"
    /\ adder' = [adder EXCEPT ![o] = "begun"]
    /\ UNCHANGED <<execState, submitter, kept, nodeVars, futureVars, clientVars, ioVars,
                   wireVars, ownerVars, canceller, runs, moves, ioFaults, wakeUp>>

AddDoneCallback(o) ==
    /\ adder[o] = "begun" /\ Free({o}) /\ LockFree
    /\ adder' = [adder EXCEPT ![o] = "done"]
    /\ \/ /\ future[o] = "pending"
          /\ callbacks' = [callbacks EXCEPT ![o] = @ \cup {"user"}]
          /\ UNCHANGED notifications
       \/ /\ IsDone(o)
          /\ notifications' = IF execState = "STOPPED" THEN notifications
                              ELSE notifications \cup {<<o, "user">>}
          /\ UNCHANGED callbacks
    /\ wakeUp' = TRUE
    /\ UNCHANGED <<execState, submitter, kept, nodeVars, future, clientVars, ioVars,
                   wireVars, ownerVars, canceller, runs, moves, ioFaults>>

\* Entity._request_close: the flag, then the native close and the wake.
CloseAsked ==
    /\ clientState = "open"
    /\ clientState' = "asked"
    /\ UNCHANGED <<execState, submitter, kept, hasRecord, inWaitSet, futureVars, clientVars,
                   ioVars, wireVars, ownerVars, appVars, wakeUp>>

CloseNative ==
    /\ clientState = "asked" /\ LockFree
    /\ clientState' = "closed"
    /\ wakeUp' = (wakeUp \/ hasRecord)
    /\ UNCHANGED <<execState, submitter, kept, hasRecord, inWaitSet, futureVars, clientVars,
                   ioVars, wireVars, ownerVars, appVars>>

RequestShutdown ==
    /\ LockFree /\ Admitting
    /\ execState' = "STOPPING"
    /\ wakeUp' = TRUE
    /\ UNCHANGED <<submitter, kept, nodeVars, futureVars, clientVars, ioVars, wireVars,
                   ownerVars, appVars>>

RemoveNode ==
    /\ LockFree /\ hasRecord /\ moves < MaxMoves
    /\ outbound = {} /\ Producers = {} /\ notifications = {}
    /\ \A o \in PyCalls : future[o] # "pending"
    /\ Quiescent
    /\ hasRecord' = FALSE /\ inWaitSet' = FALSE
    /\ moves' = moves + 1
    /\ wakeUp' = TRUE
    /\ UNCHANGED <<execState, submitter, kept, clientState, futureVars, clientVars, ioVars,
                   wireVars, ownerVars, canceller, adder, runs, ioFaults>>

AddNode ==
    /\ LockFree /\ Admitting /\ ~hasRecord /\ clientState = "open"
    /\ hasRecord' = TRUE /\ inWaitSet' = TRUE
    /\ wakeUp' = TRUE
    /\ UNCHANGED <<execState, submitter, kept, clientState, futureVars, clientVars, ioVars,
                   wireVars, ownerVars, appVars>>

-----------------------------------------------------------------------------
(* The worker of NativeIoDispatcher.  A request is sent at most once, so its *)
(* job is never retried.                                                     *)

InWorker == {o \in PyCalls : send[o] \in {"popped", "started", "written", "broken"}}

PopJob ==
    /\ InWorker = {} /\ queue # <<>>
    /\ send' = [send EXCEPT ![Head(queue)] = "popped"]
    /\ queue' = Tail(queue)
    /\ UNCHANGED <<execState, submitter, kept, nodeVars, futureVars, clientVars,
                   cancelRequested, mailbox, wireVars, ownerVars, appVars, wakeUp>>

\* ClientRequestWork::send: a cancelled request is skipped, any other is
\* marked as started before it is written.
MustSkip(o) == o \in cancelRequested

StartSend(o) ==
    /\ send[o] = "popped"
    /\ \/ /\ MustSkip(o)
          /\ send' = [send EXCEPT ![o] = "skipped"]
          /\ mailbox' = Append(mailbox, o)
          /\ wakeUp' = TRUE
       \/ /\ ~MustSkip(o)
          /\ send' = [send EXCEPT ![o] = "started"]
          /\ UNCHANGED <<mailbox, wakeUp>>
    /\ UNCHANGED <<execState, submitter, kept, nodeVars, futureVars, clientVars,
                   cancelRequested, queue, wireVars, ownerVars, appVars>>

WriteRequest(o) ==
    /\ send[o] = "started"
    /\ \/ /\ send' = [send EXCEPT ![o] = "written"]
          /\ wire' = wire \cup {o}
          /\ UNCHANGED ioFaults
       \/ /\ ioFaults < MaxIoFaults
          /\ ioFaults' = ioFaults + 1
          /\ send' = [send EXCEPT ![o] = "broken"]
          /\ UNCHANGED wire
    /\ UNCHANGED <<execState, submitter, kept, nodeVars, futureVars, clientVars,
                   cancelRequested, queue, mailbox, replies, arrived, taken,
                   ownerVars, canceller, adder, runs, moves, wakeUp>>

\* The completion is durable in the mailbox before the owner is notified.
CompleteJob(o) ==
    /\ send[o] \in {"written", "broken"}
    /\ send' = [send EXCEPT ![o] = IF @ = "written" THEN "sent" ELSE "failed"]
    /\ mailbox' = Append(mailbox, o)
    /\ wakeUp' = TRUE
    /\ UNCHANGED <<execState, submitter, kept, nodeVars, futureVars, clientVars,
                   cancelRequested, queue, wireVars, ownerVars, appVars>>

\* The service answers a request it has received; the network may repeat the
\* answer.  A tombstone lives for a limited time.
Reply(o) ==
    /\ o \in wire /\ replies[o] < MaxReplies
    /\ replies' = [replies EXCEPT ![o] = @ + 1]
    /\ arrived' = [arrived EXCEPT ![o] = @ + 1]
    /\ UNCHANGED <<execState, submitter, kept, nodeVars, futureVars, clientVars, ioVars,
                   wire, taken, ownerVars, appVars, wakeUp>>

TombstoneExpires(o) ==
    /\ o \in tombstones
    /\ tombstones' = tombstones \ {o}
    /\ UNCHANGED <<execState, submitter, kept, nodeVars, futureVars, outbound,
                   reconciled, unreconciled, awaiting, early, ioVars, wireVars,
                   ownerVars, appVars, wakeUp>>

-----------------------------------------------------------------------------
(* The owner: spin_once of the thread that spins, or the control loop of a  *)
(* thread in shutdown() that found _spin_lock free.                         *)

OwnerGoto(place) ==
    ownerAt' = place /\ UNCHANGED <<spinner, resume, closingSeen, pin, raised>>
EnterControl(then) ==
    /\ ownerAt' = "cancel" /\ resume' = then /\ pin' = FALSE
    /\ UNCHANGED <<spinner, closingSeen, raised>>
Leave == spinner' = "none" /\ ownerAt' = "idle" /\ pin' = FALSE

SpinBegin ==
    /\ spinner = "none" /\ LockFree /\ execState # "STOPPED"
    /\ spinner' = "spin" /\ ownerAt' = "cancel" /\ resume' = "wait"
    /\ execState' = IF execState = "CREATED" THEN "RUNNING" ELSE execState
    /\ UNCHANGED <<submitter, kept, nodeVars, futureVars, clientVars, ioVars, wireVars,
                   closingSeen, pin, raised, appVars, wakeUp>>

ShutdownBegin ==
    /\ spinner = "none" /\ execState = "STOPPING"
    /\ spinner' = "shutdown" /\ ownerAt' = "settle"
    /\ UNCHANGED <<execState, submitter, kept, nodeVars, futureVars, clientVars, ioVars,
                   wireVars, resume, closingSeen, pin, raised, appVars, wakeUp>>

\* _cancel_entity_operations for the client, and what else the caller fails.
CancelEntityOperations(others) ==
    /\ Free(outbound \cup others)
    /\ CancelOperations(outbound)
    /\ Finish(outbound \cup others, "exception")
    /\ wakeUp' = TRUE

\* _control: the operations of a client that closes, or of every client of
\* an executor that stops, are cancelled.
ControlCancel ==
    /\ ownerAt = "cancel" /\ LockFree
    /\ \/ /\ hasRecord /\ (clientState # "open" \/ execState = "STOPPING")
          /\ CancelEntityOperations({})
       \/ /\ ~(hasRecord /\ (clientState # "open" \/ execState = "STOPPING"))
          /\ UNCHANGED <<futureVars, clientVars, ioVars, wakeUp>>
    /\ closingSeen' = (hasRecord /\ clientState # "open")
    /\ ownerAt' = "drain"
    /\ UNCHANGED <<execState, submitter, kept, nodeVars, wireVars, spinner, resume, pin,
                   raised, appVars>>

\* _send_committed: what the commit of a send does to the correlation of the
\* client, and whether the operation stays to wait for its response.
SendCommitted(o) ==
    LET answered == early[o] # {}
        over == IsDone(o) \/ clientState # "open"
    IN  \/ /\ send[o] = "failed"
           /\ Finish({o}, "exception")
           /\ kept' = IF IsDone(o) THEN kept ELSE kept \cup {o}
           /\ outbound' = outbound \ {o}
           /\ UNCHANGED <<awaiting, tombstones>>
       \/ /\ send[o] = "skipped"
          /\ outbound' = outbound \ {o}
          /\ UNCHANGED <<futureVars, kept, awaiting, tombstones>>
       \/ /\ send[o] = "sent" /\ over
          /\ Finish({o}, "exception")
          /\ tombstones' = tombstones \cup {o}
          /\ outbound' = outbound \ {o}
          /\ UNCHANGED <<kept, awaiting>>
       \/ /\ send[o] = "sent" /\ ~over /\ answered
          /\ Finish({o}, "result")
          /\ tombstones' = tombstones \cup {o}
          /\ outbound' = outbound \ {o}
          /\ UNCHANGED <<kept, awaiting>>
       \/ /\ send[o] = "sent" /\ ~over /\ ~answered
          /\ awaiting' = awaiting \cup {o}
          /\ UNCHANGED <<futureVars, kept, tombstones, outbound>>

\* One turn of _drain_completions, to the acknowledgement of the ticket.
DrainOne(o) ==
    /\ ownerAt = "drain" /\ LockFree
    /\ mailbox # <<>> /\ o = Head(mailbox)
    /\ send[o] = "skipped" \/ Free({o})
    /\ SendCommitted(o)
    /\ unreconciled' = unreconciled \ {o}
    /\ early' = [WithoutCandidates({o}) EXCEPT
                   ![o] = IF send[o] = "sent" THEN {} ELSE @]
    /\ reconciled' = reconciled \cup {o}
    /\ send' = [send EXCEPT ![o] = "acked"]
    /\ mailbox' = Tail(mailbox)
    /\ wakeUp' = TRUE
    /\ UNCHANGED <<execState, submitter, nodeVars, cancelRequested, queue, wireVars,
                   ownerVars, appVars>>

DrainEnd ==
    /\ ownerAt = "drain" /\ mailbox = <<>>
    /\ OwnerGoto("unregister")
    /\ UNCHANGED <<execState, submitter, kept, nodeVars, futureVars, clientVars, ioVars,
                   wireVars, appVars, wakeUp>>

\* A client that was seen closing leaves the WaitSet, and its record and its
\* correlation go once the native entity is physically closed.
ClosedNow == clientState = "closed" /\ Quiescent

ControlUnregister ==
    /\ ownerAt = "unregister" /\ LockFree
    /\ inWaitSet' = (inWaitSet /\ ~closingSeen)
    /\ \/ /\ closingSeen /\ ClosedNow
          /\ hasRecord' = FALSE
          /\ awaiting' = {} /\ tombstones' = {} /\ unreconciled' = {}
          /\ early' = [o \in PyCalls |-> {}]
          /\ UNCHANGED <<outbound, reconciled>>
       \/ ~(closingSeen /\ ClosedNow) /\ UNCHANGED <<hasRecord, clientVars>>
    /\ OwnerGoto("notify")
    /\ UNCHANGED <<execState, submitter, kept, clientState, futureVars, ioVars, wireVars,
                   appVars, wakeUp>>

\* The notifications are run.  _operation_terminal is the library's own.
RunNotification(n) ==
    /\ ownerAt = "notify" /\ LockFree /\ n \in notifications
    /\ notifications' = notifications \ {n}
    /\ \/ /\ n[2] = "terminal" /\ n[1] \in outbound
          /\ CancelOperations({n[1]})
          /\ wakeUp' = (wakeUp \/ send[n[1]] = "queued")
          /\ UNCHANGED runs
       \/ /\ n[2] = "terminal" /\ n[1] \notin outbound
          /\ UNCHANGED <<clientVars, ioVars, wakeUp, runs>>
       \/ /\ n[2] = "user"
          /\ runs' = [runs EXCEPT ![n[1]] = @ + 1]
          /\ UNCHANGED <<clientVars, ioVars, wakeUp>>
    /\ UNCHANGED <<execState, submitter, kept, nodeVars, future, callbacks, wireVars,
                   ownerVars, canceller, adder, moves, ioFaults>>

NotifyEnd ==
    /\ ownerAt = "notify" /\ LockFree /\ notifications = {}
    /\ \/ resume = "barrier" /\ OwnerGoto("barrier")
       \/ resume # "barrier" /\ execState = "STOPPING" /\ OwnerGoto("settle")
       \/ resume = "wait" /\ execState # "STOPPING" /\ OwnerGoto("wait")
       \/ /\ resume = "end" /\ execState # "STOPPING"
          /\ Leave /\ UNCHANGED <<resume, closingSeen, raised>>
    /\ UNCHANGED <<execState, submitter, kept, nodeVars, futureVars, clientVars, ioVars,
                   wireVars, appVars, wakeUp>>

\* NativeWaitSet::wait: a batch with a dispatch pin when a response is
\* unread, unless the native client refuses the pin.
Ready == inWaitSet /\ \E o \in PyCalls : arrived[o] > 0

WaitReturns ==
    /\ ownerAt = "wait" /\ (wakeUp \/ Ready)
    /\ wakeUp' = FALSE
    /\ ownerAt' = "dispatch"
    /\ pin' = (Ready /\ clientState # "closed")
    /\ UNCHANGED <<execState, submitter, kept, nodeVars, futureVars, clientVars, ioVars,
                   wireVars, spinner, resume, closingSeen, raised, appVars>>

\* The batch is looked up under _lock; the response is taken without it.
Dispatch ==
    /\ ownerAt = "dispatch" /\ LockFree
    /\ \/ pin /\ execState = "RUNNING" /\ clientState = "open" /\ OwnerGoto("take")
       \/ ~(pin /\ execState = "RUNNING" /\ clientState = "open") /\ EnterControl("end")
    /\ UNCHANGED <<execState, submitter, kept, nodeVars, futureVars, clientVars, ioVars,
                   wireVars, appVars, wakeUp>>

Takes(r) ==
    /\ ownerAt = "take" /\ arrived[r] > 0
    /\ arrived' = [arrived EXCEPT ![r] = @ - 1]
    /\ taken' = taken \cup {r}
    /\ UNCHANGED <<wire, replies>>

\* _take_response: a response whose request has a tombstone is dropped.
TakeStale(r) ==
    /\ Takes(r) /\ r \in tombstones
    /\ EnterControl("end")
    /\ UNCHANGED <<execState, submitter, kept, nodeVars, futureVars, clientVars, ioVars,
                   appVars, wakeUp>>

TakeAnswer(r) ==
    /\ Takes(r) /\ r \in awaiting \ tombstones /\ LockFree /\ Free({r})
    /\ awaiting' = awaiting \ {r}
    /\ tombstones' = tombstones \cup {r}
    /\ outbound' = outbound \ {r}
    /\ Finish({r}, "result")
    /\ wakeUp' = TRUE
    /\ EnterControl("end")
    /\ UNCHANGED <<execState, submitter, kept, nodeVars, reconciled, unreconciled, early,
                   ioVars, appVars>>

\* Sends that may be the one this response answers.
CandidatesFirst == {u \in unreconciled : send[u] \in {"started", "written"}}
Candidates == {u \in unreconciled : send[u] \in {"started", "written", "broken",
                                                 "sent", "failed"}}
UnknownRequest(r) == r \notin awaiting \cup tombstones
Staged == {r \in PyCalls : early[r] # {}}
HasStagingRoom(r) == Candidates = {} \/ r \in Staged \/ Cardinality(Staged) < MaxEarly

\* A submission in progress has listed its operation and has no native work
\* yet: the scan of the candidates fails and spin_once raises.
TakeRaises(r) ==
    /\ Takes(r) /\ UnknownRequest(r) /\ submitter \in unreconciled
    /\ raised' = TRUE
    /\ Leave
    /\ UNCHANGED <<execState, submitter, kept, nodeVars, futureVars, clientVars, ioVars,
                   resume, closingSeen, appVars, wakeUp>>

TakeEarly(r) ==
    /\ Takes(r) /\ UnknownRequest(r) /\ submitter \notin unreconciled
    /\ HasStagingRoom(r)
    /\ early' = IF r \in Staged THEN early ELSE [early EXCEPT ![r] = Candidates]
    /\ EnterControl("end")
    /\ UNCHANGED <<execState, submitter, kept, nodeVars, futureVars, outbound, reconciled,
                   unreconciled, awaiting, tombstones, ioVars, appVars, wakeUp>>

\* The staging is full: the client is closed and its operations fail.
TakeOverflows(r) ==
    /\ Takes(r) /\ UnknownRequest(r) /\ LockFree /\ ~HasStagingRoom(r)
    /\ clientState' = "closed"
    /\ CancelEntityOperations({})
    /\ EnterControl("end")
    /\ UNCHANGED <<execState, submitter, kept, hasRecord, inWaitSet, appVars>>

\* _drain_shutdown: everything accepted ends with the cause, control runs
\* once more, and the executor stops when nothing is left.
Settle ==
    /\ ownerAt = "settle" /\ LockFree
    /\ \/ hasRecord /\ CancelEntityOperations(PyCalls)
       \/ /\ ~hasRecord /\ Free(PyCalls)
          /\ Finish(PyCalls, "exception") /\ wakeUp' = TRUE
          /\ UNCHANGED <<clientVars, ioVars>>
    /\ EnterControl("barrier")
    /\ UNCHANGED <<execState, submitter, kept, nodeVars, wireVars, appVars>>

NothingLeft ==
    /\ Producers = {} /\ notifications = {} /\ outbound = {}
    /\ hasRecord => Quiescent

Barrier ==
    /\ ownerAt = "barrier" /\ LockFree
    /\ \/ /\ NothingLeft
          /\ execState' = "STOPPED"
          /\ hasRecord' = FALSE /\ inWaitSet' = FALSE
          /\ Leave /\ UNCHANGED <<resume, closingSeen, raised, wakeUp>>
       \/ /\ ~NothingLeft /\ spinner = "spin"
          /\ Leave /\ UNCHANGED <<resume, closingSeen, raised, execState, hasRecord,
                                  inWaitSet, wakeUp>>
       \/ /\ ~NothingLeft /\ spinner = "shutdown"
          /\ OwnerGoto("settle") /\ wakeUp' = FALSE
          /\ UNCHANGED <<execState, hasRecord, inWaitSet>>
    /\ UNCHANGED <<submitter, kept, clientState, futureVars, clientVars, ioVars, wireVars,
                   appVars>>

-----------------------------------------------------------------------------
TakeStep == \E r \in PyCalls : TakeStale(r) \/ TakeAnswer(r) \/ TakeRaises(r)
                                 \/ TakeEarly(r) \/ TakeOverflows(r)
ControlStep == ControlCancel \/ (\E o \in PyCalls : DrainOne(o)) \/ DrainEnd
                 \/ ControlUnregister \/ (\E n \in notifications : RunNotification(n))
                 \/ NotifyEnd
ExecutorStep == ControlStep \/ WaitReturns \/ Dispatch \/ TakeStep \/ Settle \/ Barrier
WorkerStep == PopJob \/ \E o \in PyCalls : StartSend(o) \/ WriteRequest(o) \/ CompleteJob(o)
SubmitStep == \E o \in PyCalls : SubmitSend(o) \/ SubmitFails(o)
CancelStep == \E o \in PyCalls : CancelLoses(o) \/ CancelHook(o) \/ CancelCommit(o)
                                   \/ CancelSchedule(o) \/ AddDoneCallback(o)
ApplicationStep == \E o \in PyCalls : SubmitBegin(o) \/ CancelBegin(o) \/ AddBegin(o)
NodeStep == CloseAsked \/ RequestShutdown \/ RemoveNode \/ AddNode

PyNext ==
    \/ ExecutorStep \/ SpinBegin \/ ShutdownBegin
    \/ WorkerStep \/ SubmitStep \/ CancelStep \/ ApplicationStep \/ NodeStep
    \/ CloseNative
    \/ \E o \in PyCalls : Reply(o) \/ TombstoneExpires(o)

\* Threads inside a call go on; the thread in spin() spins until the executor
\* has stopped or spin_once has raised.  Nobody has to call anything else, and
\* no service has to answer.
PyFairness ==
    /\ WF_pyVars(ExecutorStep) /\ WF_pyVars(~raised /\ SpinBegin)
    /\ WF_pyVars(WorkerStep) /\ WF_pyVars(SubmitStep)
    /\ WF_pyVars(CancelStep) /\ WF_pyVars(CloseNative)

PySpec == PyInit /\ [][PyNext]_pyVars
PyFairSpec == PySpec /\ PyFairness

-----------------------------------------------------------------------------
PyTypeOK ==
    /\ execState \in {"CREATED", "RUNNING", "STOPPING", "STOPPED"}
    /\ submitter \in PyCalls \cup {Nobody}
    /\ hasRecord \in BOOLEAN /\ inWaitSet \in BOOLEAN
    /\ clientState \in {"open", "asked", "closed"}
    /\ future \in [PyCalls -> {"none", "pending", "result", "exception", "canceled"}]
    /\ callbacks \in [PyCalls -> SUBSET {"terminal", "user"}]
    /\ notifications \subseteq PyCalls \X {"terminal", "user"}
    /\ outbound \subseteq PyCalls /\ reconciled \subseteq PyCalls
    /\ kept \subseteq {o \in PyCalls : future[o] = "exception"}
    /\ unreconciled \subseteq PyCalls /\ awaiting \subseteq PyCalls
    /\ tombstones \subseteq PyCalls /\ cancelRequested \subseteq PyCalls
    /\ early \in [PyCalls -> SUBSET PyCalls]
    /\ Cardinality(Staged) <= MaxEarly
    /\ send \in [PyCalls -> {"none", "queued", "popped", "started", "written", "broken",
                             "sent", "failed", "skipped", "acked"}]
    /\ wire \subseteq PyCalls /\ taken \subseteq wire
    /\ \A o \in PyCalls : arrived[o] <= replies[o] /\ runs[o] <= 1
    /\ spinner \in {"none", "spin", "shutdown"}
    /\ (spinner = "none") = (ownerAt = "idle")

\* The correlation tables never name an operation the executor has forgotten:
\* _complete_request and the scan of the candidates look it up unchecked.
CorrelationIsLive ==
    /\ unreconciled \cup awaiting \subseteq outbound
    /\ awaiting \subseteq reconciled /\ unreconciled \cap reconciled = {}

\* Every accepted ticket belongs to an operation that is still listed, and is
\* in exactly one place, so that each completion finds its owner and the route
\* can retire as soon as no operation is left.
TicketHasOperation ==
    /\ Outstanding \subseteq outbound
    /\ \A o \in PyCalls :
         /\ send[o] = "queued" <=> \E i \in DOMAIN queue : queue[i] = o
         /\ send[o] \in {"sent", "failed", "skipped"}
              <=> \E i \in DOMAIN mailbox : mailbox[i] = o
    /\ Len(mailbox) + Len(queue) <= Cardinality(Outstanding)

\* A staged response waits for a send that is still to be committed: no entry
\* outlives its candidates.
StagedHasSender == \A r \in PyCalls : early[r] \subseteq unreconciled

\* A response that was taken for a call that still waits is staged for it, as
\* long as no exception has left spin_once.
TakenIsKept ==
    \A r \in taken : (future[r] = "pending" /\ ~raised) => r \in early[r]

\* A Future that is pending has an operation that will end it, or a
\* cancellation that is about to.
NoOrphanFuture ==
    \A o \in PyCalls : future[o] = "pending" => o \in outbound \/ canceller[o] = "hooked"

\* A ready batch is dispatched to the attachment it was made for.
BatchIsCurrent == pin => hasRecord /\ inWaitSet

\* When the executor has stopped nothing is left: every call has ended, every
\* callback that was accepted has run once, no ticket is out.
StoppedIsQuiet ==
    execState = "STOPPED" =>
      /\ Outstanding = {} /\ outbound = {} /\ notifications = {}
      /\ \A o \in PyCalls : /\ future[o] # "pending" /\ callbacks[o] = {}
                            /\ runs[o] = (IF adder[o] = "done" THEN 1 ELSE 0)

\* A shutdown that was requested ends, unless a Future keeps the work of a
\* write that failed.
ShutdownEnds == []<>~(execState = "STOPPING" /\ ~raised /\ kept = {})

\* A call that has ended is forgotten by the executor, its ticket included.
EndedIsReleased ==
    \A o \in PyCalls : []<>~(IsDone(o) /\ o \in outbound /\ ~raised)

\* A client that was closed is physically closed in the end, with the same
\* exception.
CloseEnds == []<>~(clientState = "closed" /\ hasRecord /\ ~raised /\ kept = {})

\* Both without the exception, which the code does not keep: _futures is cleared
\* only once the client is quiescent, and the client waits for the Future.
StopsAfterFailedWrite ==
    []<>~((execState = "STOPPING" \/ clientState = "closed") /\ hasRecord /\ ~raised)

\* The tables that client.py, native_io.cpp and executor.py keep apart agree
\* between any two steps of their threads: correlation, tickets, staged
\* responses, Futures and attachments belong to operations that are alive.
CallsCorrelated ==
    /\ PyTypeOK
    /\ CorrelationIsLive
    /\ TicketHasOperation
    /\ StagedHasSender
    /\ NoOrphanFuture
    /\ BatchIsCurrent

\* Every end of the executor is reached: a shutdown that was requested, the
\* release of a call that has ended, the close of a client.
CallsEnd == ShutdownEnds /\ EndedIsReleased /\ CloseEnds
=============================================================================
