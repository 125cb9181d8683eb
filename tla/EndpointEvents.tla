--------------------------- MODULE EndpointEvents ---------------------------
(***************************************************************************)
(* Status events of one Publisher or Subscriber: EventParentState          *)
(* (dmw/src/impl/event_parent_state.cpp, .hpp), Event::Impl                *)
(* (event_impl.cpp, .hpp), create_event and the endpoint's destructor      *)
(* (publisher_impl.cpp, subscriber_impl.cpp).                              *)
(*                                                                         *)
(* Fast DDS threads report status changes to the listener, users create,   *)
(* take and destroy Events, and one thread destroys the endpoint while     *)
(* Events may still be taken.  A step is one critical section of the       *)
(* source's mutex, one atomic access, or one Fast DDS call.  A status is   *)
(* abstracted to its cumulative count; every report counts one change.     *)
(***************************************************************************)
EXTENDS Integers, FiniteSets

CONSTANTS
    Events,       \* Event objects that users create
    EventTypes,   \* kinds of status
    Callbacks,    \* Fast DDS threads that may be in a listener callback
    GenMax,       \* largest value of a status generation
    IdMax,        \* largest registration id
    NoEvent       \* "no Event"

ASSUME EventAssumption ==
    /\ EventTypes # {} /\ IsFiniteSet(Callbacks)
    /\ GenMax \in Nat \ {0} /\ IdMax \in Nat \ {0}

VARIABLES
    slots,        \* slots_: type -> generation; one change per generation
    records,      \* events: the registered Events
    nextId,       \* next_event_registration_id_ (0 = wrapped)
    idOf,         \* Event -> its registration id (0 = none)
    exhausted, alive,
    install,      \* listener_state_
    installer,    \* the Event whose creation is installing
    ddsListener,  \* external: Fast DDS calls the listener
    gate,         \* CallbackInFlightGate: [accepting, inFlight]
    ev,           \* Event -> where its user is
    evType, cursor, seen, pending, closing,
    cb,           \* callback -> [at, type, limit, prev, all]
    dtor,         \* where the destructor of the endpoint is
    toClose,      \* records swapped out by close()
    quarantined,  \* the listener went to ProcessLifetime
    woken,        \* ghost: the WaitSet was notified after the last set_pending
    base, got     \* ghost: count at creation, and sum of all takes

sourceVars == <<slots, records, nextId, idOf, exhausted>>
userVars == <<ev, evType, cursor, seen, closing, base, got>>
lifeVars == <<alive, install, installer, ddsListener, dtor, toClose, quarantined>>
eventVars == <<slots, records, nextId, idOf, exhausted, ev, evType, cursor, seen,
               closing, base, got, alive, install, installer, ddsListener, dtor,
               toClose, quarantined, gate, cb, pending, woken>>

Idle == [at |-> "out", type |-> CHOOSE y \in EventTypes : TRUE, limit |-> 0,
         prev |-> 0, all |-> FALSE]
EventAt(e, place) == ev' = [ev EXCEPT ![e] = place]

EventInit ==
    /\ slots = [y \in EventTypes |-> 0]
    /\ records = {} /\ nextId = 1 /\ idOf = [e \in Events |-> 0]
    /\ exhausted = FALSE /\ alive = TRUE
    /\ install = "Detached" /\ installer = NoEvent /\ ddsListener = FALSE
    /\ gate = [accepting |-> TRUE, inFlight |-> 0]
    /\ ev = [e \in Events |-> "none"]
    /\ evType = [e \in Events |-> CHOOSE y \in EventTypes : TRUE]
    /\ cursor = [e \in Events |-> 0] /\ seen = [e \in Events |-> 0]
    /\ pending = [e \in Events |-> FALSE] /\ closing = [e \in Events |-> FALSE]
    /\ cb = [c \in Callbacks |-> Idle]
    /\ dtor = "none" /\ toClose = {} /\ quarantined = FALSE
    /\ woken = [e \in Events |-> TRUE]
    /\ base = [e \in Events |-> 0] /\ got = [e \in Events |-> 0]

-----------------------------------------------------------------------------
(* create_event *)

\* attach: wait while another creation installs the listener.
BeginCreateEvent(e) ==
    /\ ev[e] = "none" /\ alive /\ dtor = "none" /\ install # "Installing"
    /\ \E y \in EventTypes : evType' = [evType EXCEPT ![e] = y]
    /\ IF install = "Attached"
       THEN EventAt(e, "attached") /\ UNCHANGED <<install, installer>>
       ELSE EventAt(e, "installing") /\ install' = "Installing" /\ installer' = e
    /\ UNCHANGED <<sourceVars, cursor, seen, closing, base, got, alive, ddsListener,
                   dtor, toClose, quarantined, gate, cb, pending, woken>>

\* set_listener: a refusal, like an exception, resets the state and notifies.
FinishInstall(e, ok) ==
    /\ install' = IF ok THEN "Attached" ELSE "Detached"
    /\ installer' = NoEvent
InstallListener(e) ==
    /\ ev[e] = "installing"
    /\ \E ok \in BOOLEAN :
          /\ FinishInstall(e, ok)
          /\ ddsListener' = ok
          /\ EventAt(e, IF ok THEN "attached" ELSE "gone")
    /\ UNCHANGED <<sourceVars, evType, cursor, seen, closing, base, got, alive, dtor,
                   toClose, quarantined, gate, cb, pending, woken>>

\* snapshot(type), before the Event is registered.
TakeCursor(e) ==
    /\ ev[e] = "attached"
    /\ cursor' = [cursor EXCEPT ![e] = slots[evType[e]]]
    /\ base' = [base EXCEPT ![e] = slots[evType[e]]]
    /\ EventAt(e, "cursor")
    /\ UNCHANGED <<sourceVars, evType, seen, closing, got, lifeVars, gate, cb, pending, woken>>

\* register_event: ids that would wrap exhaust the source.
RegisterEvent(e) ==
    IF exhausted \/ nextId = 0
    THEN /\ exhausted' = TRUE /\ EventAt(e, "gone")
         /\ UNCHANGED <<nextId, idOf, records>>
    ELSE /\ nextId' = IF nextId = IdMax THEN 0 ELSE nextId + 1
         /\ idOf' = [idOf EXCEPT ![e] = nextId]
         /\ records' = records \cup {e}
         /\ EventAt(e, "live") /\ UNCHANGED exhausted
FinishCreateEvent(e) ==
    /\ ev[e] = "cursor"
    /\ RegisterEvent(e)
    /\ UNCHANGED <<slots, evType, cursor, seen, closing, base, got, lifeVars, gate, cb,
                   pending, woken>>

\* The Event cannot be allocated: unregister_event, and its id is spent.
CreateEventThrows(e) ==
    /\ ev[e] = "cursor" /\ ~exhausted /\ nextId # 0
    /\ nextId' = IF nextId = IdMax THEN 0 ELSE nextId + 1
    /\ EventAt(e, "gone")
    /\ UNCHANGED <<slots, records, idOf, exhausted, evType, cursor, seen, closing, base,
                   got, lifeVars, gate, cb, pending, woken>>

-----------------------------------------------------------------------------
(* Event::take and ~Event *)

\* take: the guards and the snapshot.  A dead parent or an exhausted source
\* is an error; no new generation is "nothing to take".
BeginTake(e) ==
    /\ ev[e] = "live" /\ alive /\ ~exhausted
    /\ slots[evType[e]] # cursor[e]
    /\ seen' = [seen EXCEPT ![e] = slots[evType[e]]]
    /\ EventAt(e, "taking")
    /\ UNCHANGED <<sourceVars, evType, cursor, closing, base, got, lifeVars, gate, cb,
                   pending, woken>>

\* take: report the difference, advance the cursor, clear_pending.
AdvanceCursorReread(e) ==
    /\ got' = [got EXCEPT ![e] = @ + (seen[e] - cursor[e])]
    /\ cursor' = [cursor EXCEPT ![e] = slots[evType[e]]]
AdvanceCursor(e) ==
    /\ got' = [got EXCEPT ![e] = @ + (seen[e] - cursor[e])]
    /\ cursor' = [cursor EXCEPT ![e] = seen[e]]
ClearPending(e) == pending' = [pending EXCEPT ![e] = FALSE]
FinishTake(e) ==
    /\ ev[e] = "taking"
    /\ AdvanceCursor(e)
    /\ ClearPending(e)
    /\ seen' = [seen EXCEPT ![e] = 0]
    /\ EventAt(e, "live")
    /\ UNCHANGED <<sourceVars, evType, closing, base, lifeVars, gate, cb, woken>>

\* ~Event: unregister_event, then close the wait state.
DestroyEvent(e) ==
    /\ ev[e] = "live"
    /\ records' = records \ {e}
    /\ closing' = [closing EXCEPT ![e] = TRUE]
    /\ cursor' = [cursor EXCEPT ![e] = 0] /\ base' = [base EXCEPT ![e] = 0]
    /\ got' = [got EXCEPT ![e] = 0] /\ pending' = [pending EXCEPT ![e] = FALSE]
    /\ woken' = [woken EXCEPT ![e] = TRUE]
    /\ EventAt(e, "gone")
    /\ UNCHANGED <<slots, nextId, idOf, exhausted, evType, seen, lifeVars, gate, cb>>

-----------------------------------------------------------------------------
(* Listener callbacks and EventParentState::update *)

\* A status changes and the callback passes the gate.
EnterCallback(c, y) ==
    /\ cb[c].at = "out" /\ ddsListener /\ gate.accepting
    /\ gate' = [gate EXCEPT !.inFlight = @ + 1]
    /\ cb' = [cb EXCEPT ![c] = [Idle EXCEPT !.at = "update", !.type = y]]
    /\ UNCHANGED <<sourceVars, userVars, lifeVars, pending, woken>>

\* update, its critical section: count, and mark the Events of the type; a
\* generation that would wrap exhausts the source and marks every Event.
UpdateTotals(c) ==
    LET y   == cb[c].type
        all == slots[y] = GenMax
        hit == {e \in records : all \/ evType[e] = y}
    IN  /\ cb[c].at = "update"
        /\ IF exhausted
           THEN /\ cb' = [cb EXCEPT ![c].at = "leave"]
                /\ UNCHANGED <<slots, exhausted, pending, woken>>
           ELSE /\ slots' = IF all THEN slots ELSE [slots EXCEPT ![y] = @ + 1]
                /\ exhausted' = all
                /\ pending' = [e \in Events |-> pending[e] \/ e \in hit]
                /\ woken' = [e \in Events |-> woken[e] /\ e \notin hit]
                /\ cb' = [cb EXCEPT ![c] = [@ EXCEPT !.at = "notify", !.all = all,
                             !.limit = (IF nextId = 0 THEN IdMax + 1 ELSE nextId) - 1]]
        /\ UNCHANGED <<records, nextId, idOf, userVars, lifeVars, gate>>

\* The Events a notification round still has to wake.
LeftToNotify(c) == {e \in records :
    /\ cb[c].all \/ evType[e] = cb[c].type
    /\ cb[c].prev < idOf[e] /\ idOf[e] <= cb[c].limit}

\* update, one turn of its notification loop, outside the mutex.
NotifyOne(c) ==
    /\ cb[c].at = "notify"
    /\ IF LeftToNotify(c) = {}
       THEN /\ cb' = [cb EXCEPT ![c].at = "leave"] /\ UNCHANGED woken
       ELSE \E e \in LeftToNotify(c) :
                /\ \A z \in LeftToNotify(c) : idOf[e] <= idOf[z]
                /\ cb' = [cb EXCEPT ![c].prev = idOf[e]]
                /\ woken' = [woken EXCEPT ![e] = TRUE]
    /\ UNCHANGED <<sourceVars, userVars, lifeVars, gate, pending>>

\* The gate's guard is destroyed.
LeaveCallback(c) ==
    /\ cb[c].at = "leave"
    /\ gate' = [gate EXCEPT !.inFlight = @ - 1]
    /\ cb' = [cb EXCEPT ![c] = Idle]
    /\ UNCHANGED <<sourceVars, userVars, lifeVars, pending, woken>>

-----------------------------------------------------------------------------
(* ~Publisher, ~Subscriber.  No operation of the endpoint itself runs. *)

\* close(): alive is cleared and the records are swapped out.
BeginDestroy ==
    /\ dtor = "none"
    /\ \A e \in Events : ev[e] \notin {"installing", "attached", "cursor"}
    /\ alive' = FALSE /\ dtor' = "close"
    /\ toClose' = records /\ records' = {}
    /\ UNCHANGED <<slots, nextId, idOf, exhausted, userVars, install, installer,
                   ddsListener, quarantined, gate, cb, pending, woken>>

\* close(): each swapped-out Event that still exists is closed.
CloseOne(e) == closing' = [closing EXCEPT ![e] = TRUE]
LeftToClose(e) == toClose \ {e}
CloseRecord ==
    /\ dtor = "close"
    /\ IF toClose = {} THEN /\ dtor' = "detach"
                            /\ UNCHANGED <<toClose, closing>>
       ELSE \E e \in toClose : /\ toClose' = LeftToClose(e)
                               /\ CloseOne(e)
                               /\ UNCHANGED dtor
    /\ UNCHANGED <<sourceVars, ev, evType, cursor, seen, base, got, alive, install,
                   installer, ddsListener, quarantined, gate, cb, pending, woken>>

\* set_listener(nullptr): unconfirmed, the listener goes to quarantine and
\* the endpoint stays with its Context.
DetachListener ==
    /\ dtor = "detach"
    /\ \/ /\ ddsListener' = FALSE /\ dtor' = "drain" /\ UNCHANGED quarantined
       \/ /\ quarantined' = ddsListener /\ dtor' = "left" /\ UNCHANGED ddsListener
    /\ UNCHANGED <<sourceVars, userVars, alive, install, installer, toClose, gate, cb,
                   pending, woken>>

\* drain_listeners: no new callback, and wait for those inside.
Drained == gate.inFlight = 0
StopAccepting ==
    /\ dtor = "drain" /\ gate.accepting
    /\ gate' = [gate EXCEPT !.accepting = FALSE]
    /\ UNCHANGED <<sourceVars, userVars, lifeVars, cb, pending, woken>>
DeleteParent ==
    /\ dtor = "drain" /\ ~gate.accepting /\ Drained
    /\ dtor' = "deleted"
    /\ UNCHANGED <<sourceVars, userVars, alive, install, installer, ddsListener, toClose,
                   quarantined, gate, cb, pending, woken>>

CallbackStep(c) == UpdateTotals(c) \/ NotifyOne(c) \/ LeaveCallback(c)
CreateStep(e) == InstallListener(e) \/ TakeCursor(e) \/ FinishCreateEvent(e)
                 \/ CreateEventThrows(e)
DestroyStep == CloseRecord \/ DetachListener \/ StopAccepting \/ DeleteParent

EventNext ==
    \/ \E e \in Events : \/ BeginCreateEvent(e) \/ CreateStep(e)
                         \/ BeginTake(e) \/ FinishTake(e) \/ DestroyEvent(e)
    \/ \E c \in Callbacks : CallbackStep(c) \/ \E y \in EventTypes : EnterCallback(c, y)
    \/ BeginDestroy \/ DestroyStep

\* Threads inside an operation go on; nobody has to start one.
EventFairness ==
    /\ \A c \in Callbacks : WF_eventVars(CallbackStep(c))
    /\ \A e \in Events : WF_eventVars(CreateStep(e)) /\ WF_eventVars(FinishTake(e))
    /\ WF_eventVars(DestroyStep)

EventSpec == EventInit /\ [][EventNext]_eventVars /\ EventFairness

-----------------------------------------------------------------------------
(* Properties *)

\* Registered Events have distinct ids in range, and the gate counts the
\* callbacks inside.
EventTypeOK ==
    /\ slots \in [EventTypes -> 0..GenMax] /\ nextId \in 0..IdMax
    /\ \A d, e \in records : idOf[e] # 0 /\ (idOf[d] = idOf[e] => d = e)
    /\ gate.inFlight = Cardinality({c \in Callbacks : cb[c].at # "out"})
    /\ install \in {"Detached", "Installing", "Attached"}

\* Several Events of one status never swallow each other's changes: what an
\* Event has reported and what it has still to report add up to what was
\* counted since it was created.
NothingSwallowed ==
    \A e \in Events : ev[e] \in {"live", "taking"} =>
        got[e] + (slots[evType[e]] - cursor[e]) = slots[evType[e]] - base[e]

\* An Event is not ready for nothing: a ready Event has a generation to take
\* or an exhausted source to report.
NoSpuriousReady ==
    \A e \in Events : ev[e] = "live" /\ pending[e] =>
        exhausted \/ cursor[e] < slots[evType[e]]

\* Every Event that a status change made ready has its WaitSet notified, or
\* a callback is still on its way to do so, however many Events were created
\* and destroyed since the change was counted.
ReadyIsNotified ==
    \A e \in records : pending[e] /\ ~woken[e] =>
        \E c \in Callbacks : cb[c].at = "notify" /\ e \in LeftToNotify(c)

\* Once the endpoint is deleted no listener callback is inside its source;
\* while Fast DDS may still call the listener, the listener exists.
CallbacksDrained ==
    /\ dtor = "deleted" => /\ \A c \in Callbacks : cb[c].at = "out"
                           /\ ~ddsListener
    /\ dtor = "left" /\ ddsListener => quarantined

\* The Events of a destroyed endpoint are detached from their WaitSets
\* before the endpoint goes.
ParentClosesEvents ==
    dtor \in {"detach", "drain", "deleted", "left"} =>
        \A e \in Events : ev[e] \in {"live", "taking"} => closing[e]

\* create_event never hangs on another creation's listener installation,
\* whether that one succeeds or fails.
InstallationEnds == []<>(install # "Installing")

\* The destructor ends although callbacks keep arriving until the detach.
DestructionEnds == []<>(dtor \notin {"close", "detach", "drain"})

\* dmw_fastdds.md defines an Event as ready when the generation of its
\* source is larger than its cursor.
EventReadyUntilTaken ==
    \A e \in records : ev[e] = "live" /\ cursor[e] < slots[evType[e]] => pending[e]

\* Status changes reach the Events they belong to, in every order of the
\* listener, the takers and the destructor: none is swallowed or made up, each
\* ready Event is notified, and none is touched after its endpoint is deleted.
EventsDelivered ==
    /\ EventTypeOK
    /\ NothingSwallowed
    /\ NoSpuriousReady
    /\ ReadyIsNotified
    /\ CallbacksDrained
    /\ ParentClosesEvents

\* Neither a creation nor a destruction hangs on the threads it waits for.
EndpointEnds == InstallationEnds /\ DestructionEnds
=============================================================================
