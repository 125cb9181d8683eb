----------------------------- MODULE ServiceWait -----------------------------
(***************************************************************************)
(* Client::wait_for_service (dmw/src/impl/client_impl.cpp) and what it      *)
(* waits on: the DDS matches of RequestState (request.hpp), the discovery   *)
(* graph and the AvailabilityWaitState that wakes it.  ActionClient's        *)
(* wait_for_server (action_impl.cpp) is the same loop.                      *)
(*                                                                          *)
(* The graph appears as what service() reads from it.  A change of it is    *)
(* committed first and notified later (module DiscoveryGraph, ChangeWakes);  *)
(* "owed" counts the notifications still on their way.  Every access to the  *)
(* wait state is one region of its mutex and one action; notify_all() after  *)
(* the region is merged with it: a waiter that takes the mutex in between    *)
(* sees the new revision and does not sleep.                                *)
(***************************************************************************)
EXTENDS Naturals, FiniteSets

CONSTANTS
  Waiters,     \* threads that wait for the service
  Servers,     \* remote participants
  Timeouts,    \* kinds of WaitTimeout: a subset of Kinds
  Operations,  \* what happens during the waits
  MatchFirst,  \* Fast DDS reports a match before the endpoint's discovery
  Ros2,        \* RuntimeMode::ROS2: node metadata is required as well
  MaxWaits,    \* bound: waits per waiter
  MaxEvents    \* bound: discovery, match, metadata and control events

Kinds == {"poll", "finite", "infinite"}
Sides == {"request", "response"}

ASSUME ServiceAssumption ==
  /\ Timeouts \subseteq Kinds
  /\ MatchFirst \in BOOLEAN /\ Ros2 \in BOOLEAN
  /\ MaxWaits \in Nat /\ MaxEvents \in Nat

VARIABLES
  matches,        \* request_participants_, response_participants_
  matchDegraded,  \* RequestState::degraded_
  known,          \* endpoints of every server and side that the graph has
  adding,         \* new endpoints only one of matches and graph has been told of
  removing,       \* lost endpoints only one of them has been told of
  associated,     \* servers whose node association the graph has
  healthy,        \* health of the graph
  owed,           \* committed graph changes not yet notified
  unread,         \* servers with an unread metadata sample
  revision,       \* AvailabilityWaitState::revision
  generation,     \* interruption_generation_
  notified,       \* sleeping waiters a notify_all() has reached
  isShutdown,     \* Context: running, requested (callbacks to run), notified
  waiterPc, token, observed, snapshot, kind,
  waits, events

requestVars == <<matches, matchDegraded>>
graphVars == <<known, adding, removing, associated, healthy, owed, unread>>
waitVars == <<revision, generation, notified>>
waiterVars == <<waiterPc, token, observed, snapshot, kind, waits>>
serviceVars == <<requestVars, graphVars, waitVars, isShutdown, waiterVars, events>>

Counts == [Sides -> 0..MaxEvents]

ServiceTypeOK ==
  /\ matches \in [Servers -> Counts]
  /\ matchDegraded \in BOOLEAN
  /\ {known, adding, removing} \subseteq [Servers -> Counts]
  /\ associated \subseteq Servers
  /\ healthy \in BOOLEAN
  /\ owed \in Nat
  /\ unread \subseteq Servers
  /\ revision \in Nat /\ generation \in Nat
  /\ notified \subseteq Waiters
  /\ isShutdown \in {"running", "requested", "notified"}
  /\ waiterPc \in [Waiters -> {"idle", "prepared", "check", "query", "pair", "recheck", "asleep"}]
  /\ token \in [Waiters -> Nat] /\ observed \in [Waiters -> Nat]
  /\ snapshot \in [Waiters -> [Servers -> Counts]]
  /\ kind \in [Waiters -> Kinds]
  /\ waits \in [Waiters -> 0..MaxWaits]
  /\ events \in 0..MaxEvents

NoMatch == [p \in Servers |-> [s \in Sides |-> 0]]

ServiceInit ==
  /\ matches = NoMatch /\ matchDegraded = FALSE
  /\ known = NoMatch /\ adding = NoMatch /\ removing = NoMatch
  /\ associated = {}
  /\ healthy = TRUE /\ owed = 0 /\ unread = {}
  /\ revision = 0 /\ generation = 0 /\ notified = {}
  /\ isShutdown = "running"
  /\ waiterPc = [w \in Waiters |-> "idle"]
  /\ token = [w \in Waiters |-> 0] /\ observed = [w \in Waiters |-> 0]
  /\ snapshot = [w \in Waiters |-> NoMatch]
  /\ kind = [w \in Waiters |-> "poll"]
  /\ waits = [w \in Waiters |-> 0] /\ events = 0

-----------------------------------------------------------------------------
(* What the waits depend on *)

\* service(): the graph has both endpoints of p, and its nodes where required.
Complete(p) == (\A s \in Sides : known[p][s] > 0) /\ (Ros2 => p \in associated)

\* is_available(): some participant with as many request readers as response
\* writers matched, whose pairing the graph confirms.
PairedIn(m, p) == m[p]["request"] = m[p]["response"] /\ m[p]["request"] > 0

Available == healthy /\ ~matchDegraded /\ \E p \in Servers : PairedIn(matches, p) /\ Complete(p)

Asleep == {w \in Waiters : waiterPc[w] = "asleep"}

\* notify_revision(): ++revision, notify_all
BumpMissing ==
  /\ UNCHANGED revision
  /\ notified' = notified \cup Asleep
Bump ==
  /\ revision' = revision + 1
  /\ notified' = notified \cup Asleep

Event(op) ==
  /\ op \in Operations /\ events < MaxEvents
  /\ events' = events + 1

\* Fast DDS tells the matches and the graph of every endpoint, in the order
\* MatchFirst says: the first of the two is an event, the second follows it.
Plus(f, p, s) == [f EXCEPT ![p][s] = @ + 1]
Minus(f, p, s) == [f EXCEPT ![p][s] = @ - 1]

FirstAdd(p, s) == Event("add") /\ adding' = Plus(adding, p, s) /\ UNCHANGED removing
SecondAdd(p, s) == /\ adding[p][s] > 0 /\ adding' = Minus(adding, p, s)
                   /\ UNCHANGED <<removing, events>>
FirstRemove(p, s) == /\ Event("remove") /\ adding[p][s] = 0 /\ removing[p][s] < known[p][s]
                     /\ removing' = Plus(removing, p, s) /\ UNCHANGED adding
SecondRemove(p, s) == /\ removing[p][s] > 0 /\ removing' = Minus(removing, p, s)
                      /\ UNCHANGED <<adding, events>>

\* The decrement of update(): an unknown participant is ignored.
Unmatched(p, s) == IF matches[p][s] = 0 THEN matches ELSE Minus(matches, p, s)

\* RequestWriterListener and ResponseReaderListener: update() of RequestState.
MatchServer(p, s) ==
  /\ IF MatchFirst THEN FirstAdd(p, s) ELSE SecondAdd(p, s)
  /\ matches' = Plus(matches, p, s)
  /\ UNCHANGED <<matchDegraded, known, associated, healthy, owed, unread, waitVars, isShutdown,
                 waiterVars>>

Unmatch(p, s) ==
  /\ IF MatchFirst THEN FirstRemove(p, s) ELSE SecondRemove(p, s)
  /\ matches' = Unmatched(p, s)
  /\ UNCHANGED <<matchDegraded, known, associated, healthy, owed, unread, waitVars, isShutdown,
                 waiterVars>>

\* A listener that failed to record a match: degrade().
Degrade ==
  /\ Event("degrade")
  /\ matchDegraded' = TRUE
  /\ matches' = NoMatch
  /\ UNCHANGED <<graphVars, waitVars, isShutdown, waiterVars>>

\* Commits of the discovery graph; the notification follows.  An unhealthy
\* graph ignores them.
GraphCommit(change) ==
  /\ IF healthy THEN known' = change /\ owed' = owed + 1 ELSE UNCHANGED <<known, owed>>
  /\ UNCHANGED <<requestVars, associated, healthy, unread, waitVars, isShutdown, waiterVars>>

GraphAdd(p, s) ==
  /\ IF MatchFirst THEN SecondAdd(p, s) ELSE FirstAdd(p, s)
  /\ GraphCommit(Plus(known, p, s))

GraphRemove(p, s) ==
  /\ IF MatchFirst THEN SecondRemove(p, s) ELSE FirstRemove(p, s)
  /\ GraphCommit(Minus(known, p, s))

GraphUnavailable ==
  /\ Event("unavailable") /\ healthy
  /\ healthy' = FALSE
  /\ owed' = owed + 1
  /\ UNCHANGED <<requestVars, known, adding, removing, associated, unread, waitVars,
                 isShutdown, waiterVars>>

\* The subscription of the Client: notify_revision().
GraphNotify ==
  /\ owed > 0
  /\ owed' = owed - 1
  /\ Bump
  /\ UNCHANGED <<requestVars, known, adding, removing, associated, healthy, unread, generation,
                 isShutdown, waiterVars, events>>

\* ingest_from_listener(): a metadata sample has arrived, wake() the observers.
MetadataArrives(p) ==
  /\ Event("metadata") /\ Ros2
  /\ unread' = unread \cup {p}
  /\ Bump
  /\ UNCHANGED <<requestVars, known, adding, removing, associated, healthy, owed, generation,
                 isShutdown, waiterVars>>

\* interrupt_waits()
Interrupt ==
  /\ Event("interrupt")
  /\ generation' = generation + 1
  /\ Bump
  /\ UNCHANGED <<requestVars, graphVars, isShutdown, waiterVars>>

\* Context::shutdown(): the flag first, the callback of the Client after it.
ShutdownRequest ==
  /\ Event("shutdown") /\ isShutdown = "running"
  /\ isShutdown' = "requested"
  /\ UNCHANGED <<requestVars, graphVars, waitVars, waiterVars>>

ShutdownWakeMissing == UNCHANGED <<revision, notified>>
ShutdownWake == Bump

ShutdownNotify ==
  /\ isShutdown = "requested"
  /\ isShutdown' = "notified"
  /\ ShutdownWake
  /\ UNCHANGED <<requestVars, graphVars, generation, waiterVars, events>>

IsShutdown == isShutdown # "running"

-----------------------------------------------------------------------------
(* wait_for_service() *)

WaiterGoto(w, label) == waiterPc' = [waiterPc EXCEPT ![w] = label]

\* Which of true, false, Interrupted, ContextShutdown and DDSError a wait
\* answers is named for the reader and not kept.
Return(w, answer) == WaiterGoto(w, "idle")

\* prepare_availability_wait(), refused by a Context that is shut down.
Prepare(w) ==
  /\ waiterPc[w] = "idle" /\ waits[w] < MaxWaits /\ ~IsShutdown
  /\ waits' = [waits EXCEPT ![w] = @ + 1]
  /\ token' = [token EXCEPT ![w] = generation]
  /\ kind' \in {[kind EXCEPT ![w] = k] : k \in Timeouts}
  /\ WaiterGoto(w, "prepared")
  /\ UNCHANGED <<requestVars, graphVars, waitVars, isShutdown, observed, snapshot, events>>

\* The call with the token; its operation guard lasts until it returns.
BeginServiceWait(w) ==
  /\ waiterPc[w] = "prepared"
  /\ IF IsShutdown
     THEN Return(w, "shutdown")
     ELSE WaiterGoto(w, "check")
  /\ UNCHANGED <<requestVars, graphVars, waitVars, isShutdown, token, observed, snapshot, kind,
                 waits, events>>

\* interrupted(token)
Interrupted(w) == token[w] # generation

\* The first region of the loop: stop, or observe the revision.
Check(w) ==
  /\ waiterPc[w] = "check"
  /\ IF IsShutdown
     THEN Return(w, "shutdown") /\ UNCHANGED observed
     ELSE IF Interrupted(w)
     THEN Return(w, "interrupted") /\ UNCHANGED observed
     ELSE /\ observed' = [observed EXCEPT ![w] = revision]
          /\ WaiterGoto(w, "query")
  /\ UNCHANGED <<requestVars, graphVars, waitVars, isShutdown, token, snapshot, kind, waits,
                 events>>

\* ingest_pending(): the samples are folded into a healthy graph by this
\* thread, which notifies this very wait state.
Ingest ==
  /\ unread' = {}
  /\ IF healthy /\ ~(unread \subseteq associated)
     THEN associated' = associated \cup unread /\ Bump
     ELSE UNCHANGED <<associated, revision, notified>>

\* service_is_available(): metadata first, then a copy of the matches.
Query(w) ==
  /\ waiterPc[w] = "query"
  /\ IF Ros2 /\ ~IsShutdown THEN Ingest ELSE UNCHANGED <<unread, associated, revision,
                                                         notified>>
  /\ IF IsShutdown
     THEN Return(w, "shutdown") /\ UNCHANGED snapshot
     ELSE IF matchDegraded \/ ~healthy
     THEN Return(w, "error") /\ UNCHANGED snapshot
     ELSE /\ snapshot' = [snapshot EXCEPT ![w] = matches]
          /\ WaiterGoto(w, "pair")
  /\ UNCHANGED <<requestVars, known, adding, removing, healthy, owed, generation, isShutdown,
                 token, observed, kind, waits, events>>

\* The copy is compared with the graph; a poll returns either way.
Pair(w) ==
  /\ waiterPc[w] = "pair"
  /\ IF healthy /\ \E p \in Servers : PairedIn(snapshot[w], p) /\ Complete(p)
     THEN Return(w, "available")
     ELSE IF kind[w] = "poll"
     THEN Return(w, "timeout")
     ELSE WaiterGoto(w, "recheck")
  /\ snapshot' = [snapshot EXCEPT ![w] = NoMatch]
  /\ UNCHANGED <<requestVars, graphVars, waitVars, isShutdown, token, observed, kind, waits,
                 events>>

\* Nothing was notified since the first region.
QuietAlways(w) == TRUE
Quiet(w) == revision = observed[w]

\* The second region: stop, go round again, or sleep.
Recheck(w) ==
  /\ waiterPc[w] = "recheck"
  /\ IF IsShutdown
     THEN Return(w, "shutdown")
     ELSE IF Interrupted(w)
     THEN Return(w, "interrupted")
     ELSE WaiterGoto(w, IF Quiet(w) THEN "asleep" ELSE "check")
  /\ UNCHANGED <<requestVars, graphVars, waitVars, isShutdown, token, observed, snapshot, kind,
                 waits, events>>

\* A notified waiter evaluates its predicate and sleeps again when it is false.
Wake(w) ==
  /\ waiterPc[w] = "asleep" /\ w \in notified
  /\ notified' = notified \ {w}
  /\ WaiterGoto(w, IF IsShutdown \/ Interrupted(w) \/ ~Quiet(w) THEN "check" ELSE "asleep")
  /\ UNCHANGED <<requestVars, graphVars, revision, generation, isShutdown, token, observed,
                 snapshot, kind, waits, events>>

\* The deadline of a finite wait, before or during the sleep: wait_until()
\* reports false only while the predicate is false.
WaitExpires(w) ==
  /\ waiterPc[w] \in {"recheck", "asleep"} /\ kind[w] = "finite"
  /\ ~IsShutdown /\ ~Interrupted(w) /\ Quiet(w)
  /\ notified' = notified \ {w}
  /\ Return(w, "timeout")
  /\ UNCHANGED <<requestVars, graphVars, revision, generation, isShutdown, token, observed,
                 snapshot, kind, waits, events>>

-----------------------------------------------------------------------------
WaiterStep(w) == BeginServiceWait(w) \/ Check(w) \/ Query(w) \/ Pair(w) \/ Recheck(w) \/ Wake(w)

Endpoint(p, s) == MatchServer(p, s) \/ Unmatch(p, s) \/ GraphAdd(p, s) \/ GraphRemove(p, s)

\* The second report of an endpoint.
Settle(p, s) == Endpoint(p, s) /\ UNCHANGED events

Environment ==
  \/ \E p \in Servers, s \in Sides : Endpoint(p, s)
  \/ \E p \in Servers : MetadataArrives(p)
  \/ Degrade \/ GraphUnavailable \/ Interrupt \/ ShutdownRequest

ServiceNext ==
  \/ \E w \in Waiters : Prepare(w) \/ WaiterStep(w) \/ WaitExpires(w)
  \/ GraphNotify \/ ShutdownNotify \/ Environment

ServiceSpec == ServiceInit /\ [][ServiceNext]_serviceVars

\* Threads run, a committed change is notified, shutdown() calls its children
\* and Fast DDS completes what it has begun to report; nothing is assumed of
\* other events or of deadlines.
ServiceFairness ==
  /\ WF_serviceVars(GraphNotify) /\ WF_serviceVars(ShutdownNotify)
  /\ \A p \in Servers, s \in Sides : WF_serviceVars(Settle(p, s))
  /\ \A w \in Waiters : WF_serviceVars(WaiterStep(w))
ServiceFairSpec == ServiceSpec /\ ServiceFairness

-----------------------------------------------------------------------------
(* Properties *)

\* "would lose a notification between checking and sleeping"
\* (availability_wait_state.hpp): a waiter that sleeps and that no notify_all()
\* has reached has missed nothing, neither a revision nor an interruption, and
\* a shutdown only while its callback is still to come.
SleepMissesNothing ==
  \A w \in Asleep \ notified :
    /\ revision = observed[w]
    /\ token[w] = generation
    /\ isShutdown # "notified"

\* interrupt_waits(): every wait whose token is older returns, wherever the
\* interruption finds it, the gap between prepare and the call included.
InterruptEndsWait ==
  \A w \in Waiters : []<>(waiterPc[w] = "idle" \/ token[w] = generation)

\* Context::shutdown() ends every wait; it waits for their operation guards.
ShutdownEndsWait ==
  \A w \in Waiters : []<>(IsShutdown => waiterPc[w] = "idle")

\* A service that stays available ends every wait for it, without a timeout:
\* the wait is bound to the availability the graph and the matches define.
AvailabilityEndsWait ==
  \A w \in Waiters : (<>[]Available) => []<>(waiterPc[w] = "idle")

\* Nothing that must end a wait_for_service() is slept through: availability,
\* an interruption, a shutdown.
ServiceWaitEnds == AvailabilityEndsWait /\ InterruptEndsWait /\ ShutdownEndsWait
=============================================================================
