--------------------------- MODULE DiscoveryGraph ---------------------------
(***************************************************************************)
(* The discovery graph of a Context (dmw/src/impl/discovery_graph.hpp) and  *)
(* the GraphEvents that observe it (dmw/src/impl/graph_impl.hpp).           *)
(*                                                                          *)
(* Fast DDS threads report participants and endpoints through the gated     *)
(* DiscoveryListener, application threads change local nodes, endpoints and *)
(* remote metadata.  Every change is committed under mutex_ (one action);   *)
(* the thread that committed it then copies the subscriber list and calls   *)
(* the subscribers one by one without mutex_ (one action per lock region).  *)
(* A GraphEvent is shared: its facade holds it, and so does every callback  *)
(* that has locked the weak pointer; whoever drops the last reference runs  *)
(* its destructor, which unsubscribes and drains.                           *)
(***************************************************************************)
EXTENDS Naturals, Sequences, FiniteSets, SequencesExt

CONSTANTS
  GraphThreads,     \* Fast DDS and application threads
  Participants,     \* GUID prefixes of remote participants
  Endpoints,        \* GUIDs of remote endpoints
  Home,             \* the prefix of every endpoint GUID
  Snapshots,        \* contents of a participant's node metadata, NoNodes included
  NoNodes,          \* the empty snapshot
  Nodes,            \* ids of local nodes
  LocalEndpoints,   \* GUIDs of local endpoints
  NoNode,           \* a local endpoint that is not registered
  Events,           \* GraphEvents
  NoEvent,
  Facade,           \* the public GraphEvent object, as a holder of its state
  GraphOperations,  \* the operations the threads may call
  MaxRevision,      \* the largest revision (UINT64_MAX in the code)
  MaxGraphCalls,    \* bound: calls per thread
  MaxGraphFaults    \* bound: failed allocations

ASSUME GraphAssumption ==
  /\ IsFiniteSet(GraphThreads) /\ IsFiniteSet(LocalEndpoints)
  /\ Home \in [Endpoints -> Participants]
  /\ NoNodes \in Snapshots
  /\ NoNode \notin Nodes
  /\ NoEvent \notin Events
  /\ Facade \notin GraphThreads
  /\ MaxRevision \in Nat /\ MaxGraphCalls \in Nat /\ MaxGraphFaults \in Nat

VARIABLES
  health,      \* health_
  revision,    \* revision_
  part,        \* lifecycle of the participant records, "none" without a record
  endp,        \* lifecycle of the endpoint records
  remote,      \* remote_nodes_
  references,  \* references of the local node records, 0 without a record
  facades,     \* local nodes whose Node facade is alive
  assoc,       \* local_endpoints_: the node of every registered local endpoint
  subs,        \* subscriptions_, in order
  accepting,   \* Subscriber::accepting
  inFlight,    \* Subscriber::in_flight
  cursor,      \* GraphEventState::cursor_
  holders,     \* who owns the GraphEventState
  stage,       \* life of a GraphEvent: none, initializing, open, closing, drained
  listener,    \* DiscoveryListener: open, closing, closed
  inListener,  \* threads inside a listener callback (in_flight_)
  graphPc,     \* where a thread is
  graphArg,    \* the GraphEvent a thread creates, takes from or destroys
  queue,       \* the subscribers a notifying thread has still to call
  graphCalls, graphFaults,
  noticed,     \* history: the revision and health an event's last wake has covered
  silent,      \* history: a notify() failed before it called anyone
  lost         \* history: the references of nodes that no endpoint will give back

records == <<part, endp, remote, references, assoc>>
graphVars == <<health, revision, records>>
localVars == <<facades, silent, lost>>
subVars == <<subs, accepting, inFlight>>
eventVars == <<cursor, holders, stage>>
listenerVars == <<listener, inListener>>
graphThreadVars == <<graphPc, graphArg, queue, graphCalls>>
discoveryVars == <<graphVars, localVars, subVars, eventVars, listenerVars, graphThreadVars,
                   graphFaults, noticed>>

Changes == {"Added", "Removed"}
Healths == {"Healthy", "Unavailable"}

InCallback == {"lock", "wake", "drop", "exit"}

GraphTypeOK ==
  /\ health \in Healths
  /\ revision \in 0..MaxRevision
  /\ part \in [Participants -> Changes \cup {"none"}]
  /\ endp \in [Endpoints -> Changes \cup {"none"}]
  /\ remote \in [Participants -> Snapshots]
  /\ references \in [Nodes -> Nat]
  /\ facades \subseteq Nodes
  /\ assoc \in [LocalEndpoints -> Nodes \cup {NoNode}]
  /\ subs \in Seq(Events)
  /\ accepting \in [Events -> BOOLEAN]
  /\ inFlight \in [Events -> Nat]
  /\ cursor \in [Events -> 0..MaxRevision]
  /\ holders \in [Events -> SUBSET (GraphThreads \cup {Facade})]
  /\ stage \in [Events -> {"none", "initializing", "open", "closing", "drained"}]
  /\ listener \in {"open", "closing", "closed"}
  /\ inListener \subseteq GraphThreads
  /\ graphPc \in [GraphThreads -> {"idle", "discover", "snapshot", "next", "subscribe", "take",
                         "close", "unsubscribe", "stop", "drain", "leave", "gate"}
                        \cup InCallback]
  /\ graphArg \in [GraphThreads -> Events \cup {NoEvent}]
  /\ queue \in [GraphThreads -> Seq(Events)]
  /\ graphCalls \in [GraphThreads -> 0..MaxGraphCalls]
  /\ graphFaults \in 0..MaxGraphFaults
  /\ noticed \in [Events -> [revision : 0..MaxRevision, health : Healths]]
  /\ silent \in BOOLEAN
  /\ lost \in [Nodes -> Nat]

GraphInit ==
  /\ health = "Healthy" /\ revision = 0
  /\ part = [p \in Participants |-> "none"]
  /\ endp = [g \in Endpoints |-> "none"]
  /\ remote = [p \in Participants |-> NoNodes]
  /\ references = [n \in Nodes |-> 0]
  /\ facades = {}
  /\ assoc = [l \in LocalEndpoints |-> NoNode]
  /\ subs = <<>>
  /\ accepting = [e \in Events |-> FALSE]
  /\ inFlight = [e \in Events |-> 0]
  /\ cursor = [e \in Events |-> 0]
  /\ holders = [e \in Events |-> {}]
  /\ stage = [e \in Events |-> "none"]
  /\ listener = "open" /\ inListener = {}
  /\ graphPc = [t \in GraphThreads |-> "idle"]
  /\ graphArg = [t \in GraphThreads |-> NoEvent]
  /\ queue = [t \in GraphThreads |-> <<>>]
  /\ graphCalls = [t \in GraphThreads |-> 0]
  /\ graphFaults = 0
  /\ noticed = [e \in Events |-> [revision |-> 0, health |-> "Healthy"]]
  /\ silent = FALSE
  /\ lost = [n \in Nodes |-> 0]

-----------------------------------------------------------------------------
(* Threads *)

GraphGoto(t, label) == graphPc' = [graphPc EXCEPT ![t] = label]

\* What a thread does after mutate() and notify(): a listener callback leaves
\* the listener, an application thread returns.
Done(t) == IF t \in inListener THEN "leave" ELSE "idle"

Starts(t, op) ==
  /\ graphPc[t] = "idle" /\ op \in GraphOperations /\ graphCalls[t] < MaxGraphCalls
  /\ graphCalls' = [graphCalls EXCEPT ![t] = @ + 1]

-----------------------------------------------------------------------------
(* mutate(): nothing on an unhealthy graph; an Invalid change, or one past   *)
(* the last revision, makes the graph Unavailable; all but Unchanged notify. *)

Admitted == health = "Healthy"

ChangedQuietly(t) ==
  /\ IF revision = MaxRevision
     THEN health' = "Unavailable" /\ UNCHANGED revision
     ELSE revision' = revision + 1 /\ UNCHANGED health
  /\ GraphGoto(t, Done(t))
Changed(t) ==
  /\ IF revision = MaxRevision
     THEN health' = "Unavailable" /\ UNCHANGED revision
     ELSE revision' = revision + 1 /\ UNCHANGED health
  /\ GraphGoto(t, "snapshot")

Unchanged(t) ==
  /\ GraphGoto(t, Done(t))
  /\ UNCHANGED <<health, revision, records>>

Invalid(t) ==
  /\ health' = "Unavailable"
  /\ GraphGoto(t, "snapshot")
  /\ UNCHANGED <<revision, records>>

\* The caller's change ran into a failed allocation: unavailable().
Throws(t) ==
  /\ graphFaults < MaxGraphFaults
  /\ graphFaults' = graphFaults + 1
  /\ Invalid(t)

\* apply_participant(): a Removed participant never comes back.
ApplyParticipant(t, p, change) ==
  IF ~Admitted \/ part[p] = change
  THEN Unchanged(t)
  ELSE IF part[p] = "Removed"
  THEN Invalid(t)
  ELSE /\ part' = [part EXCEPT ![p] = change]
       /\ UNCHANGED <<endp, remote, references, assoc>>
       /\ Changed(t)

\* An Added endpoint is refused when it, or its participant, was Removed.
RefusedByParticipant(g, change) ==
  change = "Added" /\ part[Home[g]] = "Removed"
Refused(g, change) ==
  change = "Added" /\ "Removed" \in {part[Home[g]], endp[g]}

\* apply_endpoint() and participant_for(), which adds an unknown participant.
ApplyEndpoint(t, g, change) ==
  IF ~Admitted
  THEN Unchanged(t)
  ELSE IF Refused(g, change)
  THEN Invalid(t)
  ELSE IF endp[g] = change
  THEN Unchanged(t)
  ELSE /\ part' = [part EXCEPT ![Home[g]] = IF @ = "none" THEN "Added" ELSE @]
       /\ endp' = [endp EXCEPT ![g] = change]
       /\ UNCHANGED <<remote, references, assoc>>
       /\ Changed(t)

\* apply_remote_nodes(): the whole snapshot of a participant is replaced.
ApplyRemoteNodes(t, p, nodes) ==
  IF ~Admitted \/ remote[p] = nodes
  THEN Unchanged(t)
  ELSE /\ remote' = [remote EXCEPT ![p] = nodes]
       /\ UNCHANGED <<part, endp, references, assoc>>
       /\ Changed(t)

-----------------------------------------------------------------------------
(* The Fast DDS side: DiscoveryListener *)

\* guard(): a callback enters unless the listener is closing.
Gated == listener = "open"

ListenerEnter(t) ==
  /\ Starts(t, "discover")
  /\ Gated
  /\ inListener' = inListener \cup {t}
  /\ GraphGoto(t, "discover")
  /\ UNCHANGED <<graphVars, localVars, subVars, eventVars, listener, graphArg, queue,
                 graphFaults, noticed>>

Discover(t) ==
  /\ graphPc[t] = "discover"
  /\ \/ /\ \/ \E p \in Participants, c \in Changes : ApplyParticipant(t, p, c)
           \/ \E g \in Endpoints, c \in Changes : ApplyEndpoint(t, g, c)
        /\ UNCHANGED graphFaults
     \/ Admitted /\ Throws(t)
  /\ UNCHANGED <<localVars, subVars, eventVars, listenerVars, graphArg, queue, graphCalls,
                 noticed>>

ListenerLeave(t) ==
  /\ graphPc[t] = "leave"
  /\ inListener' = inListener \ {t}
  /\ GraphGoto(t, "idle")
  /\ UNCHANGED <<graphVars, localVars, subVars, eventVars, listener, graphArg, queue,
                 graphCalls, graphFaults, noticed>>

\* DiscoveryListener::close_and_drain()
ListenerClose(t) ==
  /\ Starts(t, "gate")
  /\ listener = "open"
  /\ listener' = "closing"
  /\ GraphGoto(t, "gate")
  /\ UNCHANGED <<graphVars, localVars, subVars, eventVars, inListener, graphArg, queue,
                 graphFaults, noticed>>

ListenerDrain(t) ==
  /\ graphPc[t] = "gate"
  /\ inListener = {}
  /\ listener' = "closed"
  /\ GraphGoto(t, "idle")
  /\ UNCHANGED <<graphVars, localVars, subVars, eventVars, inListener, graphArg, queue,
                 graphCalls, graphFaults, noticed>>

-----------------------------------------------------------------------------
(* The application side: local nodes and endpoints, remote metadata *)

Local(t, op) ==
  /\ Starts(t, op)
  /\ UNCHANGED <<subVars, eventVars, listenerVars, graphArg, queue, noticed, silent>>

\* add_local_node(): the record starts with the reference of its facade; an
\* unhealthy graph hands out id 0 and keeps nothing.
AddLocalNode(t, n) ==
  /\ Local(t, "node")
  /\ references[n] = 0 /\ n \notin facades /\ Admitted
  /\ references' = [references EXCEPT ![n] = 1]
  /\ facades' = facades \cup {n}
  /\ Changed(t)
  /\ UNCHANGED <<part, endp, remote, assoc, lost, graphFaults>>

\* release_local_node(): only the last reference erases the record.
ReleaseLocalNode(t, n) ==
  /\ Local(t, "node")
  /\ n \in facades
  /\ facades' = facades \ {n}
  /\ IF ~Admitted
     THEN Unchanged(t)
     ELSE /\ references' = [references EXCEPT ![n] = @ - 1]
          /\ UNCHANGED <<part, endp, remote, assoc>>
          /\ IF references[n] = 1
             THEN Changed(t)
             ELSE GraphGoto(t, Done(t)) /\ UNCHANGED <<health, revision>>
  /\ UNCHANGED <<lost, graphFaults>>

\* An endpoint adds a reference to the node it is created with.
Referenced(n) == [references EXCEPT ![n] = @ + 1]

\* register_local_endpoint(), add_local_endpoint(): called with a live Node
\* and a new GUID.
AddLocalEndpoint(t, l, n) ==
  /\ Local(t, "local")
  /\ n \in facades /\ assoc[l] = NoNode
  /\ IF ~Admitted
     THEN Unchanged(t)
     ELSE /\ assoc' = [assoc EXCEPT ![l] = n]
          /\ references' = Referenced(n)
          /\ UNCHANGED <<part, endp, remote>>
          /\ Changed(t)
  /\ UNCHANGED <<facades, lost, graphFaults>>

\* push_back of the endpoint's record throws, after the reference was counted:
\* mutate() catches nothing, so the graph stays Healthy and tells nobody, and
\* the creation of the endpoint fails.
AddLocalEndpointThrows(t, n) ==
  /\ Local(t, "local")
  /\ n \in facades /\ Admitted
  /\ graphFaults < MaxGraphFaults /\ graphFaults' = graphFaults + 1
  /\ references' = Referenced(n)
  /\ lost' = [lost EXCEPT ![n] = @ + 1]
  /\ GraphGoto(t, Done(t))
  /\ UNCHANGED <<health, revision, part, endp, remote, assoc, facades>>

\* LocalEndpointRegistration::reset(), remove_local_endpoint()
RemoveLocalEndpoint(t, l) ==
  /\ Local(t, "local")
  /\ assoc[l] # NoNode
  /\ IF ~Admitted
     THEN Unchanged(t)
     ELSE /\ assoc' = [assoc EXCEPT ![l] = NoNode]
          /\ references' = [references EXCEPT ![assoc[l]] = @ - 1]
          /\ UNCHANGED <<part, endp, remote>>
          /\ Changed(t)
  /\ UNCHANGED <<facades, lost, graphFaults>>

\* GraphMetadataTransport::ingest_pending() on an application thread.
Ingest(t) ==
  /\ Local(t, "remote")
  /\ UNCHANGED <<facades, lost>>
  /\ \/ /\ \E p \in Participants, nodes \in Snapshots : ApplyRemoteNodes(t, p, nodes)
        /\ UNCHANGED graphFaults
     \/ Admitted /\ Throws(t)

-----------------------------------------------------------------------------
(* notify() *)

\* The subscribers are copied under mutex_ ...
Snapshot(t) ==
  /\ graphPc[t] = "snapshot"
  /\ queue' = [queue EXCEPT ![t] = subs]
  /\ GraphGoto(t, "next")
  /\ UNCHANGED <<graphVars, localVars, subVars, eventVars, listenerVars, graphArg, graphCalls,
                 graphFaults, noticed>>

\* ... or the copy fails and nobody is told.
SnapshotThrows(t) ==
  /\ graphPc[t] = "snapshot" /\ graphFaults < MaxGraphFaults
  /\ graphFaults' = graphFaults + 1
  /\ health' = "Unavailable"
  /\ silent' = TRUE
  /\ GraphGoto(t, Done(t))
  /\ UNCHANGED <<revision, records, facades, lost, subVars, eventVars, listenerVars, graphArg, queue,
                 graphCalls, noticed>>

\* A subscriber that no longer accepts is skipped.
AdmitsAlways(e) == TRUE
Admits(e) == accepting[e]

NextSubscriber(t) ==
  /\ graphPc[t] = "next"
  /\ IF queue[t] = <<>>
     THEN GraphGoto(t, Done(t)) /\ UNCHANGED <<queue, inFlight>>
     ELSE LET e == Head(queue[t]) IN
          IF Admits(e)
          THEN /\ inFlight' = [inFlight EXCEPT ![e] = @ + 1]
               /\ GraphGoto(t, "lock")
               /\ UNCHANGED queue
          ELSE /\ queue' = [queue EXCEPT ![t] = Tail(@)]
               /\ UNCHANGED <<graphPc, inFlight>>
  /\ UNCHANGED <<graphVars, localVars, subs, accepting, eventVars, listenerVars, graphArg,
                 graphCalls, graphFaults, noticed>>

\* The callback of a GraphEvent: weak.lock() ...
CallbackLock(t) ==
  /\ graphPc[t] = "lock"
  /\ LET e == Head(queue[t]) IN
     IF holders[e] = {}
     THEN GraphGoto(t, "exit") /\ UNCHANGED holders
     ELSE GraphGoto(t, "wake") /\ holders' = [holders EXCEPT ![e] = @ \cup {t}]
  /\ UNCHANGED <<graphVars, localVars, subVars, cursor, stage, listenerVars, graphArg, queue,
                 graphCalls, graphFaults, noticed>>

\* ... notify_wait_set_noexcept() ...
CallbackWake(t) ==
  /\ graphPc[t] = "wake"
  /\ noticed' = [noticed EXCEPT ![Head(queue[t])] = [revision |-> revision, health |-> health]]
  /\ GraphGoto(t, "drop")
  /\ UNCHANGED <<graphVars, localVars, subVars, eventVars, listenerVars, graphArg, queue,
                 graphCalls, graphFaults>>

\* Dropping the last reference runs ~GraphEventState() on this thread.
GraphRelease(t, e, holder, after) ==
  /\ holders' = [holders EXCEPT ![e] = @ \ {holder}]
  /\ graphArg' = [graphArg EXCEPT ![t] = e]
  /\ GraphGoto(t, IF holders[e] = {holder} THEN "unsubscribe" ELSE after)

\* ... and the end of its scope.
CallbackDrop(t) ==
  /\ graphPc[t] = "drop"
  /\ GraphRelease(t, Head(queue[t]), t, "exit")
  /\ UNCHANGED <<graphVars, localVars, subVars, cursor, stage, listenerVars, queue, graphCalls,
                 graphFaults, noticed>>

CallbackExit(t) ==
  /\ graphPc[t] = "exit"
  /\ inFlight' = [inFlight EXCEPT ![Head(queue[t])] = @ - 1]
  /\ queue' = [queue EXCEPT ![t] = Tail(@)]
  /\ GraphGoto(t, "next")
  /\ UNCHANGED <<graphVars, localVars, subs, accepting, eventVars, listenerVars, graphArg,
                 graphCalls, graphFaults, noticed>>

-----------------------------------------------------------------------------
(* GraphEvent *)

\* initialize(): the cursor is read first, the subscription made after it.
EventCreate(t, e) ==
  /\ Starts(t, "event")
  /\ stage[e] = "none"
  /\ stage' = [stage EXCEPT ![e] = "initializing"]
  /\ cursor' = [cursor EXCEPT ![e] = revision]
  /\ holders' = [holders EXCEPT ![e] = {Facade}]
  /\ graphArg' = [graphArg EXCEPT ![t] = e]
  /\ GraphGoto(t, "subscribe")
  /\ UNCHANGED <<graphVars, localVars, subVars, listenerVars, queue, graphFaults, noticed>>

\* subscribe(); the first wait on the event scans the graph as it is now.
Subscribe(t) ==
  /\ graphPc[t] = "subscribe"
  /\ LET e == graphArg[t] IN
     /\ subs' = Append(subs, e)
     /\ accepting' = [accepting EXCEPT ![e] = TRUE]
     /\ stage' = [stage EXCEPT ![e] = "open"]
     /\ noticed' = [noticed EXCEPT ![e] = [revision |-> revision, health |-> health]]
  /\ GraphGoto(t, "idle")
  /\ UNCHANGED <<graphVars, localVars, inFlight, cursor, holders, listenerVars, graphArg,
                 queue, graphCalls, graphFaults>>

\* take(): the health is read first, the revision under state_mutex_.
TakeCheck(t, e) ==
  /\ Starts(t, "event")
  /\ stage[e] = "open" /\ health = "Healthy"
  /\ graphArg' = [graphArg EXCEPT ![t] = e]
  /\ GraphGoto(t, "take")
  /\ UNCHANGED <<graphVars, localVars, subVars, eventVars, listenerVars, queue, graphFaults,
                 noticed>>

TakeCommit(t) ==
  /\ graphPc[t] = "take"
  /\ cursor' = [cursor EXCEPT ![graphArg[t]] = revision]
  /\ GraphGoto(t, "idle")
  /\ UNCHANGED <<graphVars, localVars, subVars, holders, stage, listenerVars, graphArg, queue,
                 graphCalls, graphFaults, noticed>>

\* ~Impl(): close(), no other call on the GraphEvent in progress ...
EventDestroy(t, e) ==
  /\ Starts(t, "event")
  /\ stage[e] = "open"
  /\ \A u \in GraphThreads : ~(graphPc[u] = "take" /\ graphArg[u] = e)
  /\ stage' = [stage EXCEPT ![e] = "closing"]
  /\ graphArg' = [graphArg EXCEPT ![t] = e]
  /\ GraphGoto(t, "close")
  /\ UNCHANGED <<graphVars, localVars, subVars, cursor, holders, listenerVars, queue,
                 graphFaults, noticed>>

\* ... and the release of state_.
EventRelease(t) ==
  /\ graphPc[t] = "close"
  /\ GraphRelease(t, graphArg[t], Facade, "idle")
  /\ UNCHANGED <<graphVars, localVars, subVars, cursor, stage, listenerVars, queue, graphCalls,
                 graphFaults, noticed>>

\* ~GraphEventState(): unsubscribe(id, drain) finds and erases the subscriber,
\* whose id is there once, under mutex_, stops it under its own mutex, and waits
\* for the callbacks inside.
Unsubscribe(t) ==
  /\ graphPc[t] = "unsubscribe"
  /\ \E i \in DOMAIN subs : subs[i] = graphArg[t] /\ subs' = RemoveAt(subs, i)
  /\ GraphGoto(t, "stop")
  /\ UNCHANGED <<graphVars, localVars, accepting, inFlight, eventVars, listenerVars, graphArg,
                 queue, graphCalls, graphFaults, noticed>>

StopAccepting(t) ==
  /\ graphPc[t] = "stop"
  /\ accepting' = [accepting EXCEPT ![graphArg[t]] = FALSE]
  /\ GraphGoto(t, "drain")
  /\ UNCHANGED <<graphVars, localVars, subs, inFlight, eventVars, listenerVars, graphArg,
                 queue, graphCalls, graphFaults, noticed>>

Drain(t) ==
  /\ graphPc[t] = "drain"
  /\ inFlight[graphArg[t]] = 0
  /\ stage' = [stage EXCEPT ![graphArg[t]] = "drained"]
  /\ GraphGoto(t, "idle")
  /\ UNCHANGED <<graphVars, localVars, subVars, cursor, holders, listenerVars, graphArg, queue,
                 graphCalls, graphFaults, noticed>>

-----------------------------------------------------------------------------
GraphStep(t) ==
  \/ Discover(t) \/ ListenerLeave(t) \/ ListenerDrain(t)
  \/ Snapshot(t) \/ SnapshotThrows(t) \/ NextSubscriber(t)
  \/ CallbackLock(t) \/ CallbackWake(t) \/ CallbackDrop(t) \/ CallbackExit(t)
  \/ Subscribe(t) \/ TakeCommit(t) \/ EventRelease(t)
  \/ Unsubscribe(t) \/ StopAccepting(t) \/ Drain(t)

GraphCall(t) ==
  \/ ListenerEnter(t) \/ ListenerClose(t) \/ Ingest(t)
  \/ \E n \in Nodes : AddLocalNode(t, n) \/ ReleaseLocalNode(t, n) \/ AddLocalEndpointThrows(t, n)
  \/ \E l \in LocalEndpoints :
        RemoveLocalEndpoint(t, l) \/ \E n \in Nodes : AddLocalEndpoint(t, l, n)
  \/ \E e \in Events : EventCreate(t, e) \/ TakeCheck(t, e) \/ EventDestroy(t, e)

GraphNext == \E t \in GraphThreads : GraphStep(t) \/ GraphCall(t)

GraphSpec == GraphInit /\ [][GraphNext]_discoveryVars

-----------------------------------------------------------------------------
(* Properties *)

\* endpoint(): what the graph says of a remote endpoint.
EndpointState(g) ==
  IF health # "Healthy" THEN "Unavailable"
  ELSE IF endp[g] = "none" THEN "Unknown"
  ELSE IF "Removed" \in {endp[g], part[Home[g]]} THEN "Removed"
  ELSE "Active"

\* A thread is going to call the callback of e, or to copy the subscribers.
WakePending(e) ==
  \E t \in GraphThreads :
    \/ graphPc[t] = "snapshot"
    \/ graphPc[t] \in {"next", "lock", "wake"} /\ e \in ToSet(queue[t])
    \/ graphPc[t] \in {"drop", "exit", "unsubscribe", "stop", "drain"}
         /\ queue[t] # <<>> /\ e \in ToSet(Tail(queue[t]))

\* No lost wake (notify, subscribe, GraphEventState): an open GraphEvent with a
\* change it has not reported, or with an unhealthy graph, has been woken since
\* the last change, or a thread is on its way to wake it - whatever commits,
\* subscriptions and destructions of other events came in between.
ChangeWakes ==
  ~silent => \A e \in Events :
    stage[e] = "open" /\ ~WakePending(e) =>
      /\ cursor[e] < revision => noticed[e].revision = revision
      /\ noticed[e].health = health

\* close_and_drain() of a subscription: once it has returned, no thread is
\* inside the subscriber's callback, also none that copied the list before.
NoCallbackAfterDrain ==
  \A e \in Events, t \in GraphThreads :
    stage[e] = "drained" /\ graphPc[t] \in InCallback => Head(queue[t]) # e

\* DiscoveryListener::close_and_drain(): once it has returned no listener
\* callback is inside the graph, its notifications included.
ListenerDrained == listener = "closed" => inListener = {}

\* "Removed is terminal" (response.hpp): an endpoint that was Removed is never
\* Unknown or Active again, whichever of it and its participant comes back.
RemovedIsTerminal ==
  [][\A g \in Endpoints : EndpointState(g) = "Removed" =>
       EndpointState(g)' \in {"Removed", "Unavailable"}]_discoveryVars

\* mutate(): an Unavailable graph never recovers and never changes again.
UnavailableIsFinal ==
  [][health = "Unavailable" => UNCHANGED <<health, revision, records>>]_discoveryVars

\* LocalNodeRecord: a node is referenced once by its facade, once by every
\* endpoint registered with it and once by every registration that threw while
\* it was stored, and by nothing else.  So an endpoint that outlives the Node
\* facade keeps the node's record, and a node whose registrations never threw
\* is erased with its last user; one of the others is kept for ever.
AssociationVisible ==
  \A n \in Nodes :
    health = "Healthy" =>
      references[n] = Cardinality({l \in LocalEndpoints : assoc[l] = n})
                      + (IF n \in facades THEN 1 ELSE 0) + lost[n]

\* The graph serves threads that come and go: no callback runs in a subscriber
\* or a listener that was drained, and an endpoint keeps the record of a node
\* whose facade is gone, however allocations fail in between.
GraphSound ==
  /\ GraphTypeOK
  /\ NoCallbackAfterDrain
  /\ ListenerDrained
  /\ AssociationVisible

=============================================================================
