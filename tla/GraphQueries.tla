---------------------------- MODULE GraphQueries ----------------------------
(***************************************************************************)
(* What a Context tells about the graph: the endpoint candidates of a view *)
(* (collect_endpoint_candidates), the servers and clients composed from    *)
(* them (assemble_snapshot in dmw/src/graph.cpp, compose_action_candidates *)
(* in impl/graph_candidates.cpp) and the availability of an action server  *)
(* (has_action_server).                                                    *)
(*                                                                         *)
(* The view changes as Fast DDS and the metadata of the peers report it:   *)
(* endpoint by endpoint, in any order, with the association of an endpoint *)
(* with its node before or after the endpoint itself.  A record keeps the  *)
(* place of its discovery, and the first or last that fits decides.        *)
(***************************************************************************)
EXTENDS Naturals, Sequences, FiniteSets
LOCAL INSTANCE SequencesExt

CONSTANTS
    AllEndpoints,  \* every endpoint there is, as a sequence: its index is its gid
    Here,          \* this participant
    ServerParts,   \* the endpoints of an action server (eight), as <<part, kind>>
    WantedAction,  \* the action a client asks for
    WantedTypes,   \* the wire type the client expects of every part
    ClientQos      \* and its QoS for that part

Gids == 1..Len(AllEndpoints)
Truth(g) == AllEndpoints[g]
Everyone == {Truth(g).participant : g \in Gids}

ASSUME QueriesAssumption ==
    /\ \A g \in Gids : /\ Truth(g).kind \in {"Reader", "Writer"}
                       /\ Truth(g).family \in {"topic", "service", "action"}
    /\ \A part \in ServerParts : part \in DOMAIN WantedTypes /\ part \in DOMAIN ClientQos

VARIABLES
    runtimeMode,  \* runtime_mode_
    localEnds,    \* local_endpoints_, in the order of registration
    foundEnds,    \* endpoints_ that are not Removed, in the order of discovery
    gone,         \* participants whose record is Removed
    associated    \* endpoints named by the remote_nodes_ of their participant

queryVars == <<runtimeMode, localEnds, foundEnds, gone, associated>>

IsLocal(g) == Truth(g).participant = Here
Unassociated == "unassociated"

QueriesInit ==
    /\ runtimeMode \in {"DDS", "ROS2"}
    /\ localEnds = <<>> /\ foundEnds = <<>> /\ gone = {} /\ associated = {}

-----------------------------------------------------------------------------
(* How the view changes: DiscoveryGraph has the actions in detail.  The    *)
(* queries skip an endpoint that is Removed, as one never discovered.      *)

LocalEndpointChanges(g) ==
    /\ IsLocal(g)
    /\ localEnds' = IF Contains(localEnds, g) THEN Remove(localEnds, g)
                    ELSE Append(localEnds, g)
    /\ UNCHANGED <<runtimeMode, foundEnds, gone, associated>>

EndpointDiscovered(g) ==
    /\ ~Contains(foundEnds, g) /\ Truth(g).participant \notin gone
    /\ foundEnds' = Append(foundEnds, g)
    /\ UNCHANGED <<runtimeMode, localEnds, gone, associated>>

ParticipantDies(p) ==
    /\ p # Here /\ p \notin gone
    /\ gone' = gone \cup {p}
    /\ UNCHANGED <<runtimeMode, localEnds, foundEnds, associated>>

(* Metadata exists in ROS2 mode only; a participant publishes after every  *)
(* change of its endpoints.                                                *)
MetadataArrives(g) ==
    /\ runtimeMode = "ROS2" /\ ~IsLocal(g)
    /\ associated' = IF g \in associated THEN associated \ {g} ELSE associated \cup {g}
    /\ UNCHANGED <<runtimeMode, localEnds, foundEnds, gone>>

QueriesNext ==
    \/ \E g \in Gids : LocalEndpointChanges(g) \/ EndpointDiscovered(g) \/ MetadataArrives(g)
    \/ \E p \in Everyone : ParticipantDies(p)

QueriesSpec == QueriesInit /\ [][QueriesNext]_queryVars

-----------------------------------------------------------------------------
(* graph_candidates.cpp                                                    *)

Candidate(g, hasNode) ==
    [gid |-> g, of |-> Truth(g), node |-> IF hasNode THEN Truth(g).node ELSE Unassociated]

RemoteVisible(g) ==
    /\ Contains(foundEnds, g) /\ ~Contains(localEnds, g)
    /\ Truth(g).participant \notin gone

CollectEndpointCandidates ==
    LET remote == SelectSeq(foundEnds, RemoteVisible)
    IN [i \in 1..Len(localEnds) |-> Candidate(localEnds[i], TRUE)]
       \o [i \in 1..Len(remote) |-> Candidate(remote[i], remote[i] \in associated)]

CompositionKeyOpen(c) == IF c.node # Unassociated THEN <<"node", c.node>> ELSE <<"any">>

(* An endpoint without a node stands alone in ROS2 mode.                   *)
CompositionKey(c) ==
    IF c.node # Unassociated THEN <<"node", c.node>>
    ELSE IF runtimeMode = "ROS2" THEN <<"gid", c.gid>>
    ELSE <<"any">>

GroupKey(c) == <<c.of.participant, c.of.name, CompositionKey(c)>>

(* The later candidate of a service group replaces the earlier one, the    *)
(* first candidate of an action group stays.                               *)
LastOf(fitting) == IF fitting = <<>> THEN 0 ELSE fitting[Len(fitting)].gid
FirstOf(fitting) == IF fitting = <<>> THEN 0 ELSE Head(fitting).gid

ServiceEndpoints(requestKind, responseKind) ==
    LET candidates == CollectEndpointCandidates
        services == SelectSeq(candidates, LAMBDA c : c.of.family # "topic")
        Slot(key, part, kind) ==
            LastOf(SelectSeq(services, LAMBDA c : /\ GroupKey(c) = key
                                                  /\ c.of.part = part /\ c.of.kind = kind))
        pairs == {[request |-> Slot(key, "request", requestKind),
                   response |-> Slot(key, "response", responseKind)] :
                    key \in {GroupKey(services[i]) : i \in DOMAIN services}}
    IN {p \in pairs : p.request # 0 /\ p.response # 0}

ServiceServers == ServiceEndpoints("Reader", "Writer")
ServiceClients == ServiceEndpoints("Writer", "Reader")

ActionServers ==
    LET candidates == CollectEndpointCandidates
        actions == SelectSeq(candidates, LAMBDA c : c.of.family = "action")
        Slot(key, part) ==
            FirstOf(SelectSeq(actions, LAMBDA c : /\ GroupKey(c) = key
                                                  /\ <<c.of.part, c.of.kind>> = part))
    IN {key \in {GroupKey(actions[i]) : i \in DOMAIN actions} :
          \A part \in ServerParts : Slot(key, part) # 0}

-----------------------------------------------------------------------------
(* check_qos_compatibility(): only a certain mismatch excludes.            *)
QosCompatible(publisher, subscriber) ==
    /\ ~(publisher.reliability = "BestEffort" /\ subscriber.reliability = "Reliable")
    /\ ~(publisher.durability = "Volatile" /\ subscriber.durability = "TransientLocal")

InComposition(c, participant, composition) ==
    c.of.participant = participant /\ CompositionKey(c) = composition

FindEndpoint(candidates, participant, composition, part) ==
    FirstOf(SelectSeq(candidates, LAMBDA c : /\ InComposition(c, participant, composition)
                                             /\ c.of.family = "action" /\ c.of.name = WantedAction
                                             /\ <<c.of.part, c.of.kind>> = part
                                             /\ c.of.type = WantedTypes[part]))

HasActionServer ==
    LET candidates == CollectEndpointCandidates IN
    \E i \in DOMAIN candidates :
      LET participant == candidates[i].of.participant
          composition == CompositionKey(candidates[i])
          Found(part) == FindEndpoint(candidates, participant, composition, part)
      IN \A part \in ServerParts :
           /\ Found(part) # 0
           /\ IF part[2] = "Reader" THEN QosCompatible(ClientQos[part], Truth(Found(part)).qos)
              ELSE QosCompatible(Truth(Found(part)).qos, ClientQos[part])

-----------------------------------------------------------------------------
(* An endpoint that is both registered here and discovered by Fast DDS     *)
(* counts once in the topic counts and the endpoint lists.                 *)
CountedOnce ==
    LET candidates == CollectEndpointCandidates
    IN Cardinality({candidates[i].gid : i \in DOMAIN candidates}) = Len(candidates)

(* In ROS2 mode a listed server or client consists of two endpoints of one *)
(* node, whatever part of the endpoints and of the metadata has arrived.   *)
ServersArePaired ==
    \A s \in ServiceServers \cup ServiceClients :
      /\ Truth(s.request).participant = Truth(s.response).participant
      /\ runtimeMode = "ROS2" => Truth(s.request).node = Truth(s.response).node

(* In ROS2 mode every server whose two endpoints are known with their node *)
(* is listed, next to a server of the same service in another node.        *)
KnownServersListed ==
    runtimeMode = "ROS2" =>
      \A r, w \in Gids :
        (/\ Truth(r).family # "topic"
         /\ <<Truth(r).part, Truth(r).kind>> = <<"request", "Reader">>
         /\ <<Truth(w).part, Truth(w).kind>> = <<"response", "Writer">>
         /\ Truth(r).participant = Truth(w).participant /\ Truth(r).node = Truth(w).node
         /\ Truth(r).name = Truth(w).name
         /\ \A g \in {r, w} : Contains(localEnds, g) \/ (RemoteVisible(g) /\ g \in associated))
        => [request |-> r, response |-> w] \in ServiceServers

(* The two ways to look for an action server agree: one that is available  *)
(* to a client is in the snapshot.                                         *)
AvailableIsListed ==
    HasActionServer => \E key \in ActionServers : key[2] = WantedAction

(* A server whose endpoints are all known, compatible and associated is    *)
(* available to the client, whatever was found before it: of the records   *)
(* that fit a part the first decides, so none of its endpoints may come    *)
(* after one of the same node (in DDS mode: participant) that fits the     *)
(* part and has a QoS the client cannot use.                               *)
Associated == {g \in ToSet(foundEnds) :
                 RemoteVisible(g) /\ (runtimeMode = "ROS2" => g \in associated)}
Serves(g, part) ==
    /\ Truth(g).name = WantedAction /\ <<Truth(g).part, Truth(g).kind>> = part
    /\ Truth(g).type = WantedTypes[part]
Usable(g, part) ==
    IF part[2] = "Reader" THEN QosCompatible(ClientQos[part], Truth(g).qos)
    ELSE QosCompatible(Truth(g).qos, ClientQos[part])

Together(g, h) ==
    /\ Truth(g).participant = Truth(h).participant
    /\ runtimeMode = "ROS2" => Truth(g).node = Truth(h).node
FoundBefore(h, g) ==
    \E i, j \in DOMAIN foundEnds : i < j /\ foundEnds[i] = h /\ foundEnds[j] = g
Hidden(g, part) ==
    \E h \in Associated :
        Together(g, h) /\ FoundBefore(h, g) /\ Serves(h, part) /\ ~Usable(h, part)

SomeComplete(Excluded(_, _)) ==
    \E h \in Associated : \A part \in ServerParts : \E g \in Associated :
        /\ Truth(g).participant = Truth(h).participant /\ Truth(g).node = Truth(h).node
        /\ Serves(g, part) /\ Usable(g, part) /\ ~Excluded(g, part)

CompleteIsAvailable == SomeComplete(Hidden) => HasActionServer

(* Without the exception, which the code does not promise: an endpoint the *)
(* client cannot use hides a server that was found after it.               *)
CompleteIsAlwaysAvailable ==
    LET Never(g, part) == FALSE IN SomeComplete(Never) => HasActionServer

(* The queries tell one story of the graph in every order of discovery:    *)
(* nothing is counted twice or paired across nodes, what is known is       *)
(* listed, and an action server is available when it is complete and not   *)
(* hidden, and listed when it is available.                                *)
QueriesAgree ==
    /\ CountedOnce
    /\ ServersArePaired
    /\ KnownServersListed
    /\ AvailableIsListed
    /\ CompleteIsAvailable
=============================================================================
