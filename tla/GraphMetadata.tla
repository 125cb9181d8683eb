---------------------------- MODULE GraphMetadata ----------------------------
(***************************************************************************)
(* The ROS 2 graph metadata transport (dmw/src/impl/graph_metadata.cpp):   *)
(* every participant publishes the complete list of its Nodes on           *)
(* ros_discovery_info, and folds the lists of the others into its          *)
(* DiscoveryGraph.                                                         *)
(*                                                                         *)
(* A thread that changed the graph calls the transport's subscription,     *)
(* which publishes: the lock of publish_mutex_, the view and the write are *)
(* steps of their own.  Reading is left to application threads: a Fast DDS *)
(* callback only says that there is something to read.  The writer keeps   *)
(* one sample and offers it to late joiners; the reader keeps them all.    *)
(* A participant may die, which the others learn from Fast DDS.            *)
(***************************************************************************)
EXTENDS Naturals, Sequences

CONSTANTS
    Peers,         \* participants
    Workers,       \* application and discovery threads
    PeerOf,        \* the participant of a thread
    Duties,        \* what a thread does: "commit", "discover", "ingest"
    NodeLists,     \* the contents of a participant's local_nodes_
    NoNodesYet,    \* the empty list
    Mortal,        \* participants that may die
    MaxCommits,    \* how often a participant changes its own nodes
    MaxLostWrites  \* writes that fail

ASSUME MetadataAssumption ==
    /\ PeerOf \in [Workers -> Peers]
    /\ Duties \in [Workers -> SUBSET {"commit", "discover", "ingest"}]
    /\ NoNodesYet \in NodeLists
    /\ Mortal \subseteq Peers
    /\ MaxCommits \in [Peers -> Nat] /\ MaxLostWrites \in Nat

VARIABLES
    up,             \* the participant's process runs
    nodes,          \* local_nodes_ and local_endpoints_
    version,        \* ghost: number of local changes
    remoteOf,       \* remote_nodes_, NoNodesYet without a record
    believed,       \* ghost: the version remoteOf stands for
    lifecycle,      \* lifecycle of the participant records
    linked,         \* matched[q][p]: the reader of q has matched the writer of p
    history,        \* the writer's history (KeepLast(1), TransientLocal)
    undelivered,    \* owed[q][p]: history[p] has still to reach q
    unreadSamples,  \* samples in the reader (KeepAll), oldest first
    inListener,     \* a Fast DDS thread is in the GraphMetadataListener
    doing,          \* where a worker is
    copy,           \* the snapshot a worker publishes
    budget,         \* samples an ingest pass may still take
    lost,           \* ghost: the last write of the participant failed
    losses

localGraph == <<nodes, version>>
remoteGraph == <<remoteOf, believed, lifecycle>>
wire == <<linked, history, undelivered>>
metaVars == <<up, localGraph, remoteGraph, wire, unreadSamples, inListener, doing,
              copy, budget, lost, losses>>

MetadataSamples == [from : Peers, nodes : NodeLists, version : Nat, valid : BOOLEAN]
Sample(p, list, v) == [from |-> p, nodes |-> list, version |-> v, valid |-> TRUE]
NoData(p) == [Sample(p, NoNodesYet, 0) EXCEPT !.valid = FALSE]
Places == {"idle", "notify", "view", "write", "ingest"}

MetadataTypeOK ==
    /\ up \in [Peers -> BOOLEAN]
    /\ nodes \in [Peers -> NodeLists]
    /\ version \in [Peers -> Nat]
    /\ remoteOf \in [Peers -> [Peers -> NodeLists]]
    /\ believed \in [Peers -> [Peers -> Nat]]
    /\ lifecycle \in [Peers -> [Peers -> {"none", "Added", "Removed"}]]
    /\ linked \in [Peers -> [Peers -> BOOLEAN]]
    /\ history \in [Peers -> MetadataSamples]
    /\ undelivered \in [Peers -> [Peers -> BOOLEAN]]
    /\ unreadSamples \in [Peers -> Seq(MetadataSamples)]
    /\ inListener \in [Peers -> BOOLEAN]
    /\ doing \in [Workers -> Places]
    /\ copy \in [Workers -> MetadataSamples]
    /\ budget \in [Workers -> Nat]
    /\ lost \in [Peers -> BOOLEAN]
    /\ losses \in 0..MaxLostWrites

(* install_graph_metadata_transport() has subscribed and published the     *)
(* first snapshot; the reader of a participant matches its own writer.     *)
MetadataInit ==
    /\ up = [p \in Peers |-> TRUE]
    /\ nodes = [p \in Peers |-> NoNodesYet]
    /\ version = [p \in Peers |-> 0]
    /\ remoteOf = [q \in Peers |-> [p \in Peers |-> NoNodesYet]]
    /\ believed = [q \in Peers |-> [p \in Peers |-> 0]]
    /\ lifecycle = [q \in Peers |-> [p \in Peers |-> "none"]]
    /\ linked = [q \in Peers |-> [p \in Peers |-> p = q]]
    /\ history = [p \in Peers |-> Sample(p, NoNodesYet, 0)]
    /\ undelivered = [q \in Peers |-> [p \in Peers |-> p = q]]
    /\ unreadSamples = [p \in Peers |-> <<>>]
    /\ inListener = [p \in Peers |-> FALSE]
    /\ doing = [t \in Workers |-> "idle"]
    /\ copy = [t \in Workers |-> Sample(PeerOf[t], NoNodesYet, 0)]
    /\ budget = [t \in Workers |-> 0]
    /\ lost = [p \in Peers |-> FALSE]
    /\ losses = 0

Runs(t, place) == up[PeerOf[t]] /\ doing[t] = place
Starts(t, duty) == Runs(t, "idle") /\ duty \in Duties[t]
To(t, place) == doing' = [doing EXCEPT ![t] = place]

-----------------------------------------------------------------------------
(* Changes of the graph: mutate() commits, and notify() then runs the      *)
(* transport's subscription on the same thread.                            *)

CommitLocal(t) ==
    LET p == PeerOf[t] IN
    /\ Starts(t, "commit") /\ version[p] < MaxCommits[p]
    /\ \E list \in NodeLists \ {nodes[p]} : nodes' = [nodes EXCEPT ![p] = list]
    /\ version' = [version EXCEPT ![p] = @ + 1]
    /\ To(t, "notify")
    /\ UNCHANGED <<up, remoteGraph, wire, unreadSamples, inListener, copy, budget, lost,
                   losses>>

Discovers(t, p, change) ==
    LET q == PeerOf[t] IN
    /\ Starts(t, "discover") /\ p # q
    /\ lifecycle' = [lifecycle EXCEPT ![q][p] = change]
    /\ To(t, "notify")
    /\ UNCHANGED <<up, localGraph, remoteOf, believed, history, copy, budget, lost, losses>>

DiscoverPeer(t, p) ==
    /\ up[p] /\ lifecycle[PeerOf[t]][p] = "none"
    /\ Discovers(t, p, "Added")
    /\ UNCHANGED <<linked, undelivered, unreadSamples, inListener>>

(* The removal also unmatches the endpoints, which shows in the reader as  *)
(* a sample without data.                                                  *)
DiscoverDeath(t, p) ==
    LET q == PeerOf[t] IN
    /\ ~up[p] /\ lifecycle[q][p] = "Added"
    /\ Discovers(t, p, "Removed")
    /\ linked' = [linked EXCEPT ![q][p] = FALSE]
    /\ undelivered' = [undelivered EXCEPT ![q][p] = FALSE]
    /\ unreadSamples' = IF linked[q][p]
                 THEN [unreadSamples EXCEPT ![q] = Append(@, NoData(p))]
                 ELSE unreadSamples
    /\ UNCHANGED inListener

-----------------------------------------------------------------------------
(* publish_local_snapshot().                                               *)

HoldsPublish(t) == doing[t] \in {"view", "write"}

PublishFree(p) == \A t \in Workers : PeerOf[t] = p => ~HoldsPublish(t)

LockPublish(t) ==
    /\ Runs(t, "notify") /\ PublishFree(PeerOf[t])
    /\ To(t, "view")
    /\ UNCHANGED <<up, localGraph, remoteGraph, wire, unreadSamples, inListener, copy, budget,
                   lost, losses>>

BuildLocalSnapshot(p) == Sample(p, nodes[p], version[p])

ViewLocal(t) ==
    /\ Runs(t, "view")
    /\ copy' = [copy EXCEPT ![t] = BuildLocalSnapshot(PeerOf[t])]
    /\ To(t, "write")
    /\ UNCHANGED <<up, localGraph, remoteGraph, wire, unreadSamples, inListener, budget, lost,
                   losses>>

(* A failed write is only remembered: nobody repeats it before the graph   *)
(* changes again.                                                          *)
WriteSnapshot(t) ==
    LET p == PeerOf[t] IN
    /\ Runs(t, "write")
    /\ copy' = [copy EXCEPT ![t] = Sample(p, NoNodesYet, 0)]
    /\ To(t, "idle")
    /\ \/ /\ history' = [history EXCEPT ![p] = copy[t]]
          /\ undelivered' = [q \in Peers |-> [undelivered[q] EXCEPT ![p] = linked[q][p]]]
          /\ lost' = [lost EXCEPT ![p] = FALSE]
          /\ UNCHANGED losses
       \/ /\ losses < MaxLostWrites
          /\ losses' = losses + 1
          /\ lost' = [lost EXCEPT ![p] = TRUE]
          /\ UNCHANGED <<history, undelivered>>
    /\ UNCHANGED <<up, localGraph, remoteGraph, linked, unreadSamples, inListener, budget>>

-----------------------------------------------------------------------------
(* Fast DDS: matching, delivery and the listener.                          *)

MatchEndpoints(q, p) ==
    /\ up[q] /\ up[p] /\ ~linked[q][p] /\ lifecycle[q][p] = "Added"
    /\ linked' = [linked EXCEPT ![q][p] = TRUE]
    /\ undelivered' = [undelivered EXCEPT ![q][p] = TRUE]
    /\ UNCHANGED <<up, localGraph, remoteGraph, history, unreadSamples, inListener, doing, copy, budget,
                   lost, losses>>

(* What a reader that nobody drains holds is not followed.                 *)
Observed(q) == \E t \in Workers : PeerOf[t] = q /\ "ingest" \in Duties[t]

Deliver(q, p) ==
    /\ Observed(q) /\ up[q] /\ up[p] /\ undelivered[q][p] /\ ~inListener[q]
    /\ undelivered' = [undelivered EXCEPT ![q][p] = FALSE]
    /\ unreadSamples' = [unreadSamples EXCEPT ![q] = Append(@, history[p])]
    /\ inListener' = [inListener EXCEPT ![q] = TRUE]
    /\ UNCHANGED <<up, localGraph, remoteGraph, linked, history, doing, copy, budget, lost,
                   losses>>

ListenerReturns(q) ==
    /\ inListener[q]
    /\ inListener' = [inListener EXCEPT ![q] = FALSE]
    /\ UNCHANGED <<up, localGraph, remoteGraph, wire, unreadSamples, doing, copy, budget, lost,
                   losses>>

Die(p) ==
    /\ p \in Mortal /\ up[p]
    /\ up' = [up EXCEPT ![p] = FALSE]
    /\ inListener' = [inListener EXCEPT ![p] = FALSE]
    /\ UNCHANGED <<localGraph, remoteGraph, wire, unreadSamples, doing, copy, budget, lost,
                   losses>>

-----------------------------------------------------------------------------
(* ingest_pending(): one pass takes at most what was unread when it began. *)

PassBudgetShort(q) == IF unreadSamples[q] = <<>> THEN 0 ELSE Len(unreadSamples[q]) - 1

PassBudget(q) == Len(unreadSamples[q])

BeginIngest(t) ==
    LET q == PeerOf[t] IN
    /\ Starts(t, "ingest")
    /\ \A u \in Workers : PeerOf[u] = q => doing[u] # "ingest"
    /\ ~inListener[q]
    /\ budget' = [budget EXCEPT ![t] = PassBudget(q)]
    /\ To(t, "ingest")
    /\ UNCHANGED <<up, localGraph, remoteGraph, wire, unreadSamples, inListener, copy, lost,
                   losses>>

Ignored(q, sample) == ~sample.valid \/ sample.from = q

(* The subscription returns at once while the thread applies a remote      *)
(* snapshot: it publishes nothing.                                         *)
TakeSample(t) ==
    LET q == PeerOf[t]
        sample == Head(unreadSamples[q])
    IN
    /\ Runs(t, "ingest") /\ budget[t] > 0 /\ unreadSamples[q] # <<>>
    /\ budget' = [budget EXCEPT ![t] = @ - 1]
    /\ unreadSamples' = [unreadSamples EXCEPT ![q] = Tail(@)]
    /\ IF Ignored(q, sample)
       THEN UNCHANGED <<remoteOf, believed>>
       ELSE /\ remoteOf' = [remoteOf EXCEPT ![q][sample.from] = sample.nodes]
            /\ believed' = [believed EXCEPT ![q][sample.from] = sample.version]
    /\ UNCHANGED <<up, localGraph, lifecycle, wire, inListener, doing, copy, lost, losses>>

EndIngest(t) ==
    /\ Runs(t, "ingest") /\ (budget[t] = 0 \/ unreadSamples[PeerOf[t]] = <<>>)
    /\ budget' = [budget EXCEPT ![t] = 0]
    /\ To(t, "idle")
    /\ UNCHANGED <<up, localGraph, remoteGraph, wire, unreadSamples, inListener, copy, lost,
                   losses>>

-----------------------------------------------------------------------------
Publishing(t) == LockPublish(t) \/ ViewLocal(t) \/ WriteSnapshot(t)
Ingesting(t) == TakeSample(t) \/ EndIngest(t)

MetadataNext ==
    \/ \E t \in Workers : \/ CommitLocal(t)
                          \/ Publishing(t)
                          \/ BeginIngest(t)
                          \/ Ingesting(t)
                          \/ \E p \in Peers : DiscoverPeer(t, p) \/ DiscoverDeath(t, p)
    \/ \E p \in Peers : \/ Die(p)
                        \/ ListenerReturns(p)
                        \/ \E q \in Peers : MatchEndpoints(q, p) \/ Deliver(q, p)

Asks(q) == \E t \in Workers : PeerOf[t] = q /\ BeginIngest(t)
Receives(q) == \E p \in Peers : MatchEndpoints(q, p) \/ Deliver(q, p)
Discovery(q) == \E t \in Workers, p \in Peers : PeerOf[t] = q /\ DiscoverPeer(t, p)

(* Threads run; Fast DDS discovers, matches and delivers reliably; and     *)
(* the ingesting threads keep asking about the graph.                      *)
MetadataFairness ==
    /\ \A t \in Workers : WF_metaVars(Publishing(t) \/ Ingesting(t))
    /\ \A q \in Peers : /\ WF_metaVars(ListenerReturns(q)) /\ WF_metaVars(Asks(q))
                       /\ WF_metaVars(Receives(q)) /\ WF_metaVars(Discovery(q))

MetadataSpec == MetadataInit /\ [][MetadataNext]_metaVars /\ MetadataFairness

-----------------------------------------------------------------------------
(* When none of its threads is on the way to publishing and the last write *)
(* did not fail, the sample a late joiner gets is the participant's        *)
(* current state, however the commits and the publications of its threads  *)
(* interleaved (publish_mutex_ covers the view and the write).             *)
OfferedIsCurrent ==
    \A p \in Peers :
      (/\ up[p] /\ ~lost[p]
       /\ \A t \in Workers : PeerOf[t] = p => doing[t] \notin {"notify", "view", "write"})
      => history[p].nodes = nodes[p]

(* What a participant believes of another never goes back to an older      *)
(* state, through skipped samples, late joins and several reading threads. *)
BeliefAdvances ==
    [][\A q, p \in Peers : believed'[q][p] >= believed[q][p]]_metaVars

(* Once the participants stop changing, everyone's graph shows the nodes   *)
(* the others have, unless the last write of a participant failed: no      *)
(* sample stays unread and no notification is needed to find it.           *)
Converges ==
    \A q, p \in Peers :
      q # p /\ Observed(q) =>
        <>[](\/ ~up[q] \/ ~up[p] \/ lost[p]
             \/ remoteOf[q][p] = nodes[p])

(* assemble_snapshot() lists the nodes of remoteOf, and drops the          *)
(* endpoints of a participant that is Removed: it should not list nodes    *)
(* of a participant that the very same view reports as gone.               *)
SnapshotCoherent ==
    \A q, p \in Peers : lifecycle[q][p] = "Removed" => remoteOf[q][p] = NoNodesYet

(* Participants that lose and skip samples, and join late, still come to   *)
(* believe the last state of each other, and never go back on the way.     *)
MetadataConverges == BeliefAdvances /\ Converges
=============================================================================
