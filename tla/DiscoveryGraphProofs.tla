------------------------ MODULE DiscoveryGraphProofs ------------------------
(***************************************************************************)
(* Proofs about DiscoveryGraph, for any number of threads, participants,    *)
(* endpoints, nodes and GraphEvents: changes reach every open GraphEvent,   *)
(* nobody is inside what was drained, the references of nodes are accounted *)
(* for, and removal and unavailability are final.                           *)
(***************************************************************************)
EXTENDS DiscoveryGraph, FiniteSetTheorems, SequenceTheorems, TLAPS

-----------------------------------------------------------------------------
(* Sequences of subscribers.                                               *)

\* A list is its head and the rest.
LEMMA HeadAndTail ==
  ASSUME NEW q \in Seq(Events), q # <<>>
  PROVE  Head(q) \in Events /\ Tail(q) \in Seq(Events) /\ ToSet(q) = {Head(q)} \cup ToSet(Tail(q))
  <1>1. /\ Len(q) \in Nat /\ Len(q) > 0 /\ DOMAIN q = 1..Len(q)
        /\ Head(q) = q[1] /\ Head(q) \in Events /\ Tail(q) \in Seq(Events)
    OBVIOUS
  <1>2. /\ DOMAIN Tail(q) = 1..Len(q) - 1
        /\ \A i \in 1..Len(q) - 1 : Tail(q)[i] = q[i + 1]
    OBVIOUS
  <1>3. ASSUME NEW e \in ToSet(q) PROVE e \in {Head(q)} \cup ToSet(Tail(q))
    <2>1. PICK i \in 1..Len(q) : e = q[i]
      BY <1>1, <1>3 DEF ToSet
    <2>2. CASE i = 1
      BY <1>1, <2>1, <2>2
    <2>3. CASE i # 1
      <3>1. i - 1 \in 1..Len(q) - 1 /\ i - 1 + 1 = i
        BY <1>1, <2>3
      <3>2. Tail(q)[i - 1] = e
        BY <1>2, <2>1, <3>1
      <3>3. QED
        BY <1>2, <3>1, <3>2 DEF ToSet
    <2>4. QED
      BY <2>2, <2>3
  <1>4. ASSUME NEW e \in ToSet(Tail(q)) PROVE e \in ToSet(q)
    <2>1. PICK i \in 1..Len(q) - 1 : e = Tail(q)[i]
      BY <1>2, <1>4 DEF ToSet
    <2>2. i + 1 \in 1..Len(q) /\ e = q[i + 1]
      BY <1>1, <1>2, <2>1
    <2>3. QED
      BY <1>1, <2>2 DEF ToSet
  <1>5. Head(q) \in ToSet(q)
    BY <1>1 DEF ToSet
  <1>6. QED
    BY <1>1, <1>3, <1>4, <1>5

LEMMA AppendKeeps ==
  ASSUME NEW s \in Seq(Events), NEW e \in Events
  PROVE  Append(s, e) \in Seq(Events) /\ ToSet(Append(s, e)) = ToSet(s) \cup {e}
  <1>1. /\ Append(s, e) \in Seq(Events) /\ Len(Append(s, e)) = Len(s) + 1
        /\ \A i \in 1..Len(s) : Append(s, e)[i] = s[i]
        /\ Append(s, e)[Len(s) + 1] = e
    OBVIOUS
  <1>2. DOMAIN s = 1..Len(s) /\ DOMAIN Append(s, e) = 1..Len(s) + 1 /\ Len(s) \in Nat
    BY <1>1
  <1>3. QED
    BY <1>1, <1>2 DEF ToSet

\* Erasing one subscriber keeps the others.
LEMMA RemoveAtKeeps ==
  ASSUME NEW s \in Seq(Events), NEW i \in DOMAIN s
  PROVE  RemoveAt(s, i) \in Seq(Events) /\ \A e \in ToSet(s) : e = s[i] \/ e \in ToSet(RemoveAt(s, i))
  <1>0. i \in 1..Len(s) /\ Len(s) \in Nat /\ DOMAIN s = 1..Len(s) /\ i \in Nat
    OBVIOUS
  <1>1. PICK a : a = SubSeq(s, 1, i - 1)
    OBVIOUS
  <1>2. PICK b : b = SubSeq(s, i + 1, Len(s))
    OBVIOUS
  <1>3. a \in Seq(Events) /\ Len(a) = i - 1 /\ \A k \in 1..i - 1 : a[k] = s[k]
    BY <1>0, <1>1
  <1>4. b \in Seq(Events) /\ Len(b) = Len(s) - i /\ \A k \in 1..Len(s) - i : b[k] = s[i + k]
    BY <1>0, <1>2
  <1>5. PICK c : c = a \o b
    OBVIOUS
  <1>6. c \in Seq(Events) /\ Len(c) = Len(a) + Len(b)
    BY <1>3, <1>4, <1>5, ConcatProperties
  <1>7. DOMAIN c = 1..Len(s) - 1
    BY <1>0, <1>3, <1>4, <1>6
  <1>8. \A k \in 1..Len(a) : c[k] = a[k]
    BY <1>3, <1>4, <1>5
  <1>9. ASSUME NEW k \in 1..Len(b) PROVE c[Len(a) + k] = b[k]
    <2>0. Len(a) \in Nat /\ Len(b) \in Nat
      BY <1>3, <1>4, LenProperties
    <2>1. /\ Len(a) + k \in 1..Len(a) + Len(b)
          /\ ~(Len(a) + k <= Len(a)) /\ Len(a) + k - Len(a) = k
      BY <2>0
    <2>2. \A j \in 1..Len(a) + Len(b) : c[j] = IF j <= Len(a) THEN a[j] ELSE b[j - Len(a)]
      BY <1>3, <1>4, <1>5, ConcatProperties
    <2>3. QED
      BY <2>1, <2>2
  <1>10. ASSUME NEW e \in ToSet(s), e # s[i] PROVE e \in ToSet(c)
    <2>1. PICK k \in 1..Len(s) : e = s[k]
      BY <1>0, <1>10 DEF ToSet
    <2>2. CASE k < i
      <3>1. k \in 1..Len(a) /\ k \in 1..i - 1 /\ k \in 1..Len(s) - 1
        BY <1>0, <1>3, <2>2
      <3>2. c[k] = e
        BY <1>3, <1>8, <2>1, <3>1
      <3>3. QED
        BY <1>7, <3>1, <3>2 DEF ToSet
    <2>3. CASE k > i
      <3>1. k - i \in 1..Len(b) /\ k - i \in 1..Len(s) - i /\ i + (k - i) = k
        BY <1>0, <1>4, <2>3
      <3>2. Len(a) + (k - i) \in 1..Len(s) - 1
        BY <1>0, <1>3, <2>3
      <3>3. c[Len(a) + (k - i)] = e
        BY <1>4, <1>9, <2>1, <3>1
      <3>4. QED
        BY <1>7, <3>2, <3>3 DEF ToSet
    <2>4. k # i
      BY <1>10, <2>1
    <2>5. QED
      BY <1>0, <2>2, <2>3, <2>4
  <1>11. RemoveAt(s, i) = c
    BY <1>1, <1>2, <1>5 DEF RemoveAt
  <1>12. QED
    BY <1>6, <1>10, <1>11

-----------------------------------------------------------------------------
(* The inductive invariant.                                                *)

Labels == {"idle", "discover", "snapshot", "next", "subscribe", "take", "close", "unsubscribe",
           "stop", "drain", "leave", "gate"} \cup InCallback
Stages == {"none", "initializing", "open", "closing", "drained"}

RecordsTyped ==
  /\ health \in Healths /\ revision \in 0..MaxRevision
  /\ part \in [Participants -> Changes \cup {"none"}]
  /\ endp \in [Endpoints -> Changes \cup {"none"}]
  /\ remote \in [Participants -> Snapshots]
  /\ references \in [Nodes -> Nat] /\ facades \subseteq Nodes
  /\ assoc \in [LocalEndpoints -> Nodes \cup {NoNode}] /\ lost \in [Nodes -> Nat]
EventsTyped ==
  /\ subs \in Seq(Events) /\ inFlight \in [Events -> Nat]
  /\ holders \in [Events -> SUBSET (GraphThreads \cup {Facade})]
  /\ stage \in [Events -> Stages]
ThreadsTyped ==
  /\ graphPc \in [GraphThreads -> Labels]
  /\ graphArg \in [GraphThreads -> Events \cup {NoEvent}]
  /\ queue \in [GraphThreads -> Seq(Events)]
  /\ inListener \subseteq GraphThreads
HistoryTyped ==
  /\ cursor \in [Events -> 0..MaxRevision]
  /\ noticed \in [Events -> [revision : 0..MaxRevision, health : Healths]]
  /\ graphCalls \in [GraphThreads -> 0..MaxGraphCalls]
  /\ graphFaults \in 0..MaxGraphFaults
FlagsTyped ==
  /\ accepting \in [Events -> BOOLEAN] /\ silent \in BOOLEAN
  /\ listener \in {"open", "closing", "closed"}

LEMMA TypeParts ==
  GraphTypeOK <=> RecordsTyped /\ EventsTyped /\ ThreadsTyped /\ HistoryTyped /\ FlagsTyped
  BY DEF GraphTypeOK, RecordsTyped, EventsTyped, ThreadsTyped, HistoryTyped, FlagsTyped, Labels, Stages

Plain == {"idle", "discover", "snapshot", "leave", "gate"}
Destroying == {"unsubscribe", "stop", "drain"}
Closing == Destroying \cup {"close"}

\* A thread has subscribers to call only in notify(); in a callback, the one it
\* calls is the first of them, and the destructor a callback runs is that one's.
Queued ==
  \A t \in GraphThreads :
    /\ graphPc[t] \in Plain \cup {"subscribe", "take", "close"} => queue[t] = <<>>
    /\ graphPc[t] \in InCallback => queue[t] # <<>>
    /\ graphPc[t] \in Destroying /\ queue[t] # <<>> => Head(queue[t]) = graphArg[t]

\* in_flight counts the threads inside the callback, a destructor it runs included.
Inside(e) ==
  {t \in GraphThreads :
     graphPc[t] \in InCallback \cup Destroying /\ queue[t] # <<>> /\ Head(queue[t]) = e}
Counted == \A e \in Events : inFlight[e] = Cardinality(Inside(e))

\* The life of a GraphEvent goes with the thread that creates or destroys it ...
Staged ==
  \A t \in GraphThreads :
    /\ graphPc[t] = "subscribe" => graphArg[t] \in Events /\ stage[graphArg[t]] = "initializing"
    /\ graphPc[t] \in Closing => graphArg[t] \in Events /\ stage[graphArg[t]] = "closing"
    /\ graphPc[t] = "take" => graphArg[t] \in Events

\* ... which is one thread at a time ...
OneEach ==
  \A t, u \in GraphThreads : graphArg[t] = graphArg[u] =>
    /\ graphPc[t] = "subscribe" /\ graphPc[u] = "subscribe" => t = u
    /\ graphPc[t] \in Closing /\ graphPc[u] \in Closing => t = u

\* ... and with who holds it: nobody does once the destructor runs.
Owned ==
  /\ \A e \in Events :
       /\ stage[e] \in {"initializing", "open"} => Facade \in holders[e]
       /\ stage[e] \in {"none", "drained"} => holders[e] = {}
  /\ \A t \in GraphThreads :
       /\ graphPc[t] = "close" => Facade \in holders[graphArg[t]]
       /\ graphPc[t] \in Destroying => holders[graphArg[t]] = {}

\* An open GraphEvent is subscribed; a drained one is not called and never will be.
Admitting ==
  /\ \A e \in Events :
       /\ stage[e] = "open" => accepting[e] /\ e \in ToSet(subs)
       /\ stage[e] = "drained" => ~accepting[e] /\ inFlight[e] = 0
  /\ \A t \in GraphThreads : graphPc[t] = "drain" => ~accepting[graphArg[t]]

EventInv == Queued /\ Counted /\ Staged /\ OneEach /\ Owned /\ Admitting

-----------------------------------------------------------------------------
(* Threads inside a callback.                                              *)

LEMMA InsideFinite == \A e : IsFiniteSet(Inside(e)) /\ Cardinality(Inside(e)) \in Nat
  <1>1. ASSUME NEW e PROVE IsFiniteSet(Inside(e)) /\ Cardinality(Inside(e)) \in Nat
    <2>1. Inside(e) \subseteq GraphThreads
      BY DEF Inside
    <2>2. IsFiniteSet(Inside(e))
      BY <2>1, GraphAssumption, FS_Subset
    <2>3. QED
      BY <2>2, FS_CardinalityType
  <1>2. QED
    BY <1>1

\* A thread that is inside is counted.
LEMMA InsideCounts ==
  ASSUME Counted, NEW e \in Events, NEW t \in Inside(e)
  PROVE  inFlight[e] > 0
  <1>1. Inside(e) # {}
    OBVIOUS
  <1>2. Cardinality(Inside(e)) # 0
    BY <1>1, InsideFinite, FS_EmptySet
  <1>3. QED
    BY <1>2, InsideFinite DEF Counted

LEMMA CountKept ==
  ASSUME Counted, UNCHANGED inFlight, \A e \in Events : Inside(e)' = Inside(e)
  PROVE  Counted'
  BY DEF Counted

\* One thread enters or leaves one callback.
LEMMA CountMoves ==
  ASSUME Counted, EventsTyped, NEW e \in Events, NEW t \in GraphThreads,
         \A d \in Events : d # e => Inside(d)' = Inside(d)
  PROVE  /\ /\ t \notin Inside(e) /\ Inside(e)' = Inside(e) \cup {t}
            /\ inFlight' = [inFlight EXCEPT ![e] = @ + 1]
            => Counted'
         /\ /\ t \in Inside(e) /\ Inside(e)' = Inside(e) \ {t}
            /\ inFlight' = [inFlight EXCEPT ![e] = @ - 1]
            => Counted'
  <1>0. inFlight \in [Events -> Nat] /\ inFlight[e] = Cardinality(Inside(e))
    BY DEF EventsTyped, Counted
  <1>1. ASSUME t \notin Inside(e), Inside(e)' = Inside(e) \cup {t},
               inFlight' = [inFlight EXCEPT ![e] = @ + 1]
        PROVE  Counted'
    <2>1. Cardinality(Inside(e) \cup {t}) = Cardinality(Inside(e)) + 1
      BY <1>1, InsideFinite, FS_AddElement
    <2>2. QED
      BY <1>0, <1>1, <2>1 DEF Counted
  <1>2. ASSUME t \in Inside(e), Inside(e)' = Inside(e) \ {t},
               inFlight' = [inFlight EXCEPT ![e] = @ - 1]
        PROVE  Counted'
    <2>1. Cardinality(Inside(e) \ {t}) = Cardinality(Inside(e)) - 1
      BY <1>2, InsideFinite, FS_RemoveElement
    <2>2. QED
      BY <1>0, <1>2, <2>1 DEF Counted
  <1>3. QED
    BY <1>1, <1>2

-----------------------------------------------------------------------------
(* Every step keeps it.                                                    *)

\* A step of a thread that is neither in notify() nor in a GraphEvent operation.
PlainStep(t) ==
  /\ graphPc[t] \in Plain
  /\ \E l \in Plain : GraphGoto(t, l)
  /\ UNCHANGED <<subVars, eventVars, graphArg, queue>>

PlainAction(t) ==
  \/ Discover(t) \/ ListenerEnter(t) \/ ListenerLeave(t) \/ ListenerClose(t) \/ ListenerDrain(t)
  \/ SnapshotThrows(t) \/ Ingest(t)
  \/ \E n \in Nodes : AddLocalNode(t, n) \/ ReleaseLocalNode(t, n) \/ AddLocalEndpointThrows(t, n)
  \/ \E l \in LocalEndpoints :
        RemoveLocalEndpoint(t, l) \/ \E n \in Nodes : AddLocalEndpoint(t, l, n)

\* mutate() ends in a notification or in what the thread was doing.
LEMMA MutationGoes ==
  ASSUME NEW t \in GraphThreads,
         \/ Unchanged(t) \/ Invalid(t) \/ Changed(t)
         \/ \E p \in Participants, c \in Changes : ApplyParticipant(t, p, c)
         \/ \E g \in Endpoints, c \in Changes : ApplyEndpoint(t, g, c)
         \/ \E p \in Participants, nodes \in Snapshots : ApplyRemoteNodes(t, p, nodes)
  PROVE  \E l \in Plain : GraphGoto(t, l)
  <1>1. Unchanged(t) \/ Invalid(t) \/ Changed(t)
    BY DEF ApplyParticipant, ApplyEndpoint, ApplyRemoteNodes
  <1>2. Done(t) \in Plain /\ "snapshot" \in Plain
    BY DEF Done, Plain
  <1>3. QED
    BY <1>1, <1>2 DEF Unchanged, Invalid, Changed

LEMMA PlainSteps ==
  ASSUME NEW t \in GraphThreads, PlainAction(t)
  PROVE  PlainStep(t)
  <1>1. CASE Discover(t)
    <2>1. \E l \in Plain : GraphGoto(t, l)
      BY <1>1, MutationGoes DEF Discover, Throws
    <2>2. QED
      BY <1>1, <2>1 DEF Discover, PlainStep, Plain
  <1>2. CASE ListenerEnter(t) \/ ListenerLeave(t) \/ ListenerClose(t) \/ ListenerDrain(t)
    BY <1>2 DEF ListenerEnter, ListenerLeave, ListenerClose, ListenerDrain, Starts, PlainStep, Plain
  <1>3. CASE SnapshotThrows(t)
    <2>1. Done(t) \in Plain
      BY DEF Done, Plain
    <2>2. QED
      BY <1>3, <2>1 DEF SnapshotThrows, PlainStep, Plain
  <1>4. CASE Ingest(t)
    <2>1. \E l \in Plain : GraphGoto(t, l)
      BY <1>4, MutationGoes DEF Ingest, Throws
    <2>2. QED
      BY <1>4, <2>1 DEF Ingest, Local, Starts, PlainStep, Plain
  <1>5. ASSUME NEW n \in Nodes, AddLocalNode(t, n) \/ ReleaseLocalNode(t, n) \/ AddLocalEndpointThrows(t, n)
        PROVE  PlainStep(t)
    <2>1. Done(t) \in Plain
      BY DEF Done, Plain
    <2>2. \E l \in Plain : GraphGoto(t, l)
      BY <1>5, <2>1, MutationGoes DEF AddLocalNode, ReleaseLocalNode, AddLocalEndpointThrows
    <2>3. QED
      BY <1>5, <2>2 DEF AddLocalNode, ReleaseLocalNode, AddLocalEndpointThrows, Local, Starts, PlainStep, Plain
  <1>6. ASSUME NEW l \in LocalEndpoints, NEW n \in Nodes,
               RemoveLocalEndpoint(t, l) \/ AddLocalEndpoint(t, l, n)
        PROVE  PlainStep(t)
    <2>1. \E k \in Plain : GraphGoto(t, k)
      BY <1>6, MutationGoes DEF RemoveLocalEndpoint, AddLocalEndpoint
    <2>2. QED
      BY <1>6, <2>1 DEF RemoveLocalEndpoint, AddLocalEndpoint, AddLocalEndpointThrows, Local, Starts, PlainStep, Plain
  <1>7. ASSUME NEW l \in LocalEndpoints, RemoveLocalEndpoint(t, l) PROVE PlainStep(t)
    <2>1. \E k \in Plain : GraphGoto(t, k)
      BY <1>7, MutationGoes DEF RemoveLocalEndpoint
    <2>2. QED
      BY <1>7, <2>1 DEF RemoveLocalEndpoint, Local, Starts, PlainStep, Plain
  <1>8. QED
    BY <1>1, <1>2, <1>3, <1>4, <1>5, <1>6, <1>7 DEF PlainAction

\* Threads outside the operations of a GraphEvent.
LEMMA OneEachKept ==
  ASSUME OneEach, UNCHANGED graphArg,
         \A u \in GraphThreads : graphPc'[u] \in Closing \cup {"subscribe"} => graphPc'[u] = graphPc[u]
  PROVE  OneEach'
  BY DEF OneEach

\* Threads outside notify() and the GraphEvents.
LEMMA PlainKeeps ==
  ASSUME EventsTyped, ThreadsTyped, FlagsTyped, EventInv, NEW t \in GraphThreads, PlainStep(t)
  PROVE  EventInv'
  <1>0. /\ Queued /\ Counted /\ Staged /\ OneEach /\ Owned /\ Admitting
        /\ graphPc \in [GraphThreads -> Labels]
        /\ graphArg \in [GraphThreads -> Events \cup {NoEvent}]
        /\ queue \in [GraphThreads -> Seq(Events)]
        /\ subs \in Seq(Events) /\ inFlight \in [Events -> Nat]
        /\ holders \in [Events -> SUBSET (GraphThreads \cup {Facade})]
        /\ stage \in [Events -> Stages] /\ accepting \in [Events -> BOOLEAN]
    BY DEF EventInv, EventsTyped, ThreadsTyped, FlagsTyped
  <1> USE <1>0 DEF PlainStep, GraphGoto, Plain, subVars, eventVars
  <1>1. Queued'
    BY DEF Queued, Plain, InCallback, Destroying
  <1>2. Counted'
    <2>1. \A e \in Events : Inside(e)' = Inside(e)
      BY DEF Inside, Queued, Plain, InCallback, Destroying
    <2>2. QED
      BY <2>1, CountKept
  <1>3. Staged'
    BY DEF Staged, Closing, Destroying, InCallback
  <1>4. OneEach'
    BY DEF OneEach, Staged, Closing, Destroying, InCallback
  <1>5. Owned'
    BY DEF Owned, Staged, Closing, Destroying, InCallback
  <1>6. Admitting'
    BY DEF Admitting, Staged, Closing, Destroying, InCallback
  <1>7. QED
    BY <1>1, <1>2, <1>3, <1>4, <1>5, <1>6 DEF EventInv

\* notify() copies the subscribers.
LEMMA SnapshotKeeps ==
  ASSUME EventsTyped, ThreadsTyped, FlagsTyped, EventInv, NEW t \in GraphThreads, Snapshot(t)
  PROVE  EventInv'
  <1>0. /\ Queued /\ Counted /\ Staged /\ OneEach /\ Owned /\ Admitting
        /\ graphPc \in [GraphThreads -> Labels]
        /\ graphArg \in [GraphThreads -> Events \cup {NoEvent}]
        /\ queue \in [GraphThreads -> Seq(Events)]
        /\ subs \in Seq(Events) /\ inFlight \in [Events -> Nat]
        /\ holders \in [Events -> SUBSET (GraphThreads \cup {Facade})]
        /\ stage \in [Events -> Stages] /\ accepting \in [Events -> BOOLEAN]
    BY DEF EventInv, EventsTyped, ThreadsTyped, FlagsTyped
  <1> USE <1>0 DEF Snapshot, GraphGoto, subVars, eventVars
  <1>1. Queued'
    BY DEF Queued, Plain, InCallback, Destroying
  <1>2. Counted'
    <2>1. \A e \in Events : Inside(e)' = Inside(e)
      BY DEF Inside, Queued, Plain, InCallback, Destroying
    <2>2. QED
      BY <2>1, CountKept
  <1>3. Staged'
    BY DEF Staged, Closing, Destroying, InCallback
  <1>4. OneEach'
    BY DEF OneEach, Staged, Closing, Destroying, InCallback
  <1>5. Owned'
    BY DEF Owned, Staged, Closing, Destroying, InCallback
  <1>6. Admitting'
    BY DEF Admitting, Staged, Closing, Destroying, InCallback
  <1>7. QED
    BY <1>1, <1>2, <1>3, <1>4, <1>5, <1>6 DEF EventInv

\* A subscriber is entered, skipped, or was the last.
LEMMA NextSubscriberKeeps ==
  ASSUME EventsTyped, ThreadsTyped, FlagsTyped, EventInv, NEW t \in GraphThreads, NextSubscriber(t)
  PROVE  EventInv'
  <1>0. /\ Queued /\ Counted /\ Staged /\ OneEach /\ Owned /\ Admitting
        /\ graphPc \in [GraphThreads -> Labels]
        /\ graphArg \in [GraphThreads -> Events \cup {NoEvent}]
        /\ queue \in [GraphThreads -> Seq(Events)]
        /\ subs \in Seq(Events) /\ inFlight \in [Events -> Nat]
        /\ holders \in [Events -> SUBSET (GraphThreads \cup {Facade})]
        /\ stage \in [Events -> Stages] /\ accepting \in [Events -> BOOLEAN]
    BY DEF EventInv, EventsTyped, ThreadsTyped, FlagsTyped
  <1> USE <1>0 DEF NextSubscriber, GraphGoto, Admits, eventVars, Done
  <1>h. queue[t] # <<>> => Head(queue[t]) \in Events /\ Tail(queue[t]) \in Seq(Events)
    BY HeadAndTail
  <1>1. Queued'
    BY DEF Queued, Plain, InCallback, Destroying
  <1>2. Counted'
    <2>1. CASE queue[t] # <<>> /\ Admits(Head(queue[t]))
      <3>0. PICK e \in Events : e = Head(queue[t])
        BY <1>h, <2>1
      <3>1. e \in Events /\ t \notin Inside(e) /\ Inside(e)' = Inside(e) \cup {t}
        BY <1>h, <2>1, <3>0 DEF Inside, InCallback, Destroying
      <3>2. \A d \in Events : d # e => Inside(d)' = Inside(d)
        BY <2>1, <3>0 DEF Inside, InCallback, Destroying
      <3>3. QED
        BY <2>1, <3>0, <3>1, <3>2, CountMoves
    <2>2. CASE ~(queue[t] # <<>> /\ Admits(Head(queue[t])))
      <3>1. \A e \in Events : Inside(e)' = Inside(e)
        BY <2>2 DEF Inside, InCallback, Destroying
      <3>2. QED
        BY <2>2, <3>1, CountKept
    <2>3. QED
      BY <2>1, <2>2
  <1>3. Staged'
    BY DEF Staged, Closing, Destroying, InCallback
  <1>4. OneEach'
    <2>1. \A u \in GraphThreads : graphPc'[u] \in Closing \cup {"subscribe"} => graphPc'[u] = graphPc[u]
      BY DEF Closing, Destroying
    <2>2. QED
      BY <2>1, OneEachKept
  <1>5. Owned'
    BY DEF Owned, Staged, Closing, Destroying, InCallback
  <1>6. Admitting'
    <2>1. \A e \in Events : stage[e] = "drained" => inFlight'[e] = inFlight[e]
      BY <1>h DEF Admitting
    <2>2. QED
      BY <2>1 DEF Admitting, Staged, Closing, Destroying, InCallback
  <1>7. QED
    BY <1>1, <1>2, <1>3, <1>4, <1>5, <1>6 DEF EventInv

\* The callback locks its weak pointer.
LEMMA CallbackLockKeeps ==
  ASSUME EventsTyped, ThreadsTyped, FlagsTyped, EventInv, NEW t \in GraphThreads, CallbackLock(t)
  PROVE  EventInv'
  <1>0. /\ Queued /\ Counted /\ Staged /\ OneEach /\ Owned /\ Admitting
        /\ graphPc \in [GraphThreads -> Labels]
        /\ graphArg \in [GraphThreads -> Events \cup {NoEvent}]
        /\ queue \in [GraphThreads -> Seq(Events)]
        /\ subs \in Seq(Events) /\ inFlight \in [Events -> Nat]
        /\ holders \in [Events -> SUBSET (GraphThreads \cup {Facade})]
        /\ stage \in [Events -> Stages] /\ accepting \in [Events -> BOOLEAN]
    BY DEF EventInv, EventsTyped, ThreadsTyped, FlagsTyped
  <1> USE <1>0 DEF CallbackLock, GraphGoto, subVars
  <1>h. queue[t] # <<>> => Head(queue[t]) \in Events /\ Tail(queue[t]) \in Seq(Events)
    BY HeadAndTail
  <1>1. Queued'
    BY DEF Queued, Plain, InCallback, Destroying
  <1>2. Counted'
    <2>1. \A e \in Events : Inside(e)' = Inside(e)
      BY DEF Inside, Queued, Plain, InCallback, Destroying
    <2>2. QED
      BY <2>1, CountKept
  <1>3. Staged'
    BY DEF Staged, Closing, Destroying, InCallback
  <1>4. OneEach'
    <2>1. \A u \in GraphThreads : graphPc'[u] \in Closing \cup {"subscribe"} => graphPc'[u] = graphPc[u]
      BY DEF Closing, Destroying
    <2>2. QED
      BY <2>1, OneEachKept
  <1>5. Owned'
    <2>1. \A e \in Events : holders[e] \subseteq holders'[e] /\ (holders[e] = {} => holders'[e] = {})
      BY <1>h DEF Queued, InCallback
    <2>2. \A u \in GraphThreads : graphPc'[u] \in Closing => graphPc'[u] = graphPc[u]
      BY DEF Closing, Destroying
    <2>3. QED
      BY <2>1, <2>2 DEF Owned, Staged, Closing
  <1>6. Admitting'
    BY DEF Admitting, Staged, Closing, Destroying, InCallback
  <1>7. QED
    BY <1>1, <1>2, <1>3, <1>4, <1>5, <1>6 DEF EventInv

\* The callback notifies the WaitSet.
LEMMA CallbackWakeKeeps ==
  ASSUME EventsTyped, ThreadsTyped, FlagsTyped, EventInv, NEW t \in GraphThreads, CallbackWake(t)
  PROVE  EventInv'
  <1>0. /\ Queued /\ Counted /\ Staged /\ OneEach /\ Owned /\ Admitting
        /\ graphPc \in [GraphThreads -> Labels]
        /\ graphArg \in [GraphThreads -> Events \cup {NoEvent}]
        /\ queue \in [GraphThreads -> Seq(Events)]
        /\ subs \in Seq(Events) /\ inFlight \in [Events -> Nat]
        /\ holders \in [Events -> SUBSET (GraphThreads \cup {Facade})]
        /\ stage \in [Events -> Stages] /\ accepting \in [Events -> BOOLEAN]
    BY DEF EventInv, EventsTyped, ThreadsTyped, FlagsTyped
  <1> USE <1>0 DEF CallbackWake, GraphGoto, subVars, eventVars
  <1>h. queue[t] # <<>> => Head(queue[t]) \in Events /\ Tail(queue[t]) \in Seq(Events)
    BY HeadAndTail
  <1>1. Queued'
    BY DEF Queued, Plain, InCallback, Destroying
  <1>2. Counted'
    <2>1. \A e \in Events : Inside(e)' = Inside(e)
      BY DEF Inside, Queued, Plain, InCallback, Destroying
    <2>2. QED
      BY <2>1, CountKept
  <1>3. Staged'
    BY DEF Staged, Closing, Destroying, InCallback
  <1>4. OneEach'
    BY DEF OneEach, Staged, Closing, Destroying, InCallback
  <1>5. Owned'
    BY DEF Owned, Staged, Closing, Destroying, InCallback
  <1>6. Admitting'
    BY DEF Admitting, Staged, Closing, Destroying, InCallback
  <1>7. QED
    BY <1>1, <1>2, <1>3, <1>4, <1>5, <1>6 DEF EventInv

\* The callback drops its reference; the last one runs the destructor.
LEMMA CallbackDropKeeps ==
  ASSUME EventsTyped, ThreadsTyped, FlagsTyped, EventInv, NEW t \in GraphThreads, CallbackDrop(t)
  PROVE  EventInv'
  <1>0. /\ Queued /\ Counted /\ Staged /\ OneEach /\ Owned /\ Admitting
        /\ graphPc \in [GraphThreads -> Labels]
        /\ graphArg \in [GraphThreads -> Events \cup {NoEvent}]
        /\ queue \in [GraphThreads -> Seq(Events)]
        /\ subs \in Seq(Events) /\ inFlight \in [Events -> Nat]
        /\ holders \in [Events -> SUBSET (GraphThreads \cup {Facade})]
        /\ stage \in [Events -> Stages] /\ accepting \in [Events -> BOOLEAN]
    BY DEF EventInv, EventsTyped, ThreadsTyped, FlagsTyped
  <1> USE <1>0 DEF CallbackDrop, GraphRelease, GraphGoto, subVars
  <1>h. queue[t] # <<>> => Head(queue[t]) \in Events /\ Tail(queue[t]) \in Seq(Events)
    BY HeadAndTail
  <1>e. graphPc[t] = "drop" /\ queue[t] # <<>> /\ Head(queue[t]) \in Events /\ t \in Inside(Head(queue[t]))
    BY <1>h DEF Queued, Inside, InCallback
  <1>s. holders[Head(queue[t])] = {t} => stage[Head(queue[t])] = "closing"
    BY <1>e, GraphAssumption DEF Owned, Stages
  <1>1. Queued'
    BY DEF Queued, Plain, InCallback, Destroying
  <1>2. Counted'
    <2>1. \A e \in Events : Inside(e)' = Inside(e)
      BY DEF Inside, Queued, Plain, InCallback, Destroying
    <2>2. QED
      BY <2>1, CountKept
  <1>3. Staged'
    BY <1>e, <1>s DEF Staged, Closing, Destroying, InCallback
  <1>4. OneEach'
    <2>1. holders[Head(queue[t])] = {t} => \A u \in GraphThreads : graphPc[u] \in Closing => graphArg[u] # Head(queue[t])
      BY <1>e, GraphAssumption DEF Owned, Closing
    <2>2. QED
      BY <1>e, <2>1 DEF OneEach, Closing, Destroying, InCallback
  <1>5. Owned'
    BY <1>e, <1>s, GraphAssumption DEF Owned, Staged, Closing, Destroying, InCallback
  <1>6. Admitting'
    BY DEF Admitting, Staged, Closing, Destroying, InCallback
  <1>7. QED
    BY <1>1, <1>2, <1>3, <1>4, <1>5, <1>6 DEF EventInv

\* The callback is over.
LEMMA CallbackExitKeeps ==
  ASSUME EventsTyped, ThreadsTyped, FlagsTyped, EventInv, NEW t \in GraphThreads, CallbackExit(t)
  PROVE  EventInv'
  <1>0. /\ Queued /\ Counted /\ Staged /\ OneEach /\ Owned /\ Admitting
        /\ graphPc \in [GraphThreads -> Labels]
        /\ graphArg \in [GraphThreads -> Events \cup {NoEvent}]
        /\ queue \in [GraphThreads -> Seq(Events)]
        /\ subs \in Seq(Events) /\ inFlight \in [Events -> Nat]
        /\ holders \in [Events -> SUBSET (GraphThreads \cup {Facade})]
        /\ stage \in [Events -> Stages] /\ accepting \in [Events -> BOOLEAN]
    BY DEF EventInv, EventsTyped, ThreadsTyped, FlagsTyped
  <1> USE <1>0 DEF CallbackExit, GraphGoto, eventVars
  <1>h. queue[t] # <<>> => Head(queue[t]) \in Events /\ Tail(queue[t]) \in Seq(Events)
    BY HeadAndTail
  <1>e. queue[t] # <<>> /\ Head(queue[t]) \in Events /\ t \in Inside(Head(queue[t]))
    BY <1>h DEF Queued, Inside, InCallback
  <1>1. Queued'
    BY DEF Queued, Plain, InCallback, Destroying
  <1>2. Counted'
    <2>0. PICK e \in Events : e = Head(queue[t])
      BY <1>e
    <2>1. e \in Events /\ t \in Inside(e) /\ t \notin Inside(e)'
      BY <1>e, <2>0 DEF Inside, InCallback, Destroying
    <2>4. \A u \in GraphThreads : u # t => graphPc'[u] = graphPc[u] /\ queue'[u] = queue[u]
      OBVIOUS
    <2>5. Inside(e)' = Inside(e) \ {t}
      BY <2>1, <2>4 DEF Inside
    <2>2. \A d \in Events : d # e => Inside(d)' = Inside(d)
      BY <1>e, <2>0 DEF Inside, InCallback, Destroying
    <2>3. QED
      BY <2>0, <2>1, <2>2, <2>5, CountMoves
  <1>3. Staged'
    BY DEF Staged, Closing, Destroying, InCallback
  <1>4. OneEach'
    BY DEF OneEach, Staged, Closing, Destroying, InCallback
  <1>5. Owned'
    BY DEF Owned, Staged, Closing, Destroying, InCallback
  <1>6. Admitting'
    <2>1. inFlight[Head(queue[t])] > 0
      BY <1>e, InsideCounts
    <2>2. QED
      BY <1>e, <2>1 DEF Admitting, Staged, Closing, Destroying, InCallback
  <1>7. QED
    BY <1>1, <1>2, <1>3, <1>4, <1>5, <1>6 DEF EventInv

\* initialize() reads the cursor.
LEMMA EventCreateKeeps ==
  ASSUME EventsTyped, ThreadsTyped, FlagsTyped, EventInv, NEW t \in GraphThreads, NEW v \in Events, EventCreate(t, v)
  PROVE  EventInv'
  <1>0. /\ Queued /\ Counted /\ Staged /\ OneEach /\ Owned /\ Admitting
        /\ graphPc \in [GraphThreads -> Labels]
        /\ graphArg \in [GraphThreads -> Events \cup {NoEvent}]
        /\ queue \in [GraphThreads -> Seq(Events)]
        /\ subs \in Seq(Events) /\ inFlight \in [Events -> Nat]
        /\ holders \in [Events -> SUBSET (GraphThreads \cup {Facade})]
        /\ stage \in [Events -> Stages] /\ accepting \in [Events -> BOOLEAN]
    BY DEF EventInv, EventsTyped, ThreadsTyped, FlagsTyped
  <1> USE <1>0 DEF EventCreate, Starts, GraphGoto, subVars
  <1>1. Queued'
    BY DEF Queued, Plain, InCallback, Destroying
  <1>2. Counted'
    <2>1. \A d \in Events : Inside(d)' = Inside(d)
      BY DEF Inside, Queued, Plain, InCallback, Destroying
    <2>2. QED
      BY <2>1, CountKept
  <1>3. Staged'
    BY DEF Staged, Closing, Destroying, InCallback
  <1>4. OneEach'
    BY DEF OneEach, Staged, Closing, Destroying, InCallback
  <1>5. Owned'
    BY DEF Owned, Staged, Closing, Destroying, InCallback
  <1>6. Admitting'
    BY DEF Admitting, Staged, Closing, Destroying, InCallback
  <1>7. QED
    BY <1>1, <1>2, <1>3, <1>4, <1>5, <1>6 DEF EventInv

\* initialize() subscribes.
LEMMA SubscribeKeeps ==
  ASSUME EventsTyped, ThreadsTyped, FlagsTyped, EventInv, NEW t \in GraphThreads, Subscribe(t)
  PROVE  EventInv'
  <1>0. /\ Queued /\ Counted /\ Staged /\ OneEach /\ Owned /\ Admitting
        /\ graphPc \in [GraphThreads -> Labels]
        /\ graphArg \in [GraphThreads -> Events \cup {NoEvent}]
        /\ queue \in [GraphThreads -> Seq(Events)]
        /\ subs \in Seq(Events) /\ inFlight \in [Events -> Nat]
        /\ holders \in [Events -> SUBSET (GraphThreads \cup {Facade})]
        /\ stage \in [Events -> Stages] /\ accepting \in [Events -> BOOLEAN]
    BY DEF EventInv, EventsTyped, ThreadsTyped, FlagsTyped
  <1> USE <1>0 DEF Subscribe, GraphGoto
  <1>a. graphArg[t] \in Events /\ stage[graphArg[t]] = "initializing" /\ ToSet(subs') = ToSet(subs) \cup {graphArg[t]}
    BY AppendKeeps DEF Staged
  <1>1. Queued'
    BY DEF Queued, Plain, InCallback, Destroying
  <1>2. Counted'
    <2>1. \A e \in Events : Inside(e)' = Inside(e)
      BY DEF Inside, Queued, Plain, InCallback, Destroying
    <2>2. QED
      BY <2>1, CountKept
  <1>3. Staged'
    BY <1>a DEF Staged, OneEach, Closing, Destroying
  <1>4. OneEach'
    BY DEF OneEach, Staged, Closing, Destroying, InCallback
  <1>5. Owned'
    BY <1>a DEF Owned, Staged, Closing, Destroying
  <1>6. Admitting'
    BY <1>a DEF Admitting, Staged, Closing, Destroying
  <1>7. QED
    BY <1>1, <1>2, <1>3, <1>4, <1>5, <1>6 DEF EventInv

\* take() begins.
LEMMA TakeCheckKeeps ==
  ASSUME EventsTyped, ThreadsTyped, FlagsTyped, EventInv, NEW t \in GraphThreads, NEW v \in Events, TakeCheck(t, v)
  PROVE  EventInv'
  <1>0. /\ Queued /\ Counted /\ Staged /\ OneEach /\ Owned /\ Admitting
        /\ graphPc \in [GraphThreads -> Labels]
        /\ graphArg \in [GraphThreads -> Events \cup {NoEvent}]
        /\ queue \in [GraphThreads -> Seq(Events)]
        /\ subs \in Seq(Events) /\ inFlight \in [Events -> Nat]
        /\ holders \in [Events -> SUBSET (GraphThreads \cup {Facade})]
        /\ stage \in [Events -> Stages] /\ accepting \in [Events -> BOOLEAN]
    BY DEF EventInv, EventsTyped, ThreadsTyped, FlagsTyped
  <1> USE <1>0 DEF TakeCheck, Starts, GraphGoto, subVars, eventVars
  <1>1. Queued'
    BY DEF Queued, Plain, InCallback, Destroying
  <1>2. Counted'
    <2>1. \A e \in Events : Inside(e)' = Inside(e)
      BY DEF Inside, Queued, Plain, InCallback, Destroying
    <2>2. QED
      BY <2>1, CountKept
  <1>3. Staged'
    BY DEF Staged, Closing, Destroying, InCallback
  <1>4. OneEach'
    BY DEF OneEach, Staged, Closing, Destroying, InCallback
  <1>5. Owned'
    BY DEF Owned, Staged, Closing, Destroying, InCallback
  <1>6. Admitting'
    BY DEF Admitting, Staged, Closing, Destroying, InCallback
  <1>7. QED
    BY <1>1, <1>2, <1>3, <1>4, <1>5, <1>6 DEF EventInv

\* take() moves the cursor.
LEMMA TakeCommitKeeps ==
  ASSUME EventsTyped, ThreadsTyped, FlagsTyped, EventInv, NEW t \in GraphThreads, TakeCommit(t)
  PROVE  EventInv'
  <1>0. /\ Queued /\ Counted /\ Staged /\ OneEach /\ Owned /\ Admitting
        /\ graphPc \in [GraphThreads -> Labels]
        /\ graphArg \in [GraphThreads -> Events \cup {NoEvent}]
        /\ queue \in [GraphThreads -> Seq(Events)]
        /\ subs \in Seq(Events) /\ inFlight \in [Events -> Nat]
        /\ holders \in [Events -> SUBSET (GraphThreads \cup {Facade})]
        /\ stage \in [Events -> Stages] /\ accepting \in [Events -> BOOLEAN]
    BY DEF EventInv, EventsTyped, ThreadsTyped, FlagsTyped
  <1> USE <1>0 DEF TakeCommit, GraphGoto, subVars
  <1>1. Queued'
    BY DEF Queued, Plain, InCallback, Destroying
  <1>2. Counted'
    <2>1. \A e \in Events : Inside(e)' = Inside(e)
      BY DEF Inside, Queued, Plain, InCallback, Destroying
    <2>2. QED
      BY <2>1, CountKept
  <1>3. Staged'
    BY DEF Staged, Closing, Destroying, InCallback
  <1>4. OneEach'
    BY DEF OneEach, Staged, Closing, Destroying, InCallback
  <1>5. Owned'
    BY DEF Owned, Staged, Closing, Destroying, InCallback
  <1>6. Admitting'
    BY DEF Admitting, Staged, Closing, Destroying, InCallback
  <1>7. QED
    BY <1>1, <1>2, <1>3, <1>4, <1>5, <1>6 DEF EventInv

\* The facade is destroyed.
LEMMA EventDestroyKeeps ==
  ASSUME EventsTyped, ThreadsTyped, FlagsTyped, EventInv, NEW t \in GraphThreads, NEW v \in Events, EventDestroy(t, v)
  PROVE  EventInv'
  <1>0. /\ Queued /\ Counted /\ Staged /\ OneEach /\ Owned /\ Admitting
        /\ graphPc \in [GraphThreads -> Labels]
        /\ graphArg \in [GraphThreads -> Events \cup {NoEvent}]
        /\ queue \in [GraphThreads -> Seq(Events)]
        /\ subs \in Seq(Events) /\ inFlight \in [Events -> Nat]
        /\ holders \in [Events -> SUBSET (GraphThreads \cup {Facade})]
        /\ stage \in [Events -> Stages] /\ accepting \in [Events -> BOOLEAN]
    BY DEF EventInv, EventsTyped, ThreadsTyped, FlagsTyped
  <1> USE <1>0 DEF EventDestroy, Starts, GraphGoto, subVars
  <1>1. Queued'
    BY DEF Queued, Plain, InCallback, Destroying
  <1>2. Counted'
    <2>1. \A e \in Events : Inside(e)' = Inside(e)
      BY DEF Inside, Queued, Plain, InCallback, Destroying
    <2>2. QED
      BY <2>1, CountKept
  <1>3. Staged'
    BY DEF Staged, Closing, Destroying, InCallback
  <1>4. OneEach'
    BY DEF OneEach, Staged, Closing, Destroying, InCallback
  <1>5. Owned'
    BY DEF Owned, Staged, Closing, Destroying, InCallback
  <1>6. Admitting'
    BY DEF Admitting, Staged, Closing, Destroying, InCallback
  <1>7. QED
    BY <1>1, <1>2, <1>3, <1>4, <1>5, <1>6 DEF EventInv

\* The facade drops its reference; the last one runs the destructor.
LEMMA EventReleaseKeeps ==
  ASSUME EventsTyped, ThreadsTyped, FlagsTyped, EventInv, NEW t \in GraphThreads, EventRelease(t)
  PROVE  EventInv'
  <1>0. /\ Queued /\ Counted /\ Staged /\ OneEach /\ Owned /\ Admitting
        /\ graphPc \in [GraphThreads -> Labels]
        /\ graphArg \in [GraphThreads -> Events \cup {NoEvent}]
        /\ queue \in [GraphThreads -> Seq(Events)]
        /\ subs \in Seq(Events) /\ inFlight \in [Events -> Nat]
        /\ holders \in [Events -> SUBSET (GraphThreads \cup {Facade})]
        /\ stage \in [Events -> Stages] /\ accepting \in [Events -> BOOLEAN]
    BY DEF EventInv, EventsTyped, ThreadsTyped, FlagsTyped
  <1> USE <1>0 DEF EventRelease, GraphRelease, GraphGoto, subVars
  <1>a. graphArg[t] \in Events /\ stage[graphArg[t]] = "closing" /\ Facade \in holders[graphArg[t]]
    BY DEF Staged, Owned, Closing
  <1>1. Queued'
    BY DEF Queued, Plain, InCallback, Destroying
  <1>2. Counted'
    <2>1. \A e \in Events : Inside(e)' = Inside(e)
      BY DEF Inside, Queued, Plain, InCallback, Destroying
    <2>2. QED
      BY <2>1, CountKept
  <1>3. Staged'
    BY DEF Staged, Closing, Destroying, InCallback
  <1>4. OneEach'
    BY DEF OneEach, Staged, Closing, Destroying, InCallback
  <1>5. Owned'
    BY <1>a, GraphAssumption DEF Owned, OneEach, Staged, Closing, Destroying
  <1>6. Admitting'
    BY DEF Admitting, Staged, Closing, Destroying, InCallback
  <1>7. QED
    BY <1>1, <1>2, <1>3, <1>4, <1>5, <1>6 DEF EventInv

\* The subscriber is erased from the list.
LEMMA UnsubscribeKeeps ==
  ASSUME EventsTyped, ThreadsTyped, FlagsTyped, EventInv, NEW t \in GraphThreads, Unsubscribe(t)
  PROVE  EventInv'
  <1>0. /\ Queued /\ Counted /\ Staged /\ OneEach /\ Owned /\ Admitting
        /\ graphPc \in [GraphThreads -> Labels]
        /\ graphArg \in [GraphThreads -> Events \cup {NoEvent}]
        /\ queue \in [GraphThreads -> Seq(Events)]
        /\ subs \in Seq(Events) /\ inFlight \in [Events -> Nat]
        /\ holders \in [Events -> SUBSET (GraphThreads \cup {Facade})]
        /\ stage \in [Events -> Stages] /\ accepting \in [Events -> BOOLEAN]
    BY DEF EventInv, EventsTyped, ThreadsTyped, FlagsTyped
  <1> USE <1>0 DEF Unsubscribe, GraphGoto, eventVars
  <1>a. graphArg[t] \in Events /\ stage[graphArg[t]] = "closing"
    BY DEF Staged, Closing, Destroying
  <1>b. \A e \in ToSet(subs) : e = graphArg[t] \/ e \in ToSet(subs')
    BY RemoveAtKeeps
  <1>1. Queued'
    BY DEF Queued, Plain, InCallback, Destroying
  <1>2. Counted'
    <2>1. \A e \in Events : Inside(e)' = Inside(e)
      BY DEF Inside, Queued, Plain, InCallback, Destroying
    <2>2. QED
      BY <2>1, CountKept
  <1>3. Staged'
    BY DEF Staged, Closing, Destroying, InCallback
  <1>4. OneEach'
    BY DEF OneEach, Staged, Closing, Destroying, InCallback
  <1>5. Owned'
    BY DEF Owned, Staged, Closing, Destroying, InCallback
  <1>6. Admitting'
    BY <1>a, <1>b DEF Admitting, Staged, Closing, Destroying
  <1>7. QED
    BY <1>1, <1>2, <1>3, <1>4, <1>5, <1>6 DEF EventInv

\* The subscriber stops accepting.
LEMMA StopAcceptingKeeps ==
  ASSUME EventsTyped, ThreadsTyped, FlagsTyped, EventInv, NEW t \in GraphThreads, StopAccepting(t)
  PROVE  EventInv'
  <1>0. /\ Queued /\ Counted /\ Staged /\ OneEach /\ Owned /\ Admitting
        /\ graphPc \in [GraphThreads -> Labels]
        /\ graphArg \in [GraphThreads -> Events \cup {NoEvent}]
        /\ queue \in [GraphThreads -> Seq(Events)]
        /\ subs \in Seq(Events) /\ inFlight \in [Events -> Nat]
        /\ holders \in [Events -> SUBSET (GraphThreads \cup {Facade})]
        /\ stage \in [Events -> Stages] /\ accepting \in [Events -> BOOLEAN]
    BY DEF EventInv, EventsTyped, ThreadsTyped, FlagsTyped
  <1> USE <1>0 DEF StopAccepting, GraphGoto, eventVars
  <1>a. graphArg[t] \in Events /\ stage[graphArg[t]] = "closing"
    BY DEF Staged, Closing, Destroying
  <1>1. Queued'
    BY DEF Queued, Plain, InCallback, Destroying
  <1>2. Counted'
    <2>1. \A e \in Events : Inside(e)' = Inside(e)
      BY DEF Inside, Queued, Plain, InCallback, Destroying
    <2>2. QED
      BY <2>1, CountKept
  <1>3. Staged'
    BY DEF Staged, Closing, Destroying, InCallback
  <1>4. OneEach'
    BY DEF OneEach, Staged, Closing, Destroying, InCallback
  <1>5. Owned'
    BY DEF Owned, Staged, Closing, Destroying, InCallback
  <1>6. Admitting'
    BY <1>a DEF Admitting, Staged, Closing, Destroying
  <1>7. QED
    BY <1>1, <1>2, <1>3, <1>4, <1>5, <1>6 DEF EventInv

\* The callbacks inside are gone, so the thread is in none itself.
LEMMA DrainKeeps ==
  ASSUME EventsTyped, ThreadsTyped, FlagsTyped, EventInv, NEW t \in GraphThreads, Drain(t)
  PROVE  EventInv'
  <1>0. /\ Queued /\ Counted /\ Staged /\ OneEach /\ Owned /\ Admitting
        /\ graphPc \in [GraphThreads -> Labels]
        /\ graphArg \in [GraphThreads -> Events \cup {NoEvent}]
        /\ queue \in [GraphThreads -> Seq(Events)]
        /\ subs \in Seq(Events) /\ inFlight \in [Events -> Nat]
        /\ holders \in [Events -> SUBSET (GraphThreads \cup {Facade})]
        /\ stage \in [Events -> Stages] /\ accepting \in [Events -> BOOLEAN]
    BY DEF EventInv, EventsTyped, ThreadsTyped, FlagsTyped
  <1> USE <1>0 DEF Drain, GraphGoto, subVars
  <1>a. graphArg[t] \in Events /\ stage[graphArg[t]] = "closing" /\ holders[graphArg[t]] = {} /\ ~accepting[graphArg[t]]
    BY DEF Staged, Owned, Admitting, Closing, Destroying
  <1>b. queue[t] = <<>>
    <2>1. queue[t] # <<>> => t \in Inside(graphArg[t])
      BY DEF Queued, Inside, Destroying
    <2>2. QED
      BY <1>a, <2>1, InsideCounts
  <1>1. Queued'
    BY <1>b DEF Queued, Plain, InCallback, Destroying
  <1>2. Counted'
    <2>1. \A e \in Events : Inside(e)' = Inside(e)
      BY <1>b DEF Inside, InCallback, Destroying
    <2>2. QED
      BY <2>1, CountKept
  <1>3. Staged'
    BY <1>a DEF Staged, OneEach, Closing, Destroying
  <1>4. OneEach'
    BY DEF OneEach, Staged, Closing, Destroying, InCallback
  <1>5. Owned'
    BY <1>a DEF Owned, OneEach, Staged, Closing, Destroying
  <1>6. Admitting'
    BY <1>a DEF Admitting, OneEach, Staged, Closing, Destroying
  <1>7. QED
    BY <1>1, <1>2, <1>3, <1>4, <1>5, <1>6 DEF EventInv

-----------------------------------------------------------------------------
(* Records of participants, nodes and endpoints.                           *)

Users(n) == {l \in LocalEndpoints : assoc[l] = n}
RecordsInv == RecordsTyped /\ AssociationVisible

LEMMA UsersFinite == \A n : IsFiniteSet(Users(n)) /\ Cardinality(Users(n)) \in Nat
  <1>1. ASSUME NEW n PROVE IsFiniteSet(Users(n)) /\ Cardinality(Users(n)) \in Nat
    <2>1. Users(n) \subseteq LocalEndpoints
      BY DEF Users
    <2>2. IsFiniteSet(Users(n))
      BY <2>1, GraphAssumption, FS_Subset
    <2>3. QED
      BY <2>2, FS_CardinalityType
  <1>2. QED
    BY <1>1

Balanced(n) == references[n] = Cardinality(Users(n)) + (IF n \in facades THEN 1 ELSE 0) + lost[n]

LEMMA VisibleIsBalanced == AssociationVisible <=> (health = "Healthy" => \A n \in Nodes : Balanced(n))
  BY DEF AssociationVisible, Balanced, Users

\* A change of the remote side, or none at all, leaves the nodes alone.
LEMMA RemoteKeeps ==
  ASSUME AssociationVisible, UNCHANGED <<references, facades, assoc, lost>>,
         health' = health \/ health' = "Unavailable"
  PROVE  AssociationVisible'
  BY DEF AssociationVisible

\* What mutate() does to the health and the revision.
LEMMA MutationTyped ==
  ASSUME RecordsTyped, NEW t \in GraphThreads, Changed(t)
  PROVE  /\ health' \in Healths /\ revision' \in 0..MaxRevision
         /\ health' = health \/ health' = "Unavailable"
  BY GraphAssumption DEF RecordsTyped, Changed, Healths

LEMMA ApplyKeepsRecords ==
  ASSUME RecordsInv, UNCHANGED <<facades, lost>>, NEW t \in GraphThreads,
         \/ \E p \in Participants, c \in Changes : ApplyParticipant(t, p, c)
         \/ \E g \in Endpoints, c \in Changes : ApplyEndpoint(t, g, c)
         \/ \E p \in Participants, nodes \in Snapshots : ApplyRemoteNodes(t, p, nodes)
         \/ Throws(t)
  PROVE  RecordsInv'
  <1>0. RecordsTyped /\ AssociationVisible
    BY DEF RecordsInv
  <1>1. CASE Unchanged(t)
    <2>1. RecordsTyped'
      BY <1>0, <1>1 DEF Unchanged, RecordsTyped, records
    <2>2. AssociationVisible'
      BY <1>0, <1>1, RemoteKeeps DEF Unchanged, records
    <2>3. QED
      BY <2>1, <2>2 DEF RecordsInv
  <1>2. CASE Invalid(t)
    <2>1. RecordsTyped'
      BY <1>0, <1>2 DEF Invalid, RecordsTyped, records, Healths
    <2>2. AssociationVisible'
      BY <1>0, <1>2, RemoteKeeps DEF Invalid, records
    <2>3. QED
      BY <2>1, <2>2 DEF RecordsInv
  <1>3. ASSUME NEW p \in Participants, NEW c \in Changes, Changed(t),
               part' = [part EXCEPT ![p] = c], UNCHANGED <<endp, remote, references, assoc>>
        PROVE  RecordsInv'
    <2>1. RecordsTyped'
      BY <1>0, <1>3, MutationTyped DEF RecordsTyped
    <2>2. QED
      BY <1>0, <1>3, <2>1, MutationTyped, RemoteKeeps DEF RecordsInv
  <1>4. ASSUME NEW g \in Endpoints, NEW c \in Changes, Changed(t),
               part' = [part EXCEPT ![Home[g]] = IF @ = "none" THEN "Added" ELSE @],
               endp' = [endp EXCEPT ![g] = c], UNCHANGED <<remote, references, assoc>>
        PROVE  RecordsInv'
    <2>1. RecordsTyped'
      BY <1>0, <1>4, MutationTyped DEF RecordsTyped, Changes
    <2>2. QED
      BY <1>0, <1>4, <2>1, MutationTyped, RemoteKeeps DEF RecordsInv
  <1>5. ASSUME NEW p \in Participants, NEW nodes \in Snapshots, Changed(t),
               remote' = [remote EXCEPT ![p] = nodes], UNCHANGED <<part, endp, references, assoc>>
        PROVE  RecordsInv'
    <2>1. RecordsTyped'
      BY <1>0, <1>5, MutationTyped DEF RecordsTyped
    <2>2. QED
      BY <1>0, <1>5, <2>1, MutationTyped, RemoteKeeps DEF RecordsInv
  <1>6. QED
    BY <1>1, <1>2, <1>3, <1>4, <1>5 DEF ApplyParticipant, ApplyEndpoint, ApplyRemoteNodes, Throws

LEMMA NodesKeepRecords ==
  ASSUME RecordsInv, NEW t \in GraphThreads, NEW n \in Nodes,
         AddLocalNode(t, n) \/ ReleaseLocalNode(t, n)
  PROVE  RecordsInv'
  <1>0. RecordsTyped /\ AssociationVisible /\ references \in [Nodes -> Nat] /\ facades \subseteq Nodes
        /\ lost \in [Nodes -> Nat] /\ UNCHANGED lost
    BY DEF AddLocalNode, ReleaseLocalNode, RecordsInv, RecordsTyped
  <1>u. \A m \in Nodes : Cardinality(Users(m)) \in Nat
    BY UsersFinite
  <1>1. CASE AddLocalNode(t, n)
    <2>1. health = "Healthy" /\ Changed(t) /\ UNCHANGED <<part, endp, remote, assoc>>
      BY <1>1 DEF AddLocalNode, Admitted
    <2>2. references' = [references EXCEPT ![n] = 1] /\ facades' = facades \cup {n} /\ references[n] = 0 /\ n \notin facades
      BY <1>1 DEF AddLocalNode
    <2>3. RecordsTyped'
      BY <1>0, <2>1, <2>2, MutationTyped DEF RecordsTyped
    <2>4. \A m \in Nodes : Users(m)' = Users(m)
      BY <2>1 DEF Users
    <2>5. \A m \in Nodes : Balanced(m)
      BY <1>0, <2>1, VisibleIsBalanced
    <2>6. \A m \in Nodes : Balanced(m)'
      <3>1. references[n] = Cardinality(Users(n)) + lost[n] /\ lost'[n] = lost[n] /\ lost[n] \in Nat
        BY <1>0, <1>u, <2>2, <2>5 DEF Balanced
      <3>2. Cardinality(Users(n))' = 0 /\ lost'[n] = 0
        BY <1>u, <2>2, <2>4, <3>1
      <3>3. Balanced(n)'
        BY <1>0, <2>2, <3>2 DEF Balanced
      <3>4. ASSUME NEW m \in Nodes, m # n PROVE Balanced(m)'
        BY <1>0, <2>2, <2>4, <2>5, <3>4 DEF Balanced
      <3>5. QED
        BY <3>3, <3>4
    <2>7. AssociationVisible'
      BY <2>6, <2>4 DEF AssociationVisible, Balanced, Users
    <2>8. QED
      BY <2>3, <2>7 DEF RecordsInv
  <1>2. CASE ReleaseLocalNode(t, n) /\ health # "Healthy"
    <2>1. Unchanged(t) /\ facades' = facades \ {n}
      BY <1>2 DEF ReleaseLocalNode, Admitted
    <2>2. QED
      BY <1>0, <1>2, <2>1 DEF Unchanged, records, RecordsInv, RecordsTyped, AssociationVisible
  <1>3. CASE ReleaseLocalNode(t, n) /\ health = "Healthy"
    <2>1. UNCHANGED <<part, endp, remote, assoc>> /\ (Changed(t) \/ UNCHANGED <<health, revision>>)
      BY <1>3 DEF ReleaseLocalNode, Admitted
    <2>2. references' = [references EXCEPT ![n] = @ - 1] /\ facades' = facades \ {n} /\ n \in facades
      BY <1>3 DEF ReleaseLocalNode, Admitted
    <2>3. \A m \in Nodes : Balanced(m)
      BY <1>0, <1>3, VisibleIsBalanced
    <2>4. references[n] \in Nat \ {0}
      BY <1>0, <1>u, <2>2, <2>3 DEF Balanced
    <2>5. health' \in Healths /\ revision' \in 0..MaxRevision
      BY <1>0, <2>1, MutationTyped DEF RecordsTyped
    <2>6. references' \in [Nodes -> Nat] /\ facades' \subseteq Nodes
      BY <1>0, <2>2, <2>4
    <2>7. RecordsTyped'
      BY <1>0, <2>1, <2>5, <2>6 DEF RecordsTyped
    <2>8. \A m \in Nodes : Users(m)' = Users(m)
      BY <2>1 DEF Users
    <2>9. \A m \in Nodes : Balanced(m)'
      BY <1>0, <1>u, <2>2, <2>3, <2>8 DEF Balanced
    <2>10. QED
      BY <2>7, <2>9 DEF AssociationVisible, Balanced, Users, RecordsInv
  <1>4. QED
    BY <1>1, <1>2, <1>3

LEMMA EndpointsKeepRecords ==
  ASSUME RecordsInv, NEW t \in GraphThreads, NEW l \in LocalEndpoints,
         RemoveLocalEndpoint(t, l) \/ \E n \in Nodes : AddLocalEndpoint(t, l, n)
  PROVE  RecordsInv'
  <1>0. /\ RecordsTyped /\ AssociationVisible /\ references \in [Nodes -> Nat]
        /\ assoc \in [LocalEndpoints -> Nodes \cup {NoNode}] /\ UNCHANGED <<facades, lost>>
        /\ lost \in [Nodes -> Nat]
    BY DEF RecordsInv, RecordsTyped, RemoveLocalEndpoint, AddLocalEndpoint
  <1>u. \A m \in Nodes : Cardinality(Users(m)) \in Nat /\ IsFiniteSet(Users(m))
    BY UsersFinite
  <1>1. CASE health # "Healthy"
    <2>1. Unchanged(t)
      BY <1>1 DEF RemoveLocalEndpoint, AddLocalEndpoint, AddLocalEndpointThrows, Admitted
    <2>2. QED
      BY <1>0, <1>1, <2>1 DEF Unchanged, records, RecordsInv, RecordsTyped, AssociationVisible
  <1>2. ASSUME health = "Healthy", NEW n \in Nodes, AddLocalEndpoint(t, l, n) PROVE RecordsInv'
    <2>1. UNCHANGED <<part, endp, remote>> /\ Changed(t)
      BY <1>2 DEF AddLocalEndpoint, Admitted
    <2>2. references' = [references EXCEPT ![n] = @ + 1] /\ assoc' = [assoc EXCEPT ![l] = n] /\ assoc[l] = NoNode
      BY <1>2 DEF AddLocalEndpoint, Admitted, Referenced
    <2>3. RecordsTyped'
      BY <1>0, <2>1, <2>2, MutationTyped DEF RecordsTyped
    <2>4. l \notin Users(n) /\ Users(n)' = Users(n) \cup {l}
      BY <1>0, <2>2, GraphAssumption DEF Users
    <2>5. \A m \in Nodes : m # n => Users(m)' = Users(m)
      BY <1>0, <2>2, GraphAssumption DEF Users
    <2>6. Cardinality(Users(n) \cup {l}) = Cardinality(Users(n)) + 1
      BY <1>u, <2>4, FS_AddElement
    <2>7. \A m \in Nodes : Balanced(m)
      BY <1>0, <1>2, VisibleIsBalanced
    <2>8. \A m \in Nodes : Balanced(m)'
      <3>1. references'[n] = references[n] + 1 /\ Cardinality(Users(n))' = Cardinality(Users(n)) + 1
        BY <1>0, <2>2, <2>4, <2>6
      <3>2. references[n] \in Nat /\ Cardinality(Users(n)) \in Nat /\ lost[n] \in Nat /\ lost'[n] = lost[n]
            /\ facades' = facades
        BY <1>0, <1>u
      <3>3. Balanced(n)'
        BY <2>7, <3>1, <3>2 DEF Balanced
      <3>4. ASSUME NEW m \in Nodes, m # n PROVE Balanced(m)'
        BY <1>0, <2>2, <2>5, <2>7, <3>4 DEF Balanced
      <3>5. QED
        BY <3>3, <3>4
    <2>9. QED
      BY <2>3, <2>8 DEF AssociationVisible, Balanced, Users, RecordsInv
  <1>3. ASSUME health = "Healthy", RemoveLocalEndpoint(t, l) PROVE RecordsInv'
    <2>1. UNCHANGED <<part, endp, remote>> /\ Changed(t)
      BY <1>3 DEF RemoveLocalEndpoint, Admitted
    <2>2. PICK n \in Nodes : assoc[l] = n
      BY <1>0, <1>3 DEF RemoveLocalEndpoint
    <2>3. references' = [references EXCEPT ![n] = @ - 1] /\ assoc' = [assoc EXCEPT ![l] = NoNode]
      BY <1>3, <2>2 DEF RemoveLocalEndpoint, Admitted
    <2>4. l \in Users(n) /\ Users(n)' = Users(n) \ {l}
      BY <1>0, <2>2, <2>3, GraphAssumption DEF Users
    <2>5. \A m \in Nodes : m # n => Users(m)' = Users(m)
      BY <1>0, <2>2, <2>3, GraphAssumption DEF Users
    <2>6. Cardinality(Users(n) \ {l}) = Cardinality(Users(n)) - 1
      BY <1>u, <2>4, FS_RemoveElement
    <2>7. \A m \in Nodes : Balanced(m)
      BY <1>0, <1>3, VisibleIsBalanced
    <2>8. Cardinality(Users(n)) # 0
      BY <1>u, <2>4, FS_EmptySet
    <2>9. references[n] \in Nat \ {0}
      BY <1>0, <1>u, <2>2, <2>7, <2>8 DEF Balanced
    <2>10. references' \in [Nodes -> Nat] /\ assoc' \in [LocalEndpoints -> Nodes \cup {NoNode}]
      BY <1>0, <2>3, <2>9
    <2>11. RecordsTyped'
      BY <1>0, <2>1, <2>10, MutationTyped DEF RecordsTyped
    <2>12. \A m \in Nodes : Balanced(m)'
      <3>1. references'[n] = references[n] - 1 /\ Cardinality(Users(n))' = Cardinality(Users(n)) - 1
        BY <1>0, <2>3, <2>4, <2>6
      <3>2. references[n] \in Nat /\ Cardinality(Users(n)) \in Nat /\ lost[n] \in Nat /\ lost'[n] = lost[n]
            /\ facades' = facades
        BY <1>0, <1>u
      <3>3. Balanced(n)'
        BY <2>7, <3>1, <3>2 DEF Balanced
      <3>4. ASSUME NEW m \in Nodes, m # n PROVE Balanced(m)'
        BY <1>0, <2>3, <2>5, <2>7, <3>4 DEF Balanced
      <3>5. QED
        BY <3>3, <3>4
    <2>13. QED
      BY <2>11, <2>12 DEF AssociationVisible, Balanced, Users, RecordsInv
  <1>4. QED
    BY <1>1, <1>2, <1>3

\* A registration that throws leaves one reference behind.
LEMMA LossKeepsRecords ==
  ASSUME RecordsInv, NEW t \in GraphThreads, NEW n \in Nodes, AddLocalEndpointThrows(t, n)
  PROVE  RecordsInv'
  <1>0. /\ RecordsTyped /\ AssociationVisible /\ health = "Healthy"
        /\ references \in [Nodes -> Nat] /\ lost \in [Nodes -> Nat]
    BY DEF RecordsInv, RecordsTyped, AddLocalEndpointThrows, Admitted
  <1>1. /\ references' = [references EXCEPT ![n] = @ + 1] /\ lost' = [lost EXCEPT ![n] = @ + 1]
        /\ UNCHANGED <<health, revision, part, endp, remote, assoc, facades>>
    BY DEF AddLocalEndpointThrows, Referenced
  <1>2. RecordsTyped'
    BY <1>0, <1>1 DEF RecordsTyped
  <1>3. \A m \in Nodes : Balanced(m)
    BY <1>0, VisibleIsBalanced
  <1>4. \A m \in Nodes : Users(m)' = Users(m) /\ Cardinality(Users(m)) \in Nat
    BY <1>1, UsersFinite DEF Users
  <1>5. \A m \in Nodes : Balanced(m)'
    BY <1>0, <1>1, <1>3, <1>4 DEF Balanced
  <1>6. QED
    BY <1>2, <1>5 DEF AssociationVisible, Balanced, Users, RecordsInv

\* Every step keeps the records and their references.
LEMMA RecordsStep ==
  ASSUME RecordsInv, [GraphNext]_discoveryVars
  PROVE  RecordsInv'
  <1>0. RecordsTyped /\ AssociationVisible
    BY DEF RecordsInv
  <1>1. ASSUME UNCHANGED <<graphVars, facades, lost>> PROVE RecordsInv'
    <2>1. RecordsTyped'
      BY <1>0, <1>1 DEF RecordsTyped, graphVars, records
    <2>2. QED
      BY <1>0, <1>1, <2>1, RemoteKeeps DEF RecordsInv, graphVars, records
  <1>2. ASSUME NEW t \in GraphThreads, Discover(t) \/ Ingest(t) PROVE RecordsInv'
    BY <1>2, ApplyKeepsRecords DEF Discover, Ingest, localVars
  <1>3. ASSUME NEW t \in GraphThreads, SnapshotThrows(t) PROVE RecordsInv'
    <2>1. RecordsTyped'
      BY <1>0, <1>3 DEF SnapshotThrows, RecordsTyped, records, Healths
    <2>2. QED
      BY <1>0, <1>3, <2>1, RemoteKeeps DEF SnapshotThrows, RecordsInv, records
  <1>4. ASSUME NEW t \in GraphThreads, GraphStep(t), ~Discover(t), ~SnapshotThrows(t) PROVE RecordsInv'
    <2>1. UNCHANGED <<graphVars, facades, lost>>
      BY <1>4 DEF GraphStep, ListenerLeave, ListenerDrain, Snapshot, NextSubscriber, CallbackLock,
         CallbackWake, CallbackDrop, CallbackExit, Subscribe, TakeCommit, EventRelease, Unsubscribe,
         StopAccepting, Drain, localVars
    <2>2. QED
      BY <1>1, <2>1
  <1>5. ASSUME NEW t \in GraphThreads,
               \/ ListenerEnter(t) \/ ListenerClose(t)
               \/ \E e \in Events : EventCreate(t, e) \/ TakeCheck(t, e) \/ EventDestroy(t, e)
        PROVE  RecordsInv'
    <2>1. UNCHANGED <<graphVars, facades, lost>>
      BY <1>5 DEF ListenerEnter, ListenerClose, EventCreate, TakeCheck, EventDestroy, localVars
    <2>2. QED
      BY <1>1, <2>1
  <1>6. ASSUME UNCHANGED discoveryVars PROVE RecordsInv'
    BY <1>1, <1>6 DEF discoveryVars, localVars
  <1>7. QED
    BY <1>2, <1>3, <1>4, <1>5, <1>6, NodesKeepRecords, EndpointsKeepRecords,
       LossKeepsRecords DEF GraphNext, GraphCall

-----------------------------------------------------------------------------
(* Types.                                                                  *)

\* The actions outside notify() and the GraphEvents.
LEMMA PlainTyped ==
  ASSUME GraphTypeOK, NEW t \in GraphThreads, PlainAction(t)
  PROVE  EventsTyped' /\ ThreadsTyped' /\ HistoryTyped' /\ FlagsTyped'
  <1>0. EventsTyped /\ ThreadsTyped /\ HistoryTyped /\ FlagsTyped
    BY TypeParts
  <1>1. PlainStep(t)
    BY PlainSteps
  <1>2. EventsTyped'
    BY <1>0, <1>1 DEF PlainStep, EventsTyped, subVars, eventVars
  <1>3. inListener' \subseteq GraphThreads
    BY <1>0 DEF PlainAction, Discover, ListenerEnter, ListenerLeave, ListenerClose, ListenerDrain,
       SnapshotThrows, Ingest, AddLocalNode, ReleaseLocalNode, RemoveLocalEndpoint, AddLocalEndpoint, AddLocalEndpointThrows,
       Local, listenerVars, ThreadsTyped
  <1>4. ThreadsTyped'
    BY <1>0, <1>1, <1>3 DEF PlainStep, ThreadsTyped, GraphGoto, Plain, Labels
  <1>5. /\ UNCHANGED <<cursor, noticed>>
        /\ graphCalls' = graphCalls \/ (graphCalls[t] < MaxGraphCalls /\ graphCalls' = [graphCalls EXCEPT ![t] = @ + 1])
        /\ graphFaults' = graphFaults \/ (graphFaults < MaxGraphFaults /\ graphFaults' = graphFaults + 1)
    BY DEF PlainAction, Discover, ListenerEnter, ListenerLeave, ListenerClose, ListenerDrain,
       SnapshotThrows, Ingest, AddLocalNode, ReleaseLocalNode, RemoveLocalEndpoint, AddLocalEndpoint, AddLocalEndpointThrows,
       Local, Starts, Throws, eventVars
  <1>6. HistoryTyped'
    BY <1>0, <1>5, GraphAssumption DEF HistoryTyped
  <1>7. UNCHANGED accepting
    BY <1>1 DEF PlainStep, subVars
  <1>8. silent' = silent \/ silent' = TRUE
    BY DEF PlainAction, Discover, ListenerEnter, ListenerLeave, ListenerClose, ListenerDrain,
       SnapshotThrows, Ingest, AddLocalNode, ReleaseLocalNode, RemoveLocalEndpoint, AddLocalEndpoint, AddLocalEndpointThrows,
       Local, localVars
  <1>9. listener' \in {listener, "closing", "closed"}
    BY DEF PlainAction, Discover, ListenerEnter, ListenerLeave, ListenerClose, ListenerDrain,
       SnapshotThrows, Ingest, AddLocalNode, ReleaseLocalNode, RemoveLocalEndpoint, AddLocalEndpoint, AddLocalEndpointThrows,
       Local, listenerVars
  <1>10. FlagsTyped'
    BY <1>0, <1>7, <1>8, <1>9, Zenon DEF FlagsTyped
  <1>11. QED
    BY <1>2, <1>4, <1>6, <1>10

\* The actions of notify() and of the GraphEvents.
EventAction(t) ==
  \/ Snapshot(t) \/ NextSubscriber(t)
  \/ CallbackLock(t) \/ CallbackWake(t) \/ CallbackDrop(t) \/ CallbackExit(t)
  \/ Subscribe(t) \/ TakeCommit(t) \/ EventRelease(t)
  \/ Unsubscribe(t) \/ StopAccepting(t) \/ Drain(t)
  \/ \E e \in Events : EventCreate(t, e) \/ TakeCheck(t, e) \/ EventDestroy(t, e)

LEMMA NextIsPlainOrEvent == GraphNext => \E t \in GraphThreads : PlainAction(t) \/ EventAction(t)
  BY DEF GraphNext, GraphStep, GraphCall, PlainAction, EventAction

LEMMA EventKeeps ==
  ASSUME GraphTypeOK, EventInv, NEW t \in GraphThreads, PlainAction(t) \/ EventAction(t)
  PROVE  EventInv'
  <1>1. EventsTyped /\ ThreadsTyped /\ FlagsTyped
    BY TypeParts
  <1>2. QED
    BY <1>1, PlainSteps, PlainKeeps, SnapshotKeeps, NextSubscriberKeeps, CallbackLockKeeps,
       CallbackWakeKeeps, CallbackDropKeeps, CallbackExitKeeps, EventCreateKeeps, SubscribeKeeps,
       TakeCheckKeeps, TakeCommitKeeps, EventDestroyKeeps, EventReleaseKeeps, UnsubscribeKeeps,
       StopAcceptingKeeps, DrainKeeps DEF EventAction

\* A thread in notify() has a subscriber at hand; a GraphEvent operation its event.
LEMMA AtHand ==
  ASSUME ThreadsTyped, Queued, Staged, NEW t \in GraphThreads
  PROVE  /\ graphPc[t] \in InCallback => queue[t] # <<>>
         /\ queue[t] # <<>> => Head(queue[t]) \in Events /\ Tail(queue[t]) \in Seq(Events)
         /\ graphPc[t] \in Closing \cup {"subscribe", "take"} => graphArg[t] \in Events
  <1>1. queue[t] \in Seq(Events)
    BY DEF ThreadsTyped
  <1>2. QED
    BY <1>1, HeadAndTail DEF Queued, Staged

LEMMA EventTyped ==
  ASSUME GraphTypeOK, EventInv, NEW t \in GraphThreads, EventAction(t)
  PROVE  EventsTyped' /\ ThreadsTyped' /\ HistoryTyped' /\ FlagsTyped'
  <1> DEFINE Goal == EventsTyped' /\ ThreadsTyped' /\ HistoryTyped' /\ FlagsTyped'
  <1>0. /\ EventsTyped /\ ThreadsTyped /\ HistoryTyped /\ FlagsTyped
        /\ revision \in 0..MaxRevision /\ health \in Healths /\ Counted
        /\ Queued /\ Staged
    BY TypeParts DEF RecordsTyped, EventInv
  <1>a. /\ graphPc[t] \in InCallback => queue[t] # <<>>
        /\ queue[t] # <<>> => Head(queue[t]) \in Events /\ Tail(queue[t]) \in Seq(Events)
        /\ graphPc[t] \in Closing \cup {"subscribe", "take"} => graphArg[t] \in Events
    BY <1>0, AtHand
  <1> USE GraphAssumption DEF subVars, eventVars, localVars, listenerVars
  <1>1. ASSUME Snapshot(t) PROVE Goal
    <2> USE <1>0, <1>a, <1>1 DEF Snapshot, GraphGoto
    <2>1. EventsTyped'
      BY DEF EventsTyped, InCallback, Closing, Destroying, Stages
    <2>2. ThreadsTyped'
      BY DEF ThreadsTyped, Labels, InCallback, Closing, Destroying, EventsTyped
    <2>3. HistoryTyped'
      BY DEF HistoryTyped, Closing, Destroying, InCallback
    <2>4. FlagsTyped'
      BY DEF FlagsTyped, Closing, Destroying
    <2>5. QED
      BY <2>1, <2>2, <2>3, <2>4
  <1>2. ASSUME NextSubscriber(t) PROVE Goal
    <2> USE <1>0, <1>a, <1>2 DEF NextSubscriber, Done, GraphGoto
    <2>1. EventsTyped'
      BY DEF EventsTyped, InCallback, Closing, Destroying, Stages
    <2>2. ThreadsTyped'
      BY DEF ThreadsTyped, Labels, InCallback, Closing, Destroying
    <2>3. HistoryTyped'
      BY DEF HistoryTyped, Closing, Destroying, InCallback
    <2>4. FlagsTyped'
      BY DEF FlagsTyped, Closing, Destroying
    <2>5. QED
      BY <2>1, <2>2, <2>3, <2>4
  <1>3. ASSUME CallbackLock(t) PROVE Goal
    <2> USE <1>0, <1>a, <1>3 DEF CallbackLock, GraphGoto
    <2>1. EventsTyped'
      <3>1. UNCHANGED <<subs, inFlight, stage>>
        OBVIOUS
      <3>2. Head(queue[t]) \in Events /\ holders \in [Events -> SUBSET (GraphThreads \cup {Facade})]
        BY DEF EventsTyped, InCallback
      <3>3. holders' = holders \/ holders' = [holders EXCEPT ![Head(queue[t])] = @ \cup {t}]
        OBVIOUS
      <3>4. holders' \in [Events -> SUBSET (GraphThreads \cup {Facade})]
        BY <3>2, <3>3
      <3>5. QED
        BY <3>1, <3>4 DEF EventsTyped
    <2>2. ThreadsTyped'
      BY DEF ThreadsTyped, Labels, InCallback, Closing, Destroying
    <2>3. HistoryTyped'
      BY DEF HistoryTyped, Closing, Destroying, InCallback
    <2>4. FlagsTyped'
      BY DEF FlagsTyped, Closing, Destroying
    <2>5. QED
      BY <2>1, <2>2, <2>3, <2>4
  <1>4. ASSUME CallbackWake(t) PROVE Goal
    <2> USE <1>0, <1>a, <1>4 DEF CallbackWake, GraphGoto
    <2>1. EventsTyped'
      BY DEF EventsTyped, InCallback, Closing, Destroying, Stages
    <2>2. ThreadsTyped'
      BY DEF ThreadsTyped, Labels, InCallback, Closing, Destroying
    <2>3. HistoryTyped'
      BY DEF HistoryTyped, Closing, Destroying, InCallback
    <2>4. FlagsTyped'
      BY DEF FlagsTyped, Closing, Destroying
    <2>5. QED
      BY <2>1, <2>2, <2>3, <2>4
  <1>5. ASSUME CallbackDrop(t) PROVE Goal
    <2> USE <1>0, <1>a, <1>5 DEF CallbackDrop, GraphRelease, GraphGoto
    <2>1. EventsTyped'
      BY DEF EventsTyped, InCallback, Closing, Destroying, Stages
    <2>2. ThreadsTyped'
      BY DEF ThreadsTyped, Labels, InCallback, Closing, Destroying
    <2>3. HistoryTyped'
      BY DEF HistoryTyped, Closing, Destroying, InCallback
    <2>4. FlagsTyped'
      BY DEF FlagsTyped, Closing, Destroying
    <2>5. QED
      BY <2>1, <2>2, <2>3, <2>4
  <1>6. ASSUME CallbackExit(t) PROVE Goal
    <2> USE <1>0, <1>a, <1>6 DEF CallbackExit, GraphGoto
    <2>1. EventsTyped'
      <3>1. t \in Inside(Head(queue[t]))
        BY DEF Inside, InCallback
      <3>2. inFlight[Head(queue[t])] > 0
        BY <3>1, InsideCounts DEF InCallback
      <3>3. QED
        BY <3>2 DEF EventsTyped, InCallback, Closing, Destroying, Stages
    <2>2. ThreadsTyped'
      BY DEF ThreadsTyped, Labels, InCallback, Closing, Destroying
    <2>3. HistoryTyped'
      BY DEF HistoryTyped, Closing, Destroying, InCallback
    <2>4. FlagsTyped'
      BY DEF FlagsTyped, Closing, Destroying
    <2>5. QED
      BY <2>1, <2>2, <2>3, <2>4
  <1>7. ASSUME Subscribe(t) PROVE Goal
    <2> USE <1>0, <1>a, <1>7 DEF Subscribe, GraphGoto
    <2>1. EventsTyped'
      BY AppendKeeps DEF EventsTyped, InCallback, Closing, Destroying, Stages
    <2>2. ThreadsTyped'
      BY DEF ThreadsTyped, Labels, InCallback, Closing, Destroying
    <2>3. HistoryTyped'
      BY DEF HistoryTyped, Closing, Destroying, InCallback
    <2>4. FlagsTyped'
      BY DEF FlagsTyped, Closing, Destroying
    <2>5. QED
      BY <2>1, <2>2, <2>3, <2>4
  <1>8. ASSUME TakeCommit(t) PROVE Goal
    <2> USE <1>0, <1>a, <1>8 DEF TakeCommit, GraphGoto
    <2>1. EventsTyped'
      BY DEF EventsTyped, InCallback, Closing, Destroying, Stages
    <2>2. ThreadsTyped'
      BY DEF ThreadsTyped, Labels, InCallback, Closing, Destroying
    <2>3. HistoryTyped'
      BY DEF HistoryTyped, Closing, Destroying, InCallback
    <2>4. FlagsTyped'
      BY DEF FlagsTyped, Closing, Destroying
    <2>5. QED
      BY <2>1, <2>2, <2>3, <2>4
  <1>9. ASSUME EventRelease(t) PROVE Goal
    <2> USE <1>0, <1>a, <1>9 DEF EventRelease, GraphRelease, GraphGoto
    <2>1. EventsTyped'
      BY DEF EventsTyped, InCallback, Closing, Destroying, Stages
    <2>2. ThreadsTyped'
      BY DEF ThreadsTyped, Labels, InCallback, Closing, Destroying
    <2>3. HistoryTyped'
      BY DEF HistoryTyped, Closing, Destroying, InCallback
    <2>4. FlagsTyped'
      BY DEF FlagsTyped, Closing, Destroying
    <2>5. QED
      BY <2>1, <2>2, <2>3, <2>4
  <1>10. ASSUME Unsubscribe(t) PROVE Goal
    <2> USE <1>0, <1>a, <1>10 DEF Unsubscribe, GraphGoto
    <2>1. EventsTyped'
      BY RemoveAtKeeps DEF EventsTyped, InCallback, Closing, Destroying, Stages
    <2>2. ThreadsTyped'
      BY DEF ThreadsTyped, Labels, InCallback, Closing, Destroying
    <2>3. HistoryTyped'
      BY DEF HistoryTyped, Closing, Destroying, InCallback
    <2>4. FlagsTyped'
      BY DEF FlagsTyped, Closing, Destroying
    <2>5. QED
      BY <2>1, <2>2, <2>3, <2>4
  <1>11. ASSUME StopAccepting(t) PROVE Goal
    <2> USE <1>0, <1>a, <1>11 DEF StopAccepting, GraphGoto
    <2>1. EventsTyped'
      BY DEF EventsTyped, InCallback, Closing, Destroying, Stages
    <2>2. ThreadsTyped'
      BY DEF ThreadsTyped, Labels, InCallback, Closing, Destroying
    <2>3. HistoryTyped'
      BY DEF HistoryTyped, Closing, Destroying, InCallback
    <2>4. FlagsTyped'
      BY DEF FlagsTyped, Closing, Destroying
    <2>5. QED
      BY <2>1, <2>2, <2>3, <2>4
  <1>12. ASSUME Drain(t) PROVE Goal
    <2> USE <1>0, <1>a, <1>12 DEF Drain, GraphGoto
    <2>1. EventsTyped'
      BY DEF EventsTyped, InCallback, Closing, Destroying, Stages
    <2>2. ThreadsTyped'
      BY DEF ThreadsTyped, Labels, InCallback, Closing, Destroying
    <2>3. HistoryTyped'
      BY DEF HistoryTyped, Closing, Destroying, InCallback
    <2>4. FlagsTyped'
      BY DEF FlagsTyped, Closing, Destroying
    <2>5. QED
      BY <2>1, <2>2, <2>3, <2>4
  <1>13. ASSUME NEW e \in Events, EventCreate(t, e) PROVE Goal
    <2> USE <1>0, <1>a, <1>13 DEF EventCreate, Starts, GraphGoto
    <2>1. EventsTyped'
      BY DEF EventsTyped, InCallback, Closing, Destroying, Stages
    <2>2. ThreadsTyped'
      BY DEF ThreadsTyped, Labels, InCallback, Closing, Destroying
    <2>3. HistoryTyped'
      <3>1. cursor' \in [Events -> 0..MaxRevision]
        BY DEF HistoryTyped
      <3>2. noticed' = noticed /\ graphFaults' = graphFaults
        OBVIOUS
      <3>3. graphCalls' \in [GraphThreads -> 0..MaxGraphCalls]
        BY DEF HistoryTyped
      <3>4. QED
        BY <3>1, <3>2, <3>3 DEF HistoryTyped
    <2>4. FlagsTyped'
      BY DEF FlagsTyped, Closing, Destroying
    <2>5. QED
      BY <2>1, <2>2, <2>3, <2>4
  <1>14. ASSUME NEW e \in Events, TakeCheck(t, e) PROVE Goal
    <2> USE <1>0, <1>a, <1>14 DEF TakeCheck, Starts, GraphGoto
    <2>1. EventsTyped'
      BY DEF EventsTyped, InCallback, Closing, Destroying, Stages
    <2>2. ThreadsTyped'
      BY DEF ThreadsTyped, Labels, InCallback, Closing, Destroying
    <2>3. HistoryTyped'
      BY DEF HistoryTyped, Closing, Destroying, InCallback
    <2>4. FlagsTyped'
      BY DEF FlagsTyped, Closing, Destroying
    <2>5. QED
      BY <2>1, <2>2, <2>3, <2>4
  <1>15. ASSUME NEW e \in Events, EventDestroy(t, e) PROVE Goal
    <2> USE <1>0, <1>a, <1>15 DEF EventDestroy, Starts, GraphGoto
    <2>1. EventsTyped'
      BY DEF EventsTyped, InCallback, Closing, Destroying, Stages
    <2>2. ThreadsTyped'
      BY DEF ThreadsTyped, Labels, InCallback, Closing, Destroying
    <2>3. HistoryTyped'
      BY DEF HistoryTyped, Closing, Destroying, InCallback
    <2>4. FlagsTyped'
      BY DEF FlagsTyped, Closing, Destroying
    <2>5. QED
      BY <2>1, <2>2, <2>3, <2>4
  <1>16. QED
    BY <1>1, <1>2, <1>3, <1>4, <1>5, <1>6, <1>7, <1>8, <1>9, <1>10, <1>11, <1>12, <1>13, <1>14, <1>15 DEF EventAction

-----------------------------------------------------------------------------
(* No wake is lost.                                                        *)

\* Thread t is going to call the callback of e.
Will(t, e) ==
  \/ graphPc[t] = "snapshot"
  \/ graphPc[t] \in {"next", "lock", "wake"} /\ e \in ToSet(queue[t])
  \/ /\ graphPc[t] \in {"drop", "exit", "unsubscribe", "stop", "drain"}
     /\ queue[t] # <<>> /\ e \in ToSet(Tail(queue[t]))

\* The last wake of e covers what the graph is now.
Informed(e) ==
  /\ cursor[e] < revision => noticed[e].revision = revision
  /\ noticed[e].health = health

\* What the step of a thread owes an open event: that the thread has informed it,
\* that it will, or that it changed nothing.
Served(t, e) ==
  \/ Informed(e)' \/ Will(t, e)'
  \/ stage[e] = "open" /\ ~silent /\ ~Will(t, e) /\ (Informed(e) => Informed(e)')

LEMMA ServedKeeps ==
  ASSUME ChangeWakes, NEW t \in GraphThreads,
         \A u \in GraphThreads : u # t => graphPc'[u] = graphPc[u] /\ queue'[u] = queue[u],
         \A e \in Events : stage'[e] = "open" /\ ~silent' => Served(t, e)
  PROVE  ChangeWakes'
  <1>1. \A e \in Events : WakePending(e) <=> \E u \in GraphThreads : Will(u, e)
    BY DEF WakePending, Will
  <1>2. \A e \in Events : WakePending(e)' <=> \E u \in GraphThreads : Will(u, e)'
    BY DEF WakePending, Will
  <1>3. \A e \in Events : \A u \in GraphThreads : u # t => (Will(u, e)' <=> Will(u, e))
    BY DEF Will
  <1>4. ASSUME NEW e \in Events, ~silent', stage'[e] = "open", ~WakePending(e)' PROVE Informed(e)'
    <2>1. CASE stage[e] = "open" /\ ~silent /\ ~Will(t, e) /\ (Informed(e) => Informed(e)')
      <3>1. ~WakePending(e)
        BY <1>1, <1>2, <1>3, <1>4, <2>1
      <3>2. Informed(e)
        BY <2>1, <3>1 DEF ChangeWakes, Informed
      <3>3. QED
        BY <2>1, <3>2
    <2>2. QED
      BY <1>2, <1>4, <2>1 DEF Served
  <1>5. QED
    BY <1>4 DEF ChangeWakes, Informed

\* A change of the graph ends in a notification, or the failure of one is known.
LEMMA PlainNotifies ==
  ASSUME RecordsTyped, NEW t \in GraphThreads, PlainAction(t)
  PROVE  \/ graphPc' = [graphPc EXCEPT ![t] = "snapshot"]
         \/ silent' = TRUE
         \/ UNCHANGED <<health, revision, silent>> /\ graphPc[t] # "snapshot"
  <1>m. ASSUME \/ Unchanged(t) \/ Invalid(t) \/ Changed(t)
               \/ \E p \in Participants, c \in Changes : ApplyParticipant(t, p, c)
               \/ \E g \in Endpoints, c \in Changes : ApplyEndpoint(t, g, c)
               \/ \E p \in Participants, nodes \in Snapshots : ApplyRemoteNodes(t, p, nodes)
               \/ Throws(t)
        PROVE  graphPc' = [graphPc EXCEPT ![t] = "snapshot"] \/ UNCHANGED <<health, revision>>
    <2>1. Unchanged(t) \/ Invalid(t) \/ Changed(t)
      BY <1>m DEF ApplyParticipant, ApplyEndpoint, ApplyRemoteNodes, Throws
    <2>2. QED
      BY <2>1 DEF Unchanged, Invalid, Changed, GraphGoto
  <1>1. CASE Discover(t)
    BY <1>1, <1>m DEF Discover, localVars
  <1>2. CASE ListenerEnter(t) \/ ListenerLeave(t) \/ ListenerClose(t) \/ ListenerDrain(t)
    BY <1>2 DEF ListenerEnter, ListenerLeave, ListenerClose, ListenerDrain, Starts, localVars, graphVars
  <1>3. CASE SnapshotThrows(t)
    BY <1>3 DEF SnapshotThrows
  <1>4. CASE Ingest(t)
    BY <1>4, <1>m DEF Ingest, Local, Starts
  <1>5. ASSUME NEW n \in Nodes,
               AddLocalNode(t, n) \/ ReleaseLocalNode(t, n) \/ AddLocalEndpointThrows(t, n)
        PROVE  \/ graphPc' = [graphPc EXCEPT ![t] = "snapshot"]
               \/ UNCHANGED <<health, revision, silent>> /\ graphPc[t] # "snapshot"
    BY <1>5, <1>m DEF AddLocalNode, ReleaseLocalNode, AddLocalEndpointThrows, Local, Starts
  <1>6. ASSUME NEW l \in LocalEndpoints,
               RemoveLocalEndpoint(t, l) \/ \E n \in Nodes : AddLocalEndpoint(t, l, n)
        PROVE  \/ graphPc' = [graphPc EXCEPT ![t] = "snapshot"]
               \/ UNCHANGED <<health, revision, silent>> /\ graphPc[t] # "snapshot"
    <2>1. Unchanged(t) \/ Changed(t)
      BY <1>6 DEF RemoveLocalEndpoint, AddLocalEndpoint
    <2>2. graphPc[t] # "snapshot" /\ UNCHANGED silent
      BY <1>6 DEF RemoveLocalEndpoint, AddLocalEndpoint, AddLocalEndpointThrows, Local, Starts
    <2>3. QED
      BY <1>m, <2>1, <2>2
  <1>7. QED
    BY <1>1, <1>2, <1>3, <1>4, <1>5, <1>6 DEF PlainAction

LEMMA PlainServes ==
  ASSUME GraphTypeOK, ChangeWakes, NEW t \in GraphThreads, PlainAction(t)
  PROVE  ChangeWakes'
  <1>0. graphPc \in [GraphThreads -> Labels] /\ RecordsTyped /\ FlagsTyped
    BY TypeParts DEF ThreadsTyped
  <1>1. PlainStep(t)
    BY PlainSteps
  <1>2. UNCHANGED <<stage, cursor, queue>> /\ \A u \in GraphThreads : u # t => graphPc'[u] = graphPc[u]
    BY <1>0, <1>1 DEF PlainStep, eventVars, GraphGoto
  <1>3. UNCHANGED noticed
    BY DEF PlainAction, Discover, ListenerEnter, ListenerLeave, ListenerClose, ListenerDrain,
       SnapshotThrows, Ingest, AddLocalNode, ReleaseLocalNode, RemoveLocalEndpoint, AddLocalEndpoint, AddLocalEndpointThrows,
       Local
  <1>4. ASSUME NEW e \in Events, stage'[e] = "open", ~silent' PROVE Served(t, e)
    <2>1. CASE graphPc' = [graphPc EXCEPT ![t] = "snapshot"]
      BY <1>0, <2>1 DEF Served, Will
    <2>2. CASE UNCHANGED <<health, revision, silent>> /\ graphPc[t] # "snapshot"
      <3>1. ~Will(t, e)
        BY <1>1, <2>2 DEF Will, PlainStep, Plain
      <3>2. Informed(e) => Informed(e)'
        BY <1>2, <1>3, <2>2 DEF Informed
      <3>3. stage[e] = "open" /\ ~silent
        BY <1>2, <1>4, <2>2
      <3>4. QED
        BY <3>1, <3>2, <3>3 DEF Served
    <2>3. QED
      BY <1>0, <1>4, <2>1, <2>2, PlainNotifies
  <1>5. QED
    BY <1>2, <1>4, ServedKeeps

LEMMA EventServes ==
  ASSUME GraphTypeOK, EventInv, ChangeWakes, NEW t \in GraphThreads, EventAction(t)
  PROVE  ChangeWakes'
  <1>0. /\ graphPc \in [GraphThreads -> Labels] /\ queue \in [GraphThreads -> Seq(Events)]
        /\ stage \in [Events -> Stages] /\ cursor \in [Events -> 0..MaxRevision]
        /\ noticed \in [Events -> [revision : 0..MaxRevision, health : Healths]]
        /\ revision \in 0..MaxRevision
        /\ ThreadsTyped /\ FlagsTyped /\ Queued /\ Counted /\ Staged /\ Owned /\ Admitting
    BY TypeParts DEF ThreadsTyped, EventsTyped, HistoryTyped, RecordsTyped, EventInv
  <1>a. /\ graphPc[t] \in InCallback => queue[t] # <<>>
        /\ graphPc[t] \in Closing \cup {"subscribe", "take"} => graphArg[t] \in Events
    BY <1>0, AtHand
  <1>b. queue[t] # <<>> => /\ Head(queue[t]) \in Events
                           /\ ToSet(queue[t]) = {Head(queue[t])} \cup ToSet(Tail(queue[t]))
    BY <1>0, HeadAndTail
  <1>c. UNCHANGED <<health, revision, silent>>
    BY DEF EventAction, Snapshot, NextSubscriber, CallbackLock, CallbackWake, CallbackDrop,
       CallbackExit, Subscribe, TakeCommit, EventRelease, Unsubscribe, StopAccepting, Drain,
       EventCreate, TakeCheck, EventDestroy, graphVars, localVars
  <1>d. \A u \in GraphThreads : u # t => graphPc'[u] = graphPc[u] /\ queue'[u] = queue[u]
    BY <1>0 DEF EventAction, Snapshot, NextSubscriber, CallbackLock, CallbackWake, CallbackDrop,
       CallbackExit, Subscribe, TakeCommit, EventRelease, GraphRelease, Unsubscribe, StopAccepting,
       Drain, EventCreate, TakeCheck, EventDestroy, GraphGoto
  <1> DEFINE Goal == \A e \in Events : stage'[e] = "open" /\ ~silent' => Served(t, e)
  <1>e. ASSUME UNCHANGED <<stage, cursor, noticed>>,
               \A e \in Events : stage[e] = "open" /\ Will(t, e) => Will(t, e)'
        PROVE  Goal
    <2>1. \A e \in Events : Informed(e)' <=> Informed(e)
      BY <1>c, <1>e DEF Informed
    <2>2. QED
      BY <1>c, <1>e, <2>1 DEF Served
  <1>1. ASSUME Snapshot(t) PROVE Goal
    <2>1. graphPc'[t] = "next" /\ queue'[t] = subs /\ UNCHANGED <<stage, cursor, noticed>>
      BY <1>0, <1>1 DEF Snapshot, GraphGoto, eventVars
    <2>2. \A e \in Events : stage[e] = "open" => Will(t, e)'
      BY <1>0, <2>1 DEF Will, Admitting
    <2>3. QED
      BY <1>e, <2>1, <2>2
  <1>2. ASSUME NextSubscriber(t) PROVE Goal
    <2>1. UNCHANGED <<stage, cursor, noticed>> /\ graphPc[t] = "next"
      BY <1>2 DEF NextSubscriber, eventVars
    <2>2. CASE queue[t] = <<>>
      <3>1. \A e \in Events : ~Will(t, e)
        BY <2>1, <2>2 DEF Will, ToSet
      <3>2. QED
        BY <1>e, <2>1, <3>1
    <2>3. CASE queue[t] # <<>> /\ accepting[Head(queue[t])]
      <3>1. graphPc'[t] = "lock" /\ queue'[t] = queue[t]
        BY <1>0, <1>2, <2>3 DEF NextSubscriber, Admits, GraphGoto
      <3>2. \A e \in Events : Will(t, e) => Will(t, e)'
        BY <2>1, <3>1 DEF Will
      <3>3. QED
        BY <1>e, <2>1, <3>2
    <2>4. CASE queue[t] # <<>> /\ ~accepting[Head(queue[t])]
      <3>1. graphPc'[t] = "next" /\ queue'[t] = Tail(queue[t])
        BY <1>0, <1>2, <2>4 DEF NextSubscriber, Admits, GraphGoto
      <3>2. stage[Head(queue[t])] # "open"
        BY <1>0, <1>b, <2>4 DEF Admitting
      <3>3. \A e \in Events : stage[e] = "open" /\ Will(t, e) => Will(t, e)'
        BY <1>b, <2>1, <2>4, <3>1, <3>2 DEF Will
      <3>4. QED
        BY <1>e, <2>1, <3>3
    <2>5. QED
      BY <2>2, <2>3, <2>4
  <1>3. ASSUME CallbackLock(t) PROVE Goal
    <2>1. UNCHANGED <<stage, cursor, noticed, queue>> /\ graphPc[t] = "lock" /\ queue[t] # <<>>
      BY <1>3, <1>a DEF CallbackLock, InCallback
    <2>2. CASE holders[Head(queue[t])] # {}
      <3>1. graphPc'[t] = "wake"
        BY <1>0, <1>3, <2>2 DEF CallbackLock, GraphGoto
      <3>2. QED
        BY <1>e, <2>1, <3>1 DEF Will
    <2>3. CASE holders[Head(queue[t])] = {}
      <3>1. graphPc'[t] = "exit"
        BY <1>0, <1>3, <2>3 DEF CallbackLock, GraphGoto
      <3>2. stage[Head(queue[t])] # "open"
        BY <1>0, <1>b, <2>1, <2>3 DEF Owned
      <3>3. \A e \in Events : stage[e] = "open" /\ Will(t, e) => Will(t, e)'
        BY <1>b, <2>1, <3>1, <3>2 DEF Will
      <3>4. QED
        BY <1>e, <2>1, <3>3
    <2>4. QED
      BY <2>2, <2>3
  <1>4. ASSUME CallbackWake(t) PROVE Goal
    <2>1. /\ UNCHANGED <<stage, cursor, queue>> /\ graphPc[t] = "wake" /\ queue[t] # <<>>
          /\ graphPc'[t] = "drop"
      BY <1>0, <1>4, <1>a DEF CallbackWake, InCallback, eventVars, GraphGoto
    <2>2. Informed(Head(queue[t]))'
      BY <1>0, <1>b, <1>c, <1>4, <2>1 DEF CallbackWake, Informed
    <2>3. ASSUME NEW e \in Events, e # Head(queue[t]) PROVE (Informed(e) <=> Informed(e)') /\ (Will(t, e) => Will(t, e)')
      <3>1. noticed'[e] = noticed[e]
        BY <1>0, <1>4, <2>3 DEF CallbackWake
      <3>2. QED
        BY <1>b, <1>c, <2>1, <2>3, <3>1 DEF Informed, Will
    <2>4. ASSUME NEW e \in Events, stage'[e] = "open", ~silent' PROVE Served(t, e)
      <3>1. CASE e = Head(queue[t])
        BY <2>1, <2>2, <3>1 DEF Served, Informed
      <3>2. CASE e # Head(queue[t])
        BY <1>c, <2>1, <2>3, <2>4, <3>2 DEF Served
      <3>3. QED
        BY <3>1, <3>2
    <2>5. QED
      BY <2>4
  <1>5. ASSUME CallbackDrop(t) PROVE Goal
    <2>1. /\ UNCHANGED <<stage, cursor, noticed, queue>> /\ graphPc[t] = "drop"
          /\ graphPc'[t] \in {"exit", "unsubscribe"}
      BY <1>0, <1>5 DEF CallbackDrop, GraphRelease, GraphGoto
    <2>2. QED
      BY <1>e, <2>1 DEF Will
  <1>6. ASSUME CallbackExit(t) PROVE Goal
    <2>1. /\ UNCHANGED <<stage, cursor, noticed>> /\ graphPc[t] = "exit"
          /\ graphPc'[t] = "next" /\ queue'[t] = Tail(queue[t])
      BY <1>0, <1>6 DEF CallbackExit, GraphGoto, eventVars
    <2>2. QED
      BY <1>e, <2>1 DEF Will
  <1>7. ASSUME Subscribe(t) PROVE Goal
    <2>1. /\ UNCHANGED cursor /\ graphPc[t] = "subscribe" /\ graphArg[t] \in Events
          /\ \A e \in Events : e # graphArg[t] => stage'[e] = stage[e] /\ noticed'[e] = noticed[e]
          /\ noticed'[graphArg[t]] = [revision |-> revision, health |-> health]
      BY <1>0, <1>a, <1>7 DEF Subscribe
    <2>2. \A e \in Events : ~Will(t, e)
      BY <2>1 DEF Will
    <2>3. ASSUME NEW e \in Events, stage'[e] = "open", ~silent' PROVE Served(t, e)
      <3>1. CASE e = graphArg[t]
        BY <1>0, <1>c, <2>1, <3>1 DEF Served, Informed
      <3>2. CASE e # graphArg[t]
        <4>1. Informed(e) => Informed(e)'
          BY <1>c, <2>1, <3>2 DEF Informed
        <4>2. QED
          BY <1>c, <2>1, <2>2, <2>3, <3>2, <4>1 DEF Served
      <3>3. QED
        BY <3>1, <3>2
    <2>4. QED
      BY <2>3
  <1>8. ASSUME TakeCommit(t) PROVE Goal
    <2>1. /\ UNCHANGED <<stage, noticed>> /\ graphPc[t] = "take" /\ graphArg[t] \in Events
          /\ \A e \in Events : cursor'[e] = cursor[e] \/ cursor'[e] = revision
      BY <1>0, <1>a, <1>8 DEF TakeCommit
    <2>2. \A e \in Events : ~Will(t, e)
      BY <2>1 DEF Will
    <2>3. \A e \in Events : Informed(e) => Informed(e)'
      <3>1. ~(revision < revision)
        BY <1>0, GraphAssumption
      <3>2. ASSUME NEW e \in Events, Informed(e) PROVE Informed(e)'
        <4>1. CASE cursor'[e] = cursor[e]
          BY <1>c, <2>1, <3>2, <4>1 DEF Informed
        <4>2. CASE cursor'[e] = revision
          BY <1>c, <2>1, <3>1, <3>2, <4>2 DEF Informed
        <4>3. QED
          BY <2>1, <4>1, <4>2
      <3>3. QED
        BY <3>2
    <2>4. QED
      BY <1>c, <2>1, <2>2, <2>3 DEF Served
  <1>9. ASSUME EventRelease(t) PROVE Goal
    <2>1. UNCHANGED <<stage, cursor, noticed>> /\ graphPc[t] = "close"
      BY <1>9 DEF EventRelease
    <2>2. QED
      BY <1>e, <2>1 DEF Will
  <1>10. ASSUME Unsubscribe(t) \/ StopAccepting(t) PROVE Goal
    <2>1. /\ UNCHANGED <<stage, cursor, noticed, queue>> /\ graphPc[t] \in {"unsubscribe", "stop"}
          /\ graphPc'[t] \in {"stop", "drain"}
      BY <1>0, <1>10 DEF Unsubscribe, StopAccepting, GraphGoto, eventVars
    <2>2. QED
      BY <1>e, <2>1 DEF Will
  <1>11. ASSUME Drain(t) PROVE Goal
    <2>1. /\ UNCHANGED <<cursor, noticed>> /\ graphPc[t] = "drain"
          /\ \A e \in Events : stage'[e] = "open" => stage[e] = "open"
      BY <1>0, <1>11 DEF Drain
    <2>2. queue[t] = <<>>
      <3>1. graphArg[t] \in Events /\ inFlight[graphArg[t]] = 0
        BY <1>a, <1>11 DEF Drain, Closing, Destroying
      <3>2. queue[t] # <<>> => t \in Inside(graphArg[t])
        BY <1>0, <2>1 DEF Queued, Inside, Destroying
      <3>3. QED
        BY <1>0, <3>1, <3>2, InsideCounts
    <2>3. \A e \in Events : ~Will(t, e)
      BY <2>1, <2>2 DEF Will
    <2>4. \A e \in Events : Informed(e) => Informed(e)'
      BY <1>c, <2>1 DEF Informed
    <2>5. QED
      BY <1>c, <2>1, <2>3, <2>4 DEF Served
  <1>12. ASSUME NEW v \in Events, EventCreate(t, v) PROVE Goal
    <2>1. /\ UNCHANGED noticed /\ graphPc[t] = "idle"
          /\ \A e \in Events : e # v => cursor'[e] = cursor[e] /\ stage'[e] = stage[e]
          /\ stage'[v] = "initializing"
      BY <1>0, <1>12 DEF EventCreate, Starts
    <2>2. \A e \in Events : ~Will(t, e)
      BY <2>1 DEF Will
    <2>3. \A e \in Events : e # v /\ Informed(e) => Informed(e)'
      BY <1>c, <2>1 DEF Informed
    <2>4. QED
      BY <1>c, <2>1, <2>2, <2>3 DEF Served
  <1>13. ASSUME NEW v \in Events, TakeCheck(t, v) \/ EventDestroy(t, v) PROVE Goal
    <2>1. /\ UNCHANGED <<cursor, noticed>> /\ graphPc[t] = "idle"
          /\ \A e \in Events : stage'[e] = "open" => stage[e] = "open"
      BY <1>0, <1>13 DEF TakeCheck, EventDestroy, Starts, eventVars
    <2>2. \A e \in Events : ~Will(t, e)
      BY <2>1 DEF Will
    <2>3. \A e \in Events : Informed(e) => Informed(e)'
      BY <1>c, <2>1 DEF Informed
    <2>4. QED
      BY <1>c, <2>1, <2>2, <2>3 DEF Served
  <1>14. Goal
    BY <1>1, <1>2, <1>3, <1>4, <1>5, <1>6, <1>7, <1>8, <1>9, <1>10, <1>11, <1>12, <1>13 DEF EventAction
  <1>15. QED
    BY <1>d, <1>14, ServedKeeps

-----------------------------------------------------------------------------
(* Theorems.                                                               *)

GraphInv == RecordsInv /\ GraphTypeOK /\ EventInv /\ ListenerDrained /\ ChangeWakes

LEMMA ListenerStep ==
  ASSUME ListenerDrained, [GraphNext]_discoveryVars
  PROVE  ListenerDrained'
  <1>1. \/ UNCHANGED listenerVars
        \/ listener = "open" /\ UNCHANGED listener
        \/ listener' = "closing"
        \/ inListener = {} /\ UNCHANGED inListener
        \/ \E t \in GraphThreads : inListener' = inListener \ {t} /\ UNCHANGED listener
    BY DEF GraphNext, GraphStep, GraphCall, Discover, ListenerEnter, ListenerLeave, ListenerClose,
       ListenerDrain, Gated, SnapshotThrows, Ingest, AddLocalNode, ReleaseLocalNode,
       RemoveLocalEndpoint, AddLocalEndpoint, AddLocalEndpointThrows, Local, Snapshot, NextSubscriber, CallbackLock,
       CallbackWake, CallbackDrop, CallbackExit, Subscribe, TakeCommit, EventRelease, Unsubscribe,
       StopAccepting, Drain, EventCreate, TakeCheck, EventDestroy, discoveryVars
  <1>2. QED
    BY <1>1 DEF ListenerDrained, listenerVars

LEMMA GraphInitInv == GraphInit => GraphInv
  <1> SUFFICES ASSUME GraphInit PROVE GraphInv
    OBVIOUS
  <1>1. RecordsTyped
    BY GraphAssumption DEF GraphInit, RecordsTyped, Healths
  <1>2. AssociationVisible
    <2>1. \A n \in Nodes : Users(n) = {} /\ references[n] = 0 /\ n \notin facades /\ lost[n] = 0
      BY GraphAssumption DEF GraphInit, Users
    <2>2. \A n \in Nodes : Balanced(n)
      BY <2>1, FS_EmptySet DEF Balanced
    <2>3. QED
      BY <2>2, VisibleIsBalanced
  <1>3. EventsTyped /\ ThreadsTyped
    BY DEF GraphInit, EventsTyped, ThreadsTyped, Stages, Labels
  <1>4. HistoryTyped /\ FlagsTyped
    <2>1. HistoryTyped
      BY GraphAssumption DEF GraphInit, HistoryTyped, Healths
    <2>2. accepting \in [Events -> BOOLEAN] /\ listener \in {"open", "closing", "closed"}
      BY DEF GraphInit
    <2>3. silent \in BOOLEAN
      BY Zenon DEF GraphInit
    <2>4. QED
      BY <2>1, <2>2, <2>3 DEF FlagsTyped
  <1>5. Counted
    <2>1. \A e \in Events : Inside(e) = {} /\ inFlight[e] = 0
      BY DEF GraphInit, Inside, InCallback, Destroying
    <2>2. QED
      BY <2>1, FS_EmptySet DEF Counted
  <1>6. Queued /\ Staged /\ OneEach /\ Owned /\ Admitting
    BY DEF GraphInit, Queued, Staged, OneEach, Owned, Admitting, Plain, InCallback, Destroying, Closing
  <1>7. ListenerDrained /\ ChangeWakes
    BY DEF GraphInit, ListenerDrained, ChangeWakes
  <1>8. QED
    BY <1>1, <1>2, <1>3, <1>4, <1>5, <1>6, <1>7, TypeParts DEF GraphInv, RecordsInv, EventInv

LEMMA GraphStepInv == GraphInv /\ [GraphNext]_discoveryVars => GraphInv'
  <1> SUFFICES ASSUME GraphInv, [GraphNext]_discoveryVars PROVE GraphInv'
    OBVIOUS
  <1>0. RecordsInv /\ GraphTypeOK /\ EventInv /\ ListenerDrained /\ ChangeWakes
    BY DEF GraphInv
  <1>1. RecordsInv' /\ ListenerDrained'
    BY <1>0, RecordsStep, ListenerStep
  <1>2. CASE GraphNext
    <2>1. PICK t \in GraphThreads : PlainAction(t) \/ EventAction(t)
      BY <1>2, NextIsPlainOrEvent
    <2>2. GraphTypeOK'
      <3>1. EventsTyped' /\ ThreadsTyped' /\ HistoryTyped' /\ FlagsTyped'
        BY <1>0, <2>1, PlainTyped, EventTyped
      <3>2. RecordsTyped'
        BY <1>1 DEF RecordsInv
      <3>3. QED
        BY <3>1, <3>2, TypeParts DEF RecordsTyped, EventsTyped, ThreadsTyped, HistoryTyped, FlagsTyped,
           GraphTypeOK, Labels, Stages
    <2>3. EventInv' /\ ChangeWakes'
      BY <1>0, <2>1, EventKeeps, PlainServes, EventServes
    <2>4. QED
      BY <1>1, <2>2, <2>3 DEF GraphInv
  <1>3. CASE UNCHANGED discoveryVars
    <2> USE <1>0, <1>3 DEF discoveryVars, graphVars, records, localVars, subVars, eventVars,
                           listenerVars, graphThreadVars
    <2>1. GraphTypeOK'
      BY DEF GraphTypeOK
    <2>2. Queued' /\ Staged' /\ OneEach' /\ Owned' /\ Admitting'
      BY DEF EventInv, Queued, Staged, OneEach, Owned, Admitting
    <2>3. Counted'
      BY CountKept DEF EventInv, Inside
    <2>4. ChangeWakes'
      BY DEF ChangeWakes, WakePending
    <2>5. QED
      BY <1>1, <2>1, <2>2, <2>3, <2>4 DEF GraphInv, EventInv
  <1>4. QED
    BY <1>2, <1>3

\* No change of the graph is lost on a GraphEvent: ChangeWakes, for any number of
\* notifying threads, GraphEvents and changes.
THEOREM NoChangeIsLost == GraphSpec => []ChangeWakes
  <1>1. GraphInv => ChangeWakes
    BY DEF GraphInv
  <1>2. QED
    BY <1>1, GraphInitInv, GraphStepInv, PTL DEF GraphSpec

\* No callback runs in a subscriber or listener that was drained, and the references
\* of a node are those of its facade, its endpoints and the registrations that threw:
\* GraphSound, for any number of threads, GraphEvents, nodes and endpoints.
THEOREM GraphStaysSound == GraphSpec => []GraphSound
  <1>1. EventInv => NoCallbackAfterDrain
    <2> SUFFICES ASSUME EventInv, NEW e \in Events, NEW t \in GraphThreads,
                        stage[e] = "drained", graphPc[t] \in InCallback, Head(queue[t]) = e
                 PROVE  FALSE
      BY DEF NoCallbackAfterDrain
    <2>1. t \in Inside(e)
      BY DEF EventInv, Queued, Inside
    <2>2. inFlight[e] = 0
      BY DEF EventInv, Admitting
    <2>3. QED
      BY <2>1, <2>2, InsideCounts DEF EventInv
  <1>2. GraphInv => GraphSound
    BY <1>1 DEF GraphInv, GraphSound, RecordsInv
  <1>3. QED
    BY <1>2, GraphInitInv, GraphStepInv, PTL DEF GraphSpec

\* How a step changes the records of the remote side.
LEMMA RemoteStep ==
  ASSUME [GraphNext]_discoveryVars
  PROVE  \/ UNCHANGED <<part, endp>>
         \/ \E t \in GraphThreads, p \in Participants, c \in Changes : ApplyParticipant(t, p, c)
         \/ \E t \in GraphThreads, g \in Endpoints, c \in Changes : ApplyEndpoint(t, g, c)
  BY DEF GraphNext, GraphStep, GraphCall, Discover, ListenerEnter, ListenerLeave, ListenerClose,
     ListenerDrain, SnapshotThrows, Ingest, ApplyRemoteNodes, Throws, Invalid, Unchanged, AddLocalNode,
     ReleaseLocalNode, RemoveLocalEndpoint, AddLocalEndpoint, AddLocalEndpointThrows, Local, Snapshot, NextSubscriber,
     CallbackLock, CallbackWake, CallbackDrop, CallbackExit, Subscribe, TakeCommit, EventRelease,
     Unsubscribe, StopAccepting, Drain, EventCreate, TakeCheck, EventDestroy, discoveryVars, graphVars,
     records

\* "Removed is terminal": whichever of an endpoint and its participant is
\* discovered again, RemovedIsTerminal holds, for any number of them.
THEOREM RemovedStaysRemoved == GraphSpec => RemovedIsTerminal
  <1>1. ASSUME GraphTypeOK, [GraphNext]_discoveryVars, NEW g \in Endpoints, EndpointState(g) = "Removed"
        PROVE  EndpointState(g)' \in {"Removed", "Unavailable"}
    <2>0. /\ part \in [Participants -> Changes \cup {"none"}] /\ endp \in [Endpoints -> Changes \cup {"none"}]
          /\ Home[g] \in Participants
      BY <1>1, GraphAssumption DEF GraphTypeOK
    <2>1. endp[g] # "none" /\ "Removed" \in {endp[g], part[Home[g]]}
      BY <1>1 DEF EndpointState
    <2>2. endp'[g] # "none" /\ "Removed" \in {endp'[g], part'[Home[g]]}
      <3>1. ASSUME NEW t \in GraphThreads, NEW p \in Participants, NEW c \in Changes,
                   ApplyParticipant(t, p, c)
            PROVE  endp'[g] # "none" /\ "Removed" \in {endp'[g], part'[Home[g]]}
        BY <2>0, <2>1, <3>1 DEF ApplyParticipant, Unchanged, Invalid, records
      <3>2. ASSUME NEW t \in GraphThreads, NEW h \in Endpoints, NEW c \in Changes, ApplyEndpoint(t, h, c)
            PROVE  endp'[g] # "none" /\ "Removed" \in {endp'[g], part'[Home[g]]}
        <4>1. CASE UNCHANGED <<part, endp>>
          BY <2>1, <4>1
        <4>2. CASE /\ ~Refused(h, c)
                   /\ part' = [part EXCEPT ![Home[h]] = IF @ = "none" THEN "Added" ELSE @]
                   /\ endp' = [endp EXCEPT ![h] = c]
          <5>1. c \in {"Added", "Removed"} /\ Home[h] \in Participants
            BY <3>2, GraphAssumption DEF Changes
          <5>2. part[Home[g]] = "Removed" => part'[Home[g]] = "Removed"
            BY <2>0, <4>2, <5>1
          <5>3. endp'[g] # "none" /\ (endp[g] = "Removed" => endp'[g] = "Removed")
            BY <2>0, <2>1, <4>2, <5>1 DEF Refused
          <5>4. QED
            BY <2>1, <5>2, <5>3
        <4>3. QED
          BY <3>2, <4>1, <4>2 DEF ApplyEndpoint, Unchanged, Invalid, records
      <3>3. QED
        BY <1>1, <2>1, <3>1, <3>2, RemoteStep
    <2>3. QED
      BY <2>2 DEF EndpointState
  <1>2. GraphTypeOK /\ [GraphNext]_discoveryVars =>
          [\A g \in Endpoints : EndpointState(g) = "Removed" =>
             EndpointState(g)' \in {"Removed", "Unavailable"}]_discoveryVars
    BY <1>1
  <1>3. GraphInv => GraphTypeOK
    BY DEF GraphInv
  <1>4. QED
    BY <1>2, <1>3, GraphInitInv, GraphStepInv, PTL DEF GraphSpec, RemovedIsTerminal

\* An Unavailable graph never recovers and never changes: UnavailableIsFinal.
THEOREM UnavailableStays == GraphSpec => UnavailableIsFinal
  <1>1. ASSUME [GraphNext]_discoveryVars, health = "Unavailable"
        PROVE  UNCHANGED <<health, revision, records>>
    <2>0. ~Admitted
      BY <1>1 DEF Admitted
    <2>1. ASSUME NEW t \in GraphThreads, PlainAction(t) PROVE UNCHANGED <<health, revision, records>>
      BY <1>1, <2>0, <2>1 DEF PlainAction, Discover, ApplyParticipant, ApplyEndpoint, ApplyRemoteNodes,
         Unchanged, ListenerEnter, ListenerLeave, ListenerClose, ListenerDrain, SnapshotThrows, Ingest,
         AddLocalNode, ReleaseLocalNode, RemoveLocalEndpoint, AddLocalEndpoint, AddLocalEndpointThrows, graphVars, records
    <2>2. ASSUME NEW t \in GraphThreads, EventAction(t) PROVE UNCHANGED <<health, revision, records>>
      BY <2>2 DEF EventAction, Snapshot, NextSubscriber, CallbackLock, CallbackWake, CallbackDrop,
         CallbackExit, Subscribe, TakeCommit, EventRelease, Unsubscribe, StopAccepting, Drain,
         EventCreate, TakeCheck, EventDestroy, graphVars
    <2>3. QED
      BY <1>1, <2>1, <2>2, NextIsPlainOrEvent DEF discoveryVars, graphVars
  <1>2. [GraphNext]_discoveryVars =>
          [health = "Unavailable" => UNCHANGED <<health, revision, records>>]_discoveryVars
    BY <1>1
  <1>3. QED
    BY <1>2, PTL DEF GraphSpec, UnavailableIsFinal
=============================================================================
