----------------------------- MODULE EntityLife -----------------------------
(***************************************************************************)
(* Creation, rollback and destruction of a Context and of one entity of    *)
(* its Node: Context::Impl::create, ParticipantCreationGuard and ~Context  *)
(* (dmw/src/impl/context_impl.cpp), GraphMetadataTransport                 *)
(* (graph_metadata.cpp), Node::Impl::create_* (node_impl.cpp), the         *)
(* destructors of Publisher, Subscriber, Client and Server, and            *)
(* ProcessLifetime (process_lifetime.hpp).                                 *)
(*                                                                         *)
(* One thread creates and destroys; it works through todo, one Fast DDS    *)
(* call or one C++ release a step, and a failure replaces todo by the      *)
(* rollback the code performs.  Fast DDS threads call every listener that  *)
(* is still attached.  An entity has one or more parts (an action has      *)
(* five, created as one transaction), and a part one or two endpoints.     *)
(***************************************************************************)
EXTENDS Integers, Sequences

CONSTANTS
    Parts,           \* kinds of the parts, in the order of creation
    MaxEntityFaults  \* number of calls that fail in a behaviour

EntityKinds == {"publisher", "subscriber", "client", "server"}

ASSUME EntityAssumption ==
    Parts \in Seq(EntityKinds) /\ MaxEntityFaults \in Nat

PartIds == 1..Len(Parts)
SidesOf(i) ==
    IF Parts[i] \in {"client", "server"} THEN <<"request", "response">> ELSE <<"data">>
Endpoints == {<<i, SidesOf(i)[n]>> : i \in PartIds, n \in 1..1}
             \cup {<<i, "response">> : i \in {j \in PartIds : Len(SidesOf(j)) = 2}}
Participant == <<0, "participant">>
Transport == <<0, "transport">>    \* the GraphMetadataTransport: its reader
Objects == Endpoints \cup {Participant, Transport}
Kind(e) == Parts[e[1]]

(* The listeners of a Publisher's or Subscriber's events are those of      *)
(* EndpointEvents.                                                         *)
HasListener(e) ==
    \/ e[1] = 0
    \/ Kind(e) = "client"
    \/ Kind(e) = "server" /\ e[2] = "response"
HasWaitState(e) ==
    \/ Kind(e) = "subscriber"
    \/ <<Kind(e), e[2]>> \in {<<"client", "response">>, <<"server", "request">>}

VARIABLES
    dds,          \* the Fast DDS object: "none", "alive", "deleted", "retained"
    topic,        \* the topic of an endpoint: "none", "held", "released"
    bound,        \* its LocalEndpointRegistration is armed
    listener,     \* "none", "live", "retained" (ProcessLifetime) or "freed"
    attached,     \* Fast DDS calls the listener
    inside,       \* a Fast DDS thread is in the listener, past its gate
    gateOpen,     \* the listener lets callbacks in
    detached,     \* listener_detached of the running destructor
    closed,       \* FALSE once its ReaderWaitState could not leave the WaitSet
    refused,      \* ghost: Fast DDS refused a step of the deletion
    thrown,       \* ghost: the parts whose Impl constructor threw
    todo,         \* what the running call still does
    call,         \* the running call, or the state after the last one
    current,      \* the part it is at
    contextDown,  \* the Context is shut down
    entityFaults  \* failed calls so far

objectVars == <<dds, topic, bound, listener, attached, inside, gateOpen, detached, closed,
                refused>>
entityVars == <<dds, topic, bound, listener, attached, inside, gateOpen, detached, closed,
                refused, thrown, todo, call, current, contextDown, entityFaults>>

EntityInit ==
    /\ dds = [e \in Objects |-> "none"] /\ listener = [e \in Objects |-> "none"]
    /\ topic = [e \in Objects |-> "none"] /\ bound = [e \in Objects |-> FALSE]
    /\ attached = [e \in Objects |-> FALSE] /\ inside = [e \in Objects |-> FALSE]
    /\ gateOpen = [e \in Objects |-> FALSE]
    /\ detached = [e \in Objects |-> FALSE] /\ closed = [e \in Objects |-> TRUE]
    /\ refused = [e \in Objects |-> FALSE] /\ thrown = {}
    /\ todo = <<>> /\ call = "start" /\ current = 0
    /\ contextDown = FALSE /\ entityFaults = 0
-----------------------------------------------------------------------------
(* The programs of the running thread.                                     *)
Do(op, e) == <<[op |-> op, e |-> e]>>
Each(op, i) == [n \in 1..Len(SidesOf(i)) |-> [op |-> op, e |-> <<i, SidesOf(i)[n]>>]]
EachBack(op, i) ==
    [n \in 1..Len(SidesOf(i)) |-> [op |-> op, e |-> <<i, SidesOf(i)[Len(SidesOf(i)) + 1 - n]>>]]
(* P(e) for the endpoints of part i, the last one first. *)
EachBackDo(P(_), i) ==
    IF Len(SidesOf(i)) = 1 THEN P(<<i, SidesOf(i)[1]>>)
    ELSE P(<<i, "response">>) \o P(<<i, "request">>)

BuildPart(i) ==
    Do("operation", <<i, SidesOf(i)[1]>>) \o Each("topic", i) \o Each("listener", i)
    \o Each("create", i) \o Each("bind", i) \o Do("impl", <<i, SidesOf(i)[1]>>)
CreatePart(i) ==
    BuildPart(i)
    \o (IF Parts[i] = "client" THEN Do("initialized", <<i, "request">>) ELSE <<>>)

(* delete_writer_listener_noexcept, delete_reader_noexcept and the others. *)
RemoveEndpoint(e) ==
    IF HasListener(e)
    THEN Do("detach", e) \o Do("drain", e) \o Do("delete", e) \o Do("retain", e)
    ELSE Do("delete plain", e)

(* Failed creation: the catch block, then the locals in reverse order.     *)
RollBack(i) ==
    EachBack("unbind", i) \o EachBackDo(RemoveEndpoint, i)
    \o EachBack("free", i) \o EachBack("release", i)

(* The Impl constructor threw: what was moved into it is destroyed before  *)
(* the catch block runs, the members before the parameters.                *)
FreeFirst(e) == Do("free", e) \o Do("release", e)

DropMoved(i) ==
    IF Parts[i] = "client"
    THEN {EachBackDo(FreeFirst, i) \o EachBack("unbind", i),
          EachBack("unbind", i) \o EachBackDo(FreeFirst, i)}
    ELSE {EachBack("free", i) \o EachBack("unbind", i) \o EachBack("release", i)}

(* The destructors: each endpoint, then the members in reverse order.      *)
Teardown(e) ==
    LET close == IF HasWaitState(e) THEN Do("close", e) ELSE <<>>
    IN  IF Kind(e) = "server" /\ e[2] = "request" THEN close \o Do("delete plain", e)
        ELSE Do("detach", e) \o Do("drain", e) \o close \o Do("delete", e) \o Do("retain", e)

DestroyPart(i) ==
    EachBackDo(Teardown, i) \o EachBack("unbind", i)
    \o (IF Parts[i] = "client" THEN EachBackDo(FreeFirst, i)
        ELSE EachBack("release", i) \o EachBack("free", i))

CreateContext ==
    Do("listener", Participant) \o Do("create", Participant) \o Do("containers", Participant)
    \o Do("listener", Transport) \o Do("create", Transport) \o Do("attach", Transport)
ParticipantGuard == Do("detach", Participant) \o Do("drain", Participant)
                    \o Do("delete guarded", Participant) \o Do("free", Participant)
(* ~GraphMetadataTransport: its endpoints are left to the participant.     *)
DestroyTransport == Do("detach", Transport) \o Do("drain", Transport)
                    \o Do("retain", Transport) \o Do("free", Transport)
DestroyContext ==
    DestroyTransport \o Do("detach", Participant) \o Do("drain", Participant)
    \o Do("delete", Participant) \o Do("retain", Participant) \o Do("free", Participant)
-----------------------------------------------------------------------------
Running == todo # <<>>
Op(name) == Running /\ todo[1].op = name
This == todo[1].e
Advance == todo' = Tail(todo) /\ UNCHANGED <<call, current, contextDown, thrown, entityFaults>>
EntityFault == entityFaults < MaxEntityFaults /\ entityFaults' = entityFaults + 1
Set(f, v) == [f EXCEPT ![This] = v]

(* A creation fails: what was built is rolled back, then the parts before. *)
RolledBack ==
    /\ call' = "undo"
    /\ todo' = RollBack(current)
    /\ UNCHANGED <<current, contextDown, thrown>>

TakeOperation ==
    /\ Op("operation")
    /\ UNCHANGED <<objectVars, entityFaults>>
    /\ IF contextDown THEN RolledBack
       ELSE todo' = Tail(todo) /\ UNCHANGED <<call, current, contextDown, thrown>>

HoldTopic ==
    /\ Op("topic")
    /\ topic' = Set(topic, "held")
    /\ Advance
    /\ UNCHANGED <<dds, bound, listener, attached, inside, gateOpen, detached, closed,
                   refused>>

MakeListener ==
    /\ Op("listener")
    /\ listener' = IF HasListener(This) THEN Set(listener, "live") ELSE listener
    /\ gateOpen' = Set(gateOpen, HasListener(This))
    /\ Advance
    /\ UNCHANGED <<dds, topic, bound, attached, inside, detached, closed, refused>>

(* create_datawriter, create_datareader and create_participant install the *)
(* listener with the object.                                               *)
CreateObject ==
    /\ Op("create")
    /\ dds' = Set(dds, "alive")
    /\ attached' = Set(attached, HasListener(This) /\ This # Transport)
    /\ Advance
    /\ UNCHANGED <<topic, bound, listener, inside, gateOpen, detached, closed, refused>>

(* The metadata reader gets its listener after it was created.             *)
AttachListener ==
    /\ Op("attach")
    /\ attached' = Set(attached, TRUE)
    /\ Advance
    /\ UNCHANGED <<dds, topic, bound, listener, inside, gateOpen, detached, closed, refused>>

Bind ==
    /\ Op("bind")
    /\ bound' = Set(bound, TRUE)
    /\ Advance
    /\ UNCHANGED <<dds, topic, listener, attached, inside, gateOpen, detached, closed,
                   refused>>

(* The Impl now owns everything; a Context hands its containers on.        *)
Pass ==
    /\ Op("impl") \/ Op("containers")
    /\ Advance
    /\ UNCHANGED objectVars

(* Client::Impl::initialized: shut down, or a registration was refused.    *)
CheckInitialized ==
    /\ Op("initialized")
    /\ UNCHANGED <<objectVars, current, contextDown, thrown>>
    /\ \/ ~contextDown /\ todo' = Tail(todo) /\ UNCHANGED <<call, entityFaults>>
       \/ /\ (contextDown /\ UNCHANGED entityFaults) \/ EntityFault
          /\ call' = "undo"
          /\ todo' = DestroyPart(current)

(* Fast DDS, the registry or the graph subscription refuses, or            *)
(* bind_endpoint_metadata or the allocation of the Impl throws.            *)
CreationFails ==
    /\ Op("topic") \/ Op("listener") \/ Op("create") \/ Op("bind") \/ Op("impl")
    /\ This \in Endpoints
    /\ EntityFault /\ RolledBack
    /\ UNCHANGED objectVars

(* The constructor of the Impl throws: it has taken the topics, the        *)
(* listeners and the registrations of the endpoints, and they go first.    *)
ConstructorThrows ==
    /\ Op("impl") /\ EntityFault
    /\ thrown' = thrown \cup {current}
    /\ call' = "undo"
    /\ \E dropped \in DropMoved(current) :
           todo' = dropped \o EachBackDo(RemoveEndpoint, current)
    /\ UNCHANGED <<objectVars, current, contextDown>>

(* Creating the Context fails; a refused participant leaves nothing, the   *)
(* guard cleans up after the containers, ~Context after the transport,     *)
(* which keeps its listener for good when it has no reader to detach from. *)
ContextFails ==
    /\ Op("create") \/ Op("containers") \/ Op("attach")
    /\ This \notin Endpoints
    /\ EntityFault
    /\ call' = "undo"
    /\ todo' = CASE This = Transport -> DestroyContext
                 [] Op("containers") -> ParticipantGuard
                 [] OTHER -> Do("free", Participant)
    /\ refused' = Set(refused, TRUE)
    /\ UNCHANGED <<dds, topic, bound, listener, attached, inside, gateOpen, detached, closed,
                   current, contextDown, thrown>>
-----------------------------------------------------------------------------
(* Destruction and rollback.  set_listener(nullptr) is confirmed or not.   *)
Detach ==
    /\ Op("detach")
    /\ \/ /\ detached' = Set(detached, This # Transport \/ dds[This] = "alive")
          /\ attached' = Set(attached, FALSE)
          /\ UNCHANGED <<refused, entityFaults>>
       \/ /\ dds[This] = "alive" /\ EntityFault
          /\ refused' = Set(refused, TRUE)
          /\ UNCHANGED <<detached, attached>>
    /\ todo' = Tail(todo)
    /\ UNCHANGED <<dds, topic, bound, listener, inside, gateOpen, closed, call, current,
                   contextDown, thrown>>

(* close_and_drain: no callback enters, and those inside leave.            *)
Drains == listener[This] = "live" /\ (detached[This] \/ This = Transport)

CloseGate ==
    /\ Op("drain") /\ Drains /\ gateOpen[This]
    /\ gateOpen' = Set(gateOpen, FALSE)
    /\ UNCHANGED <<dds, topic, bound, listener, attached, inside, detached, closed, refused,
                   todo, call, current, contextDown, thrown, entityFaults>>

Drain ==
    /\ Op("drain")
    /\ Drains => ~gateOpen[This] /\ ~inside[This]
    /\ Advance /\ UNCHANGED objectVars

(* ReaderWaitState::close: FALSE when the WaitSet could not be left.       *)
CloseWaitState ==
    /\ Op("close")
    /\ \/ UNCHANGED <<closed, refused, entityFaults>>
       \/ EntityFault /\ refused' = Set(refused, TRUE) /\ closed' = Set(closed, FALSE)
    /\ todo' = Tail(todo)
    /\ UNCHANGED <<dds, topic, bound, listener, attached, inside, gateOpen, detached, call,
                   current, contextDown, thrown>>

(* delete_datawriter or delete_datareader: not tried, confirmed, refused   *)
(* or thrown; writers and rollbacks then keep the listener for good.       *)
MayDelete(e) == dds[e] = "alive" /\ closed[e] /\ (Op("delete") => detached[e])

DeleteEndpoint ==
    /\ (Op("delete") \/ Op("delete plain")) /\ This # Participant
    /\ \/ /\ MayDelete(This)
          /\ dds' = Set(dds, "deleted") /\ attached' = Set(attached, FALSE)
          /\ UNCHANGED <<refused, detached, entityFaults>>
       \/ /\ MayDelete(This) /\ EntityFault
          /\ refused' = Set(refused, TRUE)
          /\ detached' \in {detached, Set(detached, FALSE)}
          /\ UNCHANGED <<dds, attached>>
       \/ ~MayDelete(This) /\ UNCHANGED <<dds, attached, refused, detached, entityFaults>>
    /\ todo' = Tail(todo)
    /\ UNCHANGED <<topic, bound, listener, inside, gateOpen, closed, call, current,
                   contextDown, thrown>>

(* external: deleting the participant deletes what it contains, and waits  *)
(* for the callbacks of listeners that are still attached.                 *)
DeleteContained ==
    /\ \A e \in Objects : attached[e] => ~inside[e]
    /\ dds' = [e \in Objects |-> IF dds[e] = "alive" THEN "deleted" ELSE dds[e]]
    /\ attached' = [e \in Objects |-> FALSE]

RetainParticipant(keepListener) ==
    /\ dds' = Set(dds, "retained")
    /\ listener' = IF keepListener THEN Set(listener, "retained") ELSE listener
    /\ UNCHANGED attached

(* ~Context does not delete below a listener it could not detach; the      *)
(* guard of a failed creation does, and keeps the listener if that fails.  *)
DeleteParticipant ==
    /\ (Op("delete") \/ Op("delete guarded")) /\ This = Participant
    /\ LET guarded == Op("delete guarded")
       IN  \/ /\ detached[This] \/ guarded
              /\ DeleteContained
              /\ UNCHANGED <<listener, refused, entityFaults>>
           \/ /\ detached[This] \/ guarded
              /\ EntityFault /\ refused' = Set(refused, TRUE)
              /\ RetainParticipant(~guarded \/ ~detached[This])
           \/ /\ ~detached[This] /\ ~guarded
              /\ RetainParticipant(TRUE) /\ UNCHANGED <<refused, entityFaults>>
    /\ todo' = Tail(todo)
    /\ UNCHANGED <<topic, bound, inside, gateOpen, detached, closed, call, current,
                   contextDown, thrown>>

Retained(e) == ~detached[e] /\ (dds[e] = "alive" \/ e = Transport)

RetainListener ==
    /\ Op("retain")
    /\ listener' = IF Retained(This) /\ listener[This] = "live"
                   THEN Set(listener, "retained") ELSE listener
    /\ Advance
    /\ UNCHANGED <<dds, topic, bound, attached, inside, gateOpen, detached, closed, refused>>

Unbind ==
    /\ Op("unbind")
    /\ bound' = Set(bound, FALSE)
    /\ Advance
    /\ UNCHANGED <<dds, topic, listener, attached, inside, gateOpen, detached, closed,
                   refused>>

FreeListener ==
    /\ Op("free")
    /\ listener' = IF listener[This] = "live" THEN Set(listener, "freed") ELSE listener
    /\ Advance
    /\ UNCHANGED <<dds, topic, bound, attached, inside, gateOpen, detached, closed, refused>>

DropTopic ==
    /\ Op("release")
    /\ topic' = IF topic[This] = "held" THEN Set(topic, "released") ELSE topic
    /\ Advance
    /\ UNCHANGED <<dds, bound, listener, attached, inside, gateOpen, detached, closed,
                   refused>>
-----------------------------------------------------------------------------
(* The calls.  An entity keeps its Context alive.                          *)
StartContext ==
    /\ call = "start"
    /\ call' = "create" /\ todo' = CreateContext /\ current' = 0
    /\ UNCHANGED <<objectVars, contextDown, thrown, entityFaults>>

(* The next part of the transaction; an action checks once more, at its    *)
(* end, that the Context is not shut down.                                 *)
NextPart ==
    /\ call = "create" /\ ~Running /\ current < Len(Parts)
    /\ current' = current + 1
    /\ todo' = CreatePart(current + 1)
    /\ UNCHANGED <<objectVars, call, contextDown, thrown, entityFaults>>

FinishCreation ==
    /\ call = "create" /\ ~Running /\ current = Len(Parts)
    /\ IF contextDown /\ Len(Parts) > 1
       THEN call' = "undo" /\ todo' = DestroyPart(current)
       ELSE call' = "exposed" /\ UNCHANGED todo
    /\ UNCHANGED <<objectVars, current, contextDown, thrown, entityFaults>>

StartDestruction ==
    /\ call = "exposed"
    /\ call' = "destroy" /\ todo' = DestroyPart(current)
    /\ UNCHANGED <<objectVars, current, contextDown, thrown, entityFaults>>

PartBeforeLost == 0
PartBefore == current - 1

(* The parts before are destroyed in reverse order, then the Context.      *)
ContinueTeardown ==
    /\ call \in {"undo", "destroy"} /\ ~Running
    /\ IF current = 0
       THEN call' = "gone" /\ UNCHANGED <<todo, current>>
       ELSE /\ current' = PartBefore
            /\ todo' = IF PartBefore = 0 THEN DestroyContext ELSE DestroyPart(PartBefore)
            /\ UNCHANGED call
    /\ UNCHANGED <<objectVars, contextDown, thrown, entityFaults>>

ShutdownContext ==
    /\ ~contextDown /\ call \in {"create", "exposed"} /\ current > 0
    /\ contextDown' = TRUE
    /\ UNCHANGED <<objectVars, thrown, todo, call, current, entityFaults>>

(* external: Fast DDS starts no callback while it deletes the participant. *)
DeletingParticipant ==
    /\ Running /\ This = Participant
    /\ Op("delete guarded") \/ (Op("delete") /\ detached[Participant])

CallbackEnters(e) ==
    /\ attached[e] /\ gateOpen[e] /\ ~inside[e] /\ ~DeletingParticipant
    /\ inside' = [inside EXCEPT ![e] = TRUE]
    /\ UNCHANGED <<dds, topic, bound, listener, attached, gateOpen, detached, closed, refused,
                   todo, call, current, contextDown, thrown, entityFaults>>

CallbackLeaves(e) ==
    /\ inside[e]
    /\ inside' = [inside EXCEPT ![e] = FALSE]
    /\ UNCHANGED <<dds, topic, bound, listener, attached, gateOpen, detached, closed, refused,
                   todo, call, current, contextDown, thrown, entityFaults>>

OwnerStep ==
    \/ TakeOperation \/ HoldTopic \/ MakeListener \/ CreateObject \/ AttachListener
    \/ Bind \/ Pass \/ CheckInitialized \/ CreationFails \/ ConstructorThrows \/ ContextFails
    \/ Detach \/ CloseGate \/ Drain \/ CloseWaitState \/ DeleteEndpoint \/ DeleteParticipant
    \/ RetainListener \/ Unbind \/ FreeListener \/ DropTopic
    \/ NextPart \/ FinishCreation \/ ContinueTeardown

EntityNext ==
    \/ StartContext \/ StartDestruction \/ ShutdownContext
    \/ OwnerStep
    \/ \E e \in Objects : CallbackEnters(e) \/ CallbackLeaves(e)

(* A thread inside a call goes on, and a callback returns.                 *)
EntityFairness ==
    /\ WF_entityVars(OwnerStep)
    /\ \A e \in Objects : WF_entityVars(CallbackLeaves(e))

EntitySpec == EntityInit /\ [][EntityNext]_entityVars /\ EntityFairness
-----------------------------------------------------------------------------
(* A listener exists as long as Fast DDS calls it or a callback is in it,  *)
(* whatever Fast DDS refuses during a rollback or a destruction: the rule  *)
(* ProcessLifetime is there for.  The rollback of an Impl whose            *)
(* constructor threw is the exception.                                     *)
ListenerIsThere(e) == attached[e] \/ inside[e] => listener[e] \in {"live", "retained"}
ListenerOutlivesCalls == \A e \in Objects : e[1] \notin thrown => ListenerIsThere(e)

(* The topic of an endpoint is released after the endpoint is deleted,     *)
(* unless Fast DDS refused to let it go, with the same exception.          *)
TopicIsHeld(e) == dds[e] = "alive" /\ ~refused[e] => topic[e] = "held"
TopicOutlivesEndpoint == \A e \in Endpoints : e[1] \notin thrown => TopicIsHeld(e)

(* Both rules without the exception, which the code does not keep: the     *)
(* topics and the listeners were moved into the Impl, and are gone when    *)
(* the catch block deletes the writer and the reader.                      *)
MovedPartsOutliveEndpoint ==
    (\A e \in Objects : ListenerIsThere(e)) /\ (\A e \in Endpoints : TopicIsHeld(e))

(* An entity that is handed to the user is whole: an action has all its    *)
(* endpoints, every one known to the graph and heard by its listener.      *)
ExposedIsWhole ==
    call = "exposed" =>
        \A e \in Endpoints :
            /\ dds[e] = "alive" /\ topic[e] = "held" /\ bound[e]
            /\ HasListener(e) => attached[e] /\ gateOpen[e] /\ listener[e] = "live"

(* A failed creation and a destruction leave nothing behind: every object  *)
(* is deleted, or Fast DDS refused and it went to the participant or to    *)
(* ProcessLifetime.                                                        *)
NothingLeftBehind ==
    call = "gone" =>
        \A e \in Objects :
            /\ topic[e] # "held" /\ ~bound[e] /\ listener[e] # "live"
            /\ dds[e] = "alive" => dds[Participant] = "retained"
            /\ dds[e] # "alive" /\ ~refused[e] => listener[e] # "retained"

(* A creation that fails and a destruction come to an end: the drains wait *)
(* only for callbacks that return.                                         *)
TeardownEnds == []<>(call \notin {"undo", "destroy"})

(* An entity of several parts is whole or gone: every part outlives those  *)
(* that use it, and nothing is left of a creation that failed half way.    *)
EntitiesWhole ==
    /\ ListenerOutlivesCalls
    /\ TopicOutlivesEndpoint
    /\ ExposedIsWhole
    /\ NothingLeftBehind
=============================================================================
