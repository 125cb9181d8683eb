---------------------------- MODULE MCMessaging ----------------------------
(* One run for the parts in which a thread waits for what another thread   *)
(* or participant does: responses, waits for a service, graph metadata,    *)
(* and the topic and type registries.  They share nothing, so a behaviour  *)
(* moves one of them, its subject, and the others stay at their initial    *)
(* state.  The two threads of the server make MaxBoth calls together, and  *)
(* only an infinite wait meets all of MaxEvents.                           *)
EXTENDS Server, ServiceWait, MCGraphMetadata, Registries

(* Registries: one topic under two types, one type under two bindings.     *)
Want(topicName, typeName, b) == [topic |-> topicName, type |-> typeName, binding |-> b]
SomeWants == {Want("k", "x", 1), Want("k", "y", 1), Want("j", "x", 1), Want("j", "x", 2)}
-----------------------------------------------------------------------------
MaxBoth == 3

VARIABLE subject

MessagingInit ==
    /\ subject \in {"server", "services", "metadata", "registries"}
    /\ Init /\ ServiceInit /\ MetadataInit /\ RegInit

MessagingNext ==
    /\ UNCHANGED subject
    /\ \/ /\ subject = "server" /\ Next /\ UNCHANGED <<serviceVars, metaVars, regVars>>
          /\ \A t, u \in Threads : t # u => calls'[t] + calls'[u] <= MaxBoth
       \/ /\ subject = "services" /\ ServiceNext /\ UNCHANGED <<vars, metaVars, regVars>>
          /\ \A w \in Waiters : kind[w] # "infinite" => events' < MaxEvents
       \/ subject = "metadata" /\ MetadataNext /\ UNCHANGED <<vars, serviceVars, regVars>>
       \/ subject = "registries" /\ RegNext /\ UNCHANGED <<vars, serviceVars, metaVars>>

(* The fairness of every part, in the behaviours of which it is the        *)
(* subject.                                                                *)
MessagingFairness ==
    /\ \A t \in Threads : /\ WF_vars(subject = "server" /\ Step(t))
                         /\ WF_vars(subject = "server" /\ Expire(t))
    /\ WF_serviceVars(subject = "services" /\ GraphNotify)
    /\ WF_serviceVars(subject = "services" /\ ShutdownNotify)
    /\ \A p \in Servers, s \in Sides : WF_serviceVars(subject = "services" /\ Settle(p, s))
    /\ \A w \in Waiters : WF_serviceVars(subject = "services" /\ WaiterStep(w))
    /\ \A t \in Workers :
         WF_metaVars(subject = "metadata" /\ (Publishing(t) \/ Ingesting(t)))
    /\ \A q \in Peers : /\ WF_metaVars(subject = "metadata" /\ ListenerReturns(q))
                       /\ WF_metaVars(subject = "metadata" /\ Asks(q))
                       /\ WF_metaVars(subject = "metadata" /\ Receives(q))
                       /\ WF_metaVars(subject = "metadata" /\ Discovery(q))
    /\ \A t \in RegThreads : WF_regVars(subject = "registries" /\ RegStep(t))

MessagingSpec ==
    /\ MessagingInit
    /\ [][MessagingNext]_<<subject, vars, serviceVars, metaVars, regVars>>
    /\ MessagingFairness

-----------------------------------------------------------------------------
(* Nobody misses what is due to it: a server with room in its table hears  *)
(* its next request, a wait for a service sleeps on nothing it has to      *)
(* notice, and a late joiner is offered the current metadata.              *)
NothingMissed ==
    /\ RoomEnables
    /\ ServiceTypeOK /\ SleepMissesNothing
    /\ MetadataTypeOK /\ OfferedIsCurrent
=============================================================================
