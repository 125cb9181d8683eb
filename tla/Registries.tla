----------------------------- MODULE Registries -----------------------------
(***************************************************************************)
(* The type and topic registries of a Context (dmw/src/impl/               *)
(* context_impl.cpp, topic.hpp).  Endpoints share one DDS registration per *)
(* type and one DDS topic per name.  The calls into Fast DDS run outside   *)
(* the registry mutexes, under a phase mark that makes other threads wait  *)
(* on a condition variable; an outcome that cannot be determined leaves    *)
(* the entry Orphaned.                                                     *)
(*                                                                         *)
(* Each thread creates and destroys endpoints.  A step is one critical     *)
(* section or one Fast DDS call.  Setting a phase and the notify_all that  *)
(* follows it are one step: a thread that reads the new phase before the   *)
(* notification does not wait for it.                                      *)
(***************************************************************************)
EXTENDS Integers, FiniteSets

CONSTANTS
    RegThreads,   \* threads that create and destroy endpoints
    Wants,        \* what they ask for: [topic, type, binding]
    NoTopic,      \* "holds no topic" of the abstract specification
    MaxRounds,    \* bound on the endpoints one thread creates
    MaxRegFaults  \* bound on the Fast DDS calls that throw or fail to undo

ASSUME RegistryAssumption ==
    /\ IsFiniteSet(RegThreads) /\ Wants # {}
    /\ MaxRounds \in Nat /\ MaxRegFaults \in Nat
    /\ NoTopic \notin {w.topic : w \in Wants}

VARIABLES
    types,      \* registered_types_: type -> [phase, refs, binding]
    topics,     \* topics_: topic -> [phase, refs, type]
    at,         \* where each thread is
    want,       \* what each thread is creating or holding
    hasType,    \* the thread's TypeRegistration is armed
    ddsTypes,   \* external: types the participant has registered
    ddsTopics,  \* external: topics the participant may hold, with their type
    retained,   \* type -> references kept for topics of unknown state
    rounds, regFaults

regVars == <<types, topics, at, want, hasType, ddsTypes, ddsTopics, retained,
             rounds, regFaults>>

TypeNames == {w.type : w \in Wants}
TopicNames == {w.topic : w \in Wants}

typeState(n) == types[n].phase
topicState(k) == topics[k].phase
Held(t) == at[t] = "holding"

\* Who uses a topic and a type: the Topic objects, the armed registrations.
TopicUsers(k) == {t \in RegThreads : Held(t) /\ want[t].topic = k}
TypeUsers(n) == {t \in RegThreads : hasType[t] /\ want[t].type = n}

\* One more user, the last user, an entry that may be created anew, and a
\* topic entry of the wire type that the caller asks for.
AddRef(refs) == refs + 1
LastUser(entry) == entry.refs = 1 /\ entry.phase = "Active"
CreatableAgain(entry) == entry.phase \in {"Absent", "Orphaned"}
Creatable(entry) == entry.phase = "Absent"
WireTypeFits(entry, w) == entry.type = w.type

-----------------------------------------------------------------------------
RegInit ==
    /\ types = [n \in TypeNames |-> [phase |-> "Absent", refs |-> 0, binding |-> 0]]
    /\ topics = [k \in TopicNames |-> [phase |-> "Absent", refs |-> 0, type |-> ""]]
    /\ at = [t \in RegThreads |-> "idle"]
    /\ want \in [RegThreads -> {CHOOSE w \in Wants : TRUE}]
    /\ hasType = [t \in RegThreads |-> FALSE]
    /\ ddsTypes = {} /\ ddsTopics = {}
    /\ retained = [n \in TypeNames |-> 0]
    /\ rounds = [t \in RegThreads |-> 0]
    /\ regFaults = 0

RegGoto(t, place) == at' = [at EXCEPT ![t] = place]

\* notify_all on the registry's condition variable: its sleepers look again.
WakeNone(from, to, t, place) == at' = [at EXCEPT ![t] = place]
WakeAll(from, to, t, place) ==
    at' = [s \in RegThreads |-> IF s = t THEN place
                             ELSE IF at[s] = from THEN to ELSE at[s]]
WakeTypes(t, place) == WakeAll("typeSleep", "acquireType", t, place)
WakeTopics(t, place) == WakeAll("topicSleep", "acquireTopic", t, place)

\* A fault costs one of the bounded Fast DDS faults.
RegFault == regFaults < MaxRegFaults /\ regFaults' = regFaults + 1

BeginCreate(t) ==
    /\ at[t] = "idle" /\ rounds[t] < MaxRounds
    /\ \E w \in Wants : want' = [want EXCEPT ![t] = w]
    /\ rounds' = [rounds EXCEPT ![t] = @ + 1]
    /\ RegGoto(t, "acquireType")
    /\ UNCHANGED <<types, topics, hasType, ddsTypes, ddsTopics, retained, regFaults>>

\* acquire_type, one turn of its loop under type_registry_mutex_.
AcquireType(t) ==
    LET n == want[t].type
        entry == types[n]
    IN  /\ at[t] = "acquireType"
        /\ \/ /\ Creatable(entry)
              /\ types' = [types EXCEPT ![n] = [phase |-> "Creating", refs |-> 0,
                                                binding |-> want[t].binding]]
              /\ RegGoto(t, "registerType") /\ UNCHANGED hasType
           \/ /\ ~Creatable(entry) /\ entry.binding # want[t].binding
              /\ RegGoto(t, "idle") /\ UNCHANGED <<types, hasType>>
           \/ /\ entry.phase = "Active" /\ entry.binding = want[t].binding
              /\ types' = [types EXCEPT ![n].refs = AddRef(@)]
              /\ hasType' = [hasType EXCEPT ![t] = TRUE]
              /\ RegGoto(t, "acquireTopic")
           \/ /\ entry.phase = "Orphaned" /\ entry.binding = want[t].binding
              /\ RegGoto(t, "idle") /\ UNCHANGED <<types, hasType>>
           \/ /\ entry.phase \in {"Creating", "Retiring"}
              /\ entry.binding = want[t].binding
              /\ RegGoto(t, "typeSleep") /\ UNCHANGED <<types, hasType>>
        /\ UNCHANGED <<topics, want, ddsTypes, ddsTopics, retained, rounds, regFaults>>

\* register_type: it succeeds, refuses, or throws with an unknown effect.
RegisterType(t) ==
    LET n == want[t].type
    IN  /\ at[t] = "registerType"
        /\ \/ /\ types' = [types EXCEPT ![n].phase = "Active", ![n].refs = 1]
              /\ ddsTypes' = ddsTypes \cup {n}
              /\ hasType' = [hasType EXCEPT ![t] = TRUE]
              /\ WakeTypes(t, "acquireTopic") /\ UNCHANGED regFaults
           \/ /\ types' = [types EXCEPT ![n].phase = "Absent"]
              /\ WakeTypes(t, "idle") /\ RegFault
              /\ UNCHANGED <<ddsTypes, hasType>>
           \/ /\ types' = [types EXCEPT ![n].phase = "Orphaned"]
              /\ ddsTypes' \in {ddsTypes, ddsTypes \cup {n}}
              /\ WakeTypes(t, "idle") /\ RegFault
              /\ UNCHANGED hasType
        /\ UNCHANGED <<topics, want, ddsTopics, retained, rounds>>

\* acquire_topic after the type, one turn of its loop.  A failure destroys
\* the TypeRegistration, which releases the type.
AcquireTopic(t) ==
    LET k == want[t].topic
        entry == topics[k]
    IN  /\ at[t] = "acquireTopic"
        /\ \/ /\ Creatable(entry)
              /\ topics' = [topics EXCEPT ![k] = [phase |-> "Creating", refs |-> 0,
                                                  type |-> want[t].type]]
              /\ RegGoto(t, "createTopic")
           \/ /\ ~Creatable(entry) /\ ~WireTypeFits(entry, want[t])
              /\ RegGoto(t, "releaseType") /\ UNCHANGED topics
           \/ /\ entry.phase = "Active" /\ WireTypeFits(entry, want[t])
              /\ topics' = [topics EXCEPT ![k].refs = AddRef(@)]
              /\ RegGoto(t, "holding")
           \/ /\ entry.phase = "Orphaned" /\ WireTypeFits(entry, want[t])
              /\ RegGoto(t, "releaseType") /\ UNCHANGED topics
           \/ /\ entry.phase \in {"Creating", "Retiring"} /\ WireTypeFits(entry, want[t])
              /\ RegGoto(t, "topicSleep") /\ UNCHANGED topics
        /\ UNCHANGED <<types, want, hasType, ddsTypes, ddsTopics, retained, rounds, regFaults>>

\* TypeRegistration::disarm: the registry reference stays for good.
DisarmForgets(t) == /\ hasType' = hasType /\ UNCHANGED retained
Disarm(t) == /\ hasType' = [hasType EXCEPT ![t] = FALSE]
             /\ retained' = [retained EXCEPT ![want[t].type] = @ + 1]

\* create_topic: it succeeds, returns null, or throws with an unknown effect.
CreateTopic(t) ==
    LET k == want[t].topic
        asDds == [topic |-> k, type |-> want[t].type]
    IN  /\ at[t] = "createTopic"
        /\ \/ /\ topics' = [topics EXCEPT ![k].phase = "Active", ![k].refs = 1]
              /\ ddsTopics' = ddsTopics \cup {asDds}
              /\ WakeTopics(t, "holding")
              /\ UNCHANGED <<hasType, retained, regFaults>>
           \/ /\ topics' = [topics EXCEPT ![k].phase = "Absent"]
              /\ WakeTopics(t, "releaseType") /\ RegFault
              /\ UNCHANGED <<hasType, retained, ddsTopics>>
           \/ /\ topics' = [topics EXCEPT ![k].phase = "Orphaned"]
              /\ ddsTopics' \in {ddsTopics, ddsTopics \cup {asDds}}
              /\ Disarm(t)
              /\ WakeTopics(t, "releaseType") /\ RegFault
        /\ UNCHANGED <<types, want, ddsTypes, rounds>>

\* release_topic, the part under the mutex; Topic::reset goes on with the
\* type when other endpoints still use the topic.
ReleaseTopic(t) ==
    LET k == want[t].topic
    IN  /\ Held(t)
        /\ IF LastUser(topics[k])
           THEN /\ topics' = [topics EXCEPT ![k].refs = @ - 1, ![k].phase = "Retiring"]
                /\ RegGoto(t, "deleteTopic")
           ELSE /\ topics' = [topics EXCEPT ![k].refs = @ - 1]
                /\ RegGoto(t, "releaseType")
        /\ UNCHANGED <<types, want, hasType, ddsTypes, ddsTopics, retained, rounds, regFaults>>

\* delete_topic and what release_topic and Topic::reset make of its outcome.
DeleteTopic(t) ==
    LET k == want[t].topic
    IN  /\ at[t] = "deleteTopic"
        /\ \/ /\ topics' = [topics EXCEPT ![k] = [phase |-> "Absent", refs |-> 0,
                                                  type |-> ""]]
              /\ ddsTopics' = {d \in ddsTopics : d.topic # k}
              /\ WakeTopics(t, "releaseType")
              /\ UNCHANGED <<hasType, retained, regFaults>>
           \/ /\ topics' = [topics EXCEPT ![k].phase = "Orphaned"]
              /\ Disarm(t)
              /\ WakeTopics(t, "releaseType") /\ RegFault
              /\ UNCHANGED ddsTopics
        /\ UNCHANGED <<types, want, ddsTypes, rounds>>

\* TypeRegistration::reset and the first half of release_type.
ReleaseType(t) ==
    LET n == want[t].type
    IN  /\ at[t] = "releaseType"
        /\ hasType' = [hasType EXCEPT ![t] = FALSE]
        /\ \/ /\ ~hasType[t]
              /\ RegGoto(t, "idle") /\ UNCHANGED types
           \/ /\ hasType[t] /\ LastUser(types[n])
              /\ types' = [types EXCEPT ![n].refs = 0, ![n].phase = "Retiring"]
              /\ RegGoto(t, "unregisterType")
           \/ /\ hasType[t] /\ ~LastUser(types[n])
              /\ types' = [types EXCEPT ![n].refs = @ - 1]
              /\ RegGoto(t, "idle")
        /\ UNCHANGED <<topics, want, ddsTypes, ddsTopics, retained, rounds, regFaults>>

\* unregister_type and the second half of release_type.
UnregisterType(t) ==
    LET n == want[t].type
    IN  /\ at[t] = "unregisterType"
        /\ \/ /\ types' = [types EXCEPT ![n] = [phase |-> "Absent", refs |-> 0,
                                                binding |-> 0]]
              /\ ddsTypes' = ddsTypes \ {n}
              /\ UNCHANGED regFaults
           \/ /\ types' = [types EXCEPT ![n].phase = "Orphaned"]
              /\ RegFault /\ UNCHANGED ddsTypes
        /\ WakeTypes(t, "idle")
        /\ UNCHANGED <<topics, want, hasType, ddsTopics, retained, rounds>>

RegStep(t) == \/ AcquireType(t) \/ RegisterType(t) \/ AcquireTopic(t)
              \/ CreateTopic(t) \/ ReleaseTopic(t) \/ DeleteTopic(t)
              \/ ReleaseType(t) \/ UnregisterType(t)

RegNext == \E t \in RegThreads : BeginCreate(t) \/ RegStep(t)

RegFairness == \A t \in RegThreads : WF_regVars(RegStep(t))

RegSpec == RegInit /\ [][RegNext]_regVars /\ RegFairness

-----------------------------------------------------------------------------
(* Properties *)

Phases == {"Absent", "Creating", "Active", "Retiring", "Orphaned"}

\* Phases and counts, and an entry counts users exactly while it is Active.
RegTypeOK ==
    /\ \A n \in TypeNames : types[n].phase \in Phases /\ types[n].refs \in Nat
    /\ \A k \in TopicNames : topics[k].phase \in Phases /\ topics[k].refs \in Nat
    /\ \A n \in TypeNames : typeState(n) = "Active" <=> types[n].refs # 0
    /\ \A k \in TopicNames : topicState(k) = "Active" <=> topics[k].refs # 0
    /\ want \in [RegThreads -> Wants]
    /\ hasType \in [RegThreads -> BOOLEAN]
    /\ rounds \in [RegThreads -> 0..MaxRounds] /\ regFaults \in 0..MaxRegFaults

\* A DDS topic never loses its type support: while the participant may hold
\* a topic, in use or of unknown state, its type stays registered.
TypeOutlivesTopic == \A d \in ddsTopics : d.type \in ddsTypes

\* The reference counts say who still needs an entry: an Active topic is
\* counted once per thread holding it, an Active type once per armed
\* registration and once per reference retained for an orphaned topic, so
\* an entry is retired exactly when its last user goes.
CountsMatchUsers ==
    /\ \A k \in TopicNames : topicState(k) = "Active" =>
          topics[k].refs = Cardinality(TopicUsers(k))
    /\ \A n \in TypeNames : typeState(n) = "Active" =>
          types[n].refs = retained[n] + Cardinality(TypeUsers(n))

\* A thread that was given a topic has one that exists, of its own type,
\* whatever other threads acquire and release meanwhile.
HeldTopicExists ==
    \A t \in RegThreads : Held(t) =>
        /\ topicState(want[t].topic) = "Active"
        /\ [topic |-> want[t].topic, type |-> want[t].type] \in ddsTopics
        /\ types[want[t].type].binding = want[t].binding

\* Nobody waits for ever for another thread's Fast DDS call: a thread that
\* sleeps on a registry entry, or takes part in creating or deleting one, is
\* again and again out of its call, with a topic, without, or with an error.
RegistryWaitEnds == \A t \in RegThreads : []<>(at[t] \in {"idle", "holding"})

\* The registries implement TopicSharing.
Sharing == INSTANCE TopicSharing WITH
    Holders <- RegThreads, SharedTopics <- TopicNames, Nothing <- NoTopic,
    held <- [t \in RegThreads |-> IF Held(t) THEN want[t].topic ELSE NoTopic],
    lost <- {k \in TopicNames : topicState(k) = "Orphaned"}

\* Two critical sections and an unlocked Fast DDS call at each end look to
\* every endpoint like one atomic acquisition and one atomic release.
ImplementsSharing == Sharing!SharingSpec

\* The registries agree with the participant and with their users: no topic
\* without its type support, no user without a topic, no reference without a
\* user, whichever create, delete, register or unregister fails.
RegistriesConsistent ==
    /\ RegTypeOK
    /\ TypeOutlivesTopic
    /\ CountsMatchUsers
    /\ HeldTopicExists
=============================================================================
