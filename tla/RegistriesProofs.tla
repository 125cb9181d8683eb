-------------------------- MODULE RegistriesProofs --------------------------
(***************************************************************************)
(* Proofs about Registries for every set of threads, every set of topics,  *)
(* types and bindings they ask for, and any number of failing Fast DDS     *)
(* calls: the registries agree with the participant and with their users,  *)
(* and they implement TopicSharing.                                        *)
(*                                                                         *)
(* The inductive invariant has a half for each registry.  A step on one of *)
(* them leaves the other half alone (TypesUntouched, TopicsUntouched); the *)
(* halves meet in Armed and Kept: who uses a topic is armed for its type,  *)
(* or has left a reference behind.                                         *)
(***************************************************************************)
EXTENDS Registries, FiniteSetTheorems, TLAPS

\* Where a thread is at a Fast DDS call that a phase mark protects, and where
\* it must or must not have an armed registration of its type.
TypeCalls == {"registerType", "unregisterType"}
TopicCalls == {"createTopic", "deleteTopic"}
ArmedPlaces == {"acquireTopic", "topicSleep", "createTopic", "holding", "deleteTopic"}
UnarmedPlaces == {"idle", "acquireType", "typeSleep", "registerType", "unregisterType"}
Places == ArmedPlaces \union UnarmedPlaces \union {"releaseType"}

Bindings == {w.binding : w \in Wants}
TypeEntries == [phase : Phases, refs : Nat, binding : {0} \union Bindings]
TopicEntries == [phase : Phases, refs : Nat, type : {""} \union TypeNames]

ThreadShape ==
    /\ at \in [RegThreads -> Places] /\ want \in [RegThreads -> Wants]
    /\ rounds \in [RegThreads -> 0..MaxRounds] /\ regFaults \in 0..MaxRegFaults
-----------------------------------------------------------------------------
(* The type registry *)
TypeShape ==
    /\ types \in [TypeNames -> TypeEntries] /\ hasType \in [RegThreads -> BOOLEAN]
    /\ retained \in [TypeNames -> Nat]
    /\ \A n \in TypeNames : typeState(n) = "Active" <=> types[n].refs # 0

\* A phase mark is set and cleared by the one thread at the call it protects.
TypeMarks ==
    /\ \A t \in RegThreads : at[t] = "registerType" =>
          typeState(want[t].type) = "Creating" /\ types[want[t].type].binding = want[t].binding
    /\ \A t \in RegThreads : at[t] = "unregisterType" => typeState(want[t].type) = "Retiring"
    /\ \A s, t \in RegThreads : s # t /\ at[s] \in TypeCalls /\ at[t] \in TypeCalls =>
          want[s].type # want[t].type

\* An armed registration keeps its type Active, with the binding asked for.
Armed ==
    \A t \in RegThreads :
        /\ at[t] \in ArmedPlaces => hasType[t]
        /\ at[t] \in UnarmedPlaces => ~hasType[t]
        /\ hasType[t] => /\ typeState(want[t].type) = "Active"
                         /\ types[want[t].type].binding = want[t].binding

\* An Active type is registered, and a retained reference keeps it Active.
TypeKept ==
    \A n \in TypeNames : /\ typeState(n) = "Active" => n \in ddsTypes
                         /\ retained[n] # 0 => typeState(n) = "Active"

TypeCounts ==
    \A n \in TypeNames : typeState(n) = "Active" =>
        types[n].refs = retained[n] + Cardinality(TypeUsers(n))

TypeInv == TypeShape /\ TypeMarks /\ Armed /\ TypeKept /\ TypeCounts
-----------------------------------------------------------------------------
(* The topic registry *)
TopicShape ==
    /\ topics \in [TopicNames -> TopicEntries]
    /\ \A k \in TopicNames : topicState(k) = "Active" <=> topics[k].refs # 0

TopicMarks ==
    /\ \A t \in RegThreads : at[t] = "createTopic" =>
          topicState(want[t].topic) = "Creating" /\ topics[want[t].topic].type = want[t].type
    /\ \A t \in RegThreads : at[t] = "deleteTopic" =>
          topicState(want[t].topic) = "Retiring" /\ topics[want[t].topic].type = want[t].type
    /\ \A s, t \in RegThreads : s # t /\ at[s] \in TopicCalls /\ at[t] \in TopicCalls =>
          want[s].topic # want[t].topic
    /\ \A k \in TopicNames : topicState(k) = "Retiring" =>
          \E t \in RegThreads : at[t] = "deleteTopic" /\ want[t].topic = k

\* A held topic is Active and is the one that was asked for.
Holding ==
    \A t \in RegThreads : Held(t) =>
        /\ topicState(want[t].topic) = "Active" /\ topics[want[t].topic].type = want[t].type
        /\ [topic |-> want[t].topic, type |-> want[t].type] \in ddsTopics

\* The participant holds no topic the registry forgot, and an orphaned topic
\* has left a reference on its type behind.
TopicKept ==
    /\ \A d \in ddsTopics : /\ d.topic \in TopicNames
                            /\ topicState(d.topic) \in {"Active", "Retiring", "Orphaned"}
                            /\ topics[d.topic].type = d.type /\ d.type \in TypeNames
    /\ \A k \in TopicNames : topicState(k) = "Orphaned" =>
          topics[k].type \in TypeNames /\ retained[topics[k].type] # 0

TopicCounts ==
    \A k \in TopicNames : topicState(k) = "Active" =>
        topics[k].refs = Cardinality(TopicUsers(k))

TopicInv == TopicShape /\ TopicMarks /\ Holding /\ TopicKept /\ TopicCounts

IInv == ThreadShape /\ TypeInv /\ TopicInv
-----------------------------------------------------------------------------
\* The users of an entry can be counted.
LEMMA UsersFinite ==
  /\ \A k : IsFiniteSet(TopicUsers(k)) /\ Cardinality(TopicUsers(k)) \in Nat
  /\ \A n : IsFiniteSet(TypeUsers(n)) /\ Cardinality(TypeUsers(n)) \in Nat
  <1>1. \A S \in SUBSET RegThreads : IsFiniteSet(S) /\ Cardinality(S) \in Nat
    BY RegistryAssumption, FS_Subset, FS_CardinalityType
  <1>2. QED
    BY <1>1 DEF TopicUsers, TypeUsers

\* One user less is counted one less.
LEMMA OneLeaves ==
  ASSUME NEW S, NEW t \in S, IsFiniteSet(S)
  PROVE  Cardinality(S \ {t}) = Cardinality(S) - 1
  <1>1. Cardinality(S \ {t}) = IF t \in S THEN Cardinality(S) - 1 ELSE Cardinality(S)
    BY FS_RemoveElement, Zenon
  <1>2. QED
    BY <1>1

\* What a thread wants is one of Wants, in the tables under its names.
LEMMA WantTyped ==
  ASSUME ThreadShape, NEW t \in RegThreads
  PROVE  /\ want[t] \in Wants /\ want[t].type \in TypeNames /\ want[t].topic \in TopicNames
         /\ want[t].binding \in Bindings
  BY DEF ThreadShape, TypeNames, TopicNames, Bindings

\* A count of one means that the thread at hand is the last user.
LEMMA LastTopicUser ==
  ASSUME ThreadShape, TopicInv, NEW t \in RegThreads, Held(t),
         topics[want[t].topic].refs = 1
  PROVE  TopicUsers(want[t].topic) = {t}
  <1> DEFINE k == want[t].topic
  <1>1. k \in TopicNames /\ topicState(k) = "Active"
    BY WantTyped DEF TopicInv, Holding
  <1>2. Cardinality(TopicUsers(k)) = 1
    BY <1>1 DEF TopicInv, TopicCounts
  <1>3. \E x : TopicUsers(k) = {x}
    BY <1>2, UsersFinite, FS_Singleton
  <1>4. t \in TopicUsers(k)
    BY DEF TopicUsers
  <1>5. QED
    BY <1>3, <1>4

LEMMA LastTypeUser ==
  ASSUME ThreadShape, TypeInv, NEW t \in RegThreads, hasType[t],
         types[want[t].type].refs = 1
  PROVE  TypeUsers(want[t].type) = {t} /\ retained[want[t].type] = 0
  <1> DEFINE n == want[t].type
  <1>1. n \in TypeNames /\ typeState(n) = "Active"
    BY WantTyped DEF TypeInv, Armed
  <1>2. t \in TypeUsers(n)
    BY DEF TypeUsers
  <1>3. Cardinality(TypeUsers(n)) \in Nat \ {0}
    BY <1>2, UsersFinite, FS_EmptySet
  <1>4. retained[n] \in Nat /\ 1 = retained[n] + Cardinality(TypeUsers(n))
    BY <1>1 DEF TypeInv, TypeCounts, TypeShape
  <1>5. Cardinality(TypeUsers(n)) = 1 /\ retained[n] = 0
    BY <1>3, <1>4
  <1>6. \E x : TypeUsers(n) = {x}
    BY <1>5, UsersFinite, FS_Singleton
  <1>7. QED
    BY <1>2, <1>5, <1>6

\* A step that concerns one topic has to account for the users of that one.
LEMMA TopicRecounted ==
  ASSUME TopicCounts, NEW k \in TopicNames,
         \A m \in TopicNames \ {k} : TopicUsers(m)' = TopicUsers(m) /\ topics'[m] = topics[m],
         topicState(k)' = "Active" => topics'[k].refs = Cardinality(TopicUsers(k)')
  PROVE  TopicCounts'
  <1>1. SUFFICES ASSUME NEW m \in TopicNames, topics'[m].phase = "Active"
                 PROVE  topics'[m].refs = Cardinality(TopicUsers(m)')
    BY DEF TopicCounts, topicState
  <1>2. CASE m = k
    BY <1>1, <1>2 DEF topicState
  <1>3. CASE m # k
    BY <1>1, <1>3 DEF TopicCounts, topicState
  <1>4. QED
    BY <1>2, <1>3

\* A step that changes no entry, no registration and no reference, and whose
\* threads stay where their registration allows, keeps the type half.
LEMMA TypesUntouched ==
  ASSUME TypeInv, UNCHANGED <<types, want, hasType, ddsTypes, retained>>,
         \A s \in RegThreads : /\ at'[s] \in TypeCalls => at'[s] = at[s]
                               /\ at'[s] \in ArmedPlaces => hasType[s]
                               /\ at'[s] \in UnarmedPlaces => ~hasType[s]
  PROVE  TypeInv'
  <1>1. TypeShape' /\ TypeKept'
    BY DEF TypeInv, TypeShape, TypeKept, typeState
  <1>2. TypeMarks'
    BY DEF TypeInv, TypeMarks, TypeCalls, typeState
  <1>3. Armed'
    BY DEF TypeInv, Armed, typeState
  <1>4. TypeCounts'
    BY DEF TypeInv, TypeCounts, TypeUsers, typeState
  <1>5. QED
    BY <1>1, <1>2, <1>3, <1>4 DEF TypeInv

\* A step that changes no entry and moves no thread to or from a topic keeps
\* the topic half.
LEMMA TopicsUntouched ==
  ASSUME TopicInv, UNCHANGED <<topics, ddsTopics, retained>>,
         \A s \in RegThreads :
            /\ \A p \in TopicCalls \union {"holding"} : at'[s] = p <=> at[s] = p
            /\ at[s] \in TopicCalls \union {"holding"} => want'[s] = want[s]
  PROVE  TopicInv'
  <1>1. TopicShape' /\ TopicKept'
    BY DEF TopicInv, TopicShape, TopicKept, topicState
  <1>2. TopicMarks'
    BY DEF TopicInv, TopicMarks, TopicCalls, topicState
  <1>3. Holding'
    BY DEF TopicInv, Holding, Held, topicState
  <1>4. TopicCounts'
    <2>1. \A k : TopicUsers(k)' = TopicUsers(k)
      BY DEF TopicUsers, Held
    <2>2. QED
      BY <2>1 DEF TopicInv, TopicCounts, topicState
  <1>5. QED
    BY <1>1, <1>2, <1>3, <1>4 DEF TopicInv
-----------------------------------------------------------------------------
\* The registries of a new Context are empty and no thread uses them.
LEMMA InitInv == RegInit => IInv
  <1> SUFFICES ASSUME RegInit PROVE IInv
    OBVIOUS
  <1>1. (CHOOSE w \in Wants : TRUE) \in Wants
    BY RegistryAssumption
  <1>2. want \in [RegThreads -> Wants]
    BY <1>1 DEF RegInit
  <1>3. 0 \in 0..MaxRounds /\ 0 \in 0..MaxRegFaults
    BY RegistryAssumption
  <1>4. ThreadShape
    BY <1>2, <1>3 DEF RegInit, ThreadShape, Places, UnarmedPlaces
  <1>5. TypeInv
    BY DEF RegInit, TypeInv, TypeShape, TypeMarks, Armed, TypeKept, TypeCounts, TypeEntries,
       Phases, TypeCalls, ArmedPlaces, typeState
  <1>6. TopicInv
    BY DEF RegInit, TopicInv, TopicShape, TopicMarks, Holding, TopicKept, TopicCounts,
       TopicEntries, Phases, TopicCalls, Held, topicState
  <1>7. QED
    BY <1>4, <1>5, <1>6 DEF IInv

LEMMA BeginCreateInv ==
  ASSUME IInv, NEW t \in RegThreads, BeginCreate(t)
  PROVE  IInv'
  <1>1. PICK w \in Wants : want' = [want EXCEPT ![t] = w]
    BY DEF BeginCreate
  <1>2. /\ at[t] = "idle" /\ at' = [at EXCEPT ![t] = "acquireType"] /\ ~hasType[t]
        /\ UNCHANGED <<types, topics, hasType, ddsTypes, ddsTopics, retained, regFaults>>
        /\ rounds[t] < MaxRounds /\ rounds' = [rounds EXCEPT ![t] = @ + 1]
    BY DEF BeginCreate, RegGoto, IInv, TypeInv, Armed, UnarmedPlaces
  <1>3. ThreadShape'
    BY <1>1, <1>2, RegistryAssumption DEF IInv, ThreadShape, Places, UnarmedPlaces
  <1>4. TypeInv'
    <2>1. TypeShape' /\ TypeKept'
      BY <1>2 DEF IInv, TypeInv, TypeShape, TypeKept, typeState
    <2>2. TypeMarks'
      BY <1>1, <1>2 DEF IInv, ThreadShape, TypeInv, TypeMarks, TypeCalls, typeState
    <2>3. Armed'
      BY <1>1, <1>2 DEF IInv, ThreadShape, TypeInv, Armed, ArmedPlaces, typeState
    <2>4. \A n : TypeUsers(n)' = TypeUsers(n)
      BY <1>1, <1>2 DEF TypeUsers, IInv, ThreadShape
    <2>5. TypeCounts'
      BY <1>2, <2>4 DEF IInv, TypeInv, TypeCounts, typeState
    <2>6. QED
      BY <2>1, <2>2, <2>3, <2>5 DEF TypeInv
  <1>5. TopicInv'
    BY <1>1, <1>2, TopicsUntouched DEF IInv, ThreadShape, TopicCalls
  <1>6. QED
    BY <1>3, <1>4, <1>5 DEF IInv
-----------------------------------------------------------------------------
(* The steps on the type registry *)

\* notify_all moves a sleeper to the next turn of its loop and nobody else.
LEMMA TypesWoken ==
  ASSUME ThreadShape, NEW t \in RegThreads, NEW place \in Places, WakeTypes(t, place)
  PROVE  /\ at' \in [RegThreads -> Places] /\ at'[t] = place
         /\ \A s \in RegThreads \ {t} :
               at'[s] = at[s] \/ (at[s] = "typeSleep" /\ at'[s] = "acquireType")
  BY DEF ThreadShape, WakeTypes, WakeAll, Places, UnarmedPlaces

LEMMA AcquireTypeInv ==
  ASSUME IInv, NEW t \in RegThreads, AcquireType(t)
  PROVE  IInv'
  <1> DEFINE n == want[t].type
  <1>1. /\ at[t] = "acquireType" /\ ~hasType[t]
        /\ UNCHANGED <<topics, want, ddsTypes, ddsTopics, retained, rounds, regFaults>>
        /\ n \in TypeNames /\ want[t].binding \in Bindings
    BY WantTyped DEF AcquireType, IInv, TypeInv, Armed, UnarmedPlaces
  <1>2. PICK place \in {"registerType", "idle", "acquireTopic", "typeSleep"} :
          at' = [at EXCEPT ![t] = place]
    BY DEF AcquireType, RegGoto
  <1>3. ThreadShape'
    BY <1>1, <1>2 DEF IInv, ThreadShape, Places, UnarmedPlaces, ArmedPlaces
  <1>4. TopicInv'
    BY <1>1, <1>2, TopicsUntouched DEF IInv, ThreadShape, TopicCalls
  <1>5. TypeInv'
    <2>1. CASE /\ typeState(n) = "Absent" /\ UNCHANGED hasType /\ at'[t] = "registerType"
               /\ types' = [types EXCEPT ![n] = [phase |-> "Creating", refs |-> 0,
                                                 binding |-> want[t].binding]]
      <3>1. TypeShape'
        BY <1>1, <2>1 DEF IInv, TypeInv, TypeShape, TypeEntries, Phases, typeState
      <3>2. TypeMarks'
        BY <1>1, <1>2, <2>1 DEF IInv, ThreadShape, TypeInv, TypeShape, TypeMarks, TypeCalls,
           typeState
      <3>3. Armed'
        BY <1>1, <1>2, <2>1 DEF IInv, ThreadShape, TypeInv, TypeShape, Armed, ArmedPlaces,
           typeState
      <3>4. TypeKept'
        BY <1>1, <2>1 DEF IInv, TypeInv, TypeShape, TypeKept, typeState
      <3>5. TypeCounts'
        BY <1>1, <2>1 DEF IInv, TypeInv, TypeShape, TypeCounts, TypeUsers, typeState
      <3>6. QED
        BY <3>1, <3>2, <3>3, <3>4, <3>5 DEF TypeInv
    <2>2. CASE /\ typeState(n) = "Active" /\ types[n].binding = want[t].binding
               /\ types' = [types EXCEPT ![n].refs = @ + 1]
               /\ hasType' = [hasType EXCEPT ![t] = TRUE] /\ at'[t] = "acquireTopic"
      <3>1. /\ types[n].refs \in Nat
            /\ types' = [types EXCEPT ![n] = [phase |-> "Active", refs |-> types[n].refs + 1,
                                              binding |-> want[t].binding]]
        <4>1. types[n] \in TypeEntries
          BY <1>1 DEF IInv, TypeInv, TypeShape
        <4>2. [types[n] EXCEPT !.refs = @ + 1] =
                [phase |-> "Active", refs |-> types[n].refs + 1, binding |-> want[t].binding]
          BY <2>2, <4>1 DEF TypeEntries, typeState
        <4>3. QED
          BY <2>2, <4>1, <4>2 DEF TypeEntries
      <3>2. TypeShape'
        BY <1>1, <2>2, <3>1 DEF IInv, TypeInv, TypeShape, TypeEntries, Phases, typeState
      <3>3. TypeMarks'
        BY <1>1, <1>2, <2>2, <3>1 DEF IInv, ThreadShape, TypeInv, TypeShape, TypeMarks,
           TypeCalls, typeState
      <3>4. Armed'
        BY <1>1, <1>2, <2>2, <3>1 DEF IInv, ThreadShape, TypeInv, TypeShape, Armed,
           UnarmedPlaces, typeState
      <3>5. TypeKept'
        BY <1>1, <2>2, <3>1 DEF IInv, TypeInv, TypeShape, TypeKept, typeState
      <3>6. TypeCounts'
        <4>1. TypeUsers(n)' = TypeUsers(n) \union {t} /\ t \notin TypeUsers(n)
          BY <1>1, <2>2 DEF TypeUsers, IInv, TypeInv, TypeShape
        <4>2. Cardinality(TypeUsers(n)') = Cardinality(TypeUsers(n)) + 1
          BY <4>1, UsersFinite, FS_AddElement
        <4>3. \A m \in TypeNames \ {n} : TypeUsers(m)' = TypeUsers(m)
          BY <1>1, <2>2 DEF TypeUsers, IInv, TypeInv, TypeShape
        <4>4. types'[n].refs = retained'[n] + Cardinality(TypeUsers(n)')
          BY <1>1, <2>2, <3>1, <4>2, UsersFinite DEF IInv, TypeInv, TypeShape, TypeCounts
        <4>5. QED
          BY <1>1, <3>1, <4>3, <4>4 DEF IInv, TypeInv, TypeShape, TypeCounts, typeState
      <3>7. QED
        BY <3>2, <3>3, <3>4, <3>5, <3>6 DEF TypeInv
    <2>3. CASE UNCHANGED <<types, hasType>> /\ at'[t] \in {"idle", "typeSleep"}
      BY <1>1, <1>2, <2>3, TypesUntouched DEF IInv, ThreadShape, TypeInv, Armed, TypeCalls,
         ArmedPlaces, UnarmedPlaces
    <2>4. QED
      BY <2>1, <2>2, <2>3 DEF AcquireType, RegGoto, Creatable, AddRef, typeState, IInv, ThreadShape
  <1>6. QED
    BY <1>3, <1>4, <1>5 DEF IInv

LEMMA RegisterTypeInv ==
  ASSUME IInv, NEW t \in RegThreads, RegisterType(t)
  PROVE  IInv'
  <1> DEFINE n == want[t].type
  <1>1. /\ at[t] = "registerType" /\ ~hasType[t]
        /\ UNCHANGED <<topics, want, ddsTopics, retained, rounds>>
        /\ n \in TypeNames /\ want[t].binding \in Bindings
        /\ typeState(n) = "Creating" /\ types[n].refs = 0 /\ retained[n] = 0
        /\ types[n].binding = want[t].binding
        /\ \A s \in RegThreads : hasType[s] => want[s].type # n
    BY WantTyped DEF RegisterType, IInv, TypeInv, TypeShape, TypeMarks, TypeKept, Armed,
       UnarmedPlaces
  <1>2. /\ at' \in [RegThreads -> Places] /\ at'[t] \in {"acquireTopic", "idle"}
        /\ \A s \in RegThreads \ {t} :
              at'[s] = at[s] \/ (at[s] = "typeSleep" /\ at'[s] = "acquireType")
    BY TypesWoken DEF RegisterType, IInv, Places, ArmedPlaces, UnarmedPlaces
  <1>3. ThreadShape'
    BY <1>1, <1>2, RegistryAssumption DEF RegisterType, RegFault, IInv, ThreadShape
  <1>4. TopicInv'
    BY <1>1, <1>2, TopicsUntouched DEF IInv, TopicCalls
  <1>5. TypeInv'
    <2>1. PICK after \in {"Active", "Absent", "Orphaned"} :
            /\ types' = [types EXCEPT ![n] = [phase |-> after,
                            refs |-> IF after = "Active" THEN 1 ELSE 0,
                            binding |-> want[t].binding]]
            /\ hasType' = IF after = "Active" THEN [hasType EXCEPT ![t] = TRUE] ELSE hasType
            /\ at'[t] = IF after = "Active" THEN "acquireTopic" ELSE "idle"
            /\ ddsTypes' \in {ddsTypes, ddsTypes \union {n}}
            /\ after = "Active" => n \in ddsTypes'
      <3>1. types[n] \in TypeEntries
        BY <1>1 DEF IInv, TypeInv, TypeShape
      <3>2. at'[t] = "idle" \/ at'[t] = "acquireTopic"
        BY <1>2
      <3>3. QED
        BY <1>1, <3>1, TypesWoken DEF RegisterType, TypeEntries, typeState, IInv, Places,
           ArmedPlaces, UnarmedPlaces
    <2>2. TypeShape'
      BY <1>1, <2>1 DEF IInv, TypeInv, TypeShape, TypeEntries, Phases, typeState
    <2>3. TypeMarks'
      BY <1>1, <1>2, <2>1 DEF IInv, TypeInv, TypeShape, TypeMarks, TypeCalls, typeState
    <2>4. Armed'
      BY <1>1, <1>2, <2>1 DEF IInv, TypeInv, TypeShape, Armed, ArmedPlaces, UnarmedPlaces,
         typeState
    <2>5. TypeKept'
      BY <1>1, <2>1 DEF IInv, TypeInv, TypeShape, TypeKept, typeState
    <2>6. TypeCounts'
      <3>1. \A m \in TypeNames \ {n} : TypeUsers(m)' = TypeUsers(m)
        BY <1>1, <2>1 DEF TypeUsers, IInv, TypeInv, TypeShape
      <3>2. CASE typeState(n)' = "Active"
        <4>1. TypeUsers(n)' = {t} /\ types'[n].refs = 1
          BY <1>1, <2>1, <3>2 DEF TypeUsers, IInv, TypeInv, TypeShape, typeState
        <4>2. Cardinality(TypeUsers(n)') = 1
          BY <4>1, FS_Singleton
        <4>3. types'[n].refs = retained'[n] + Cardinality(TypeUsers(n)')
          BY <1>1, <4>1, <4>2
        <4>4. QED
          BY <1>1, <2>1, <3>1, <4>3 DEF IInv, TypeInv, TypeShape, TypeCounts, typeState
      <3>3. CASE typeState(n)' # "Active"
        BY <1>1, <2>1, <3>1, <3>3 DEF IInv, TypeInv, TypeShape, TypeCounts, typeState
      <3>4. QED
        BY <3>2, <3>3
    <2>7. QED
      BY <2>2, <2>3, <2>4, <2>5, <2>6 DEF TypeInv
  <1>6. QED
    BY <1>3, <1>4, <1>5 DEF IInv

LEMMA ReleaseTypeInv ==
  ASSUME IInv, NEW t \in RegThreads, ReleaseType(t)
  PROVE  IInv'
  <1> DEFINE n == want[t].type
  <1>1. /\ at[t] = "releaseType" /\ hasType' = [hasType EXCEPT ![t] = FALSE]
        /\ UNCHANGED <<topics, want, ddsTypes, ddsTopics, retained, rounds, regFaults>>
        /\ n \in TypeNames /\ \A s \in RegThreads : want[s].type \in TypeNames
    BY WantTyped DEF ReleaseType, IInv
  <1>2. PICK place \in {"idle", "unregisterType"} : at' = [at EXCEPT ![t] = place]
    BY DEF ReleaseType, RegGoto
  <1>3. ThreadShape'
    BY <1>1, <1>2 DEF IInv, ThreadShape, Places, UnarmedPlaces
  <1>4. TopicInv'
    BY <1>1, <1>2, TopicsUntouched DEF IInv, ThreadShape, TopicCalls
  <1>5. TypeInv'
    <2>1. CASE ~hasType[t] /\ at'[t] = "idle" /\ UNCHANGED types
      <3>1. UNCHANGED hasType
        BY <1>1, <2>1 DEF IInv, TypeInv, TypeShape
      <3>2. QED
        BY <1>1, <1>2, <2>1, <3>1, TypesUntouched DEF IInv, ThreadShape, TypeInv, Armed,
           TypeCalls, ArmedPlaces, UnarmedPlaces
    <2>2. CASE /\ hasType[t] /\ LastUser(types[n]) /\ at'[t] = "unregisterType"
               /\ types' = [types EXCEPT ![n].refs = 0, ![n].phase = "Retiring"]
      <3>1. types[n] \in TypeEntries
        BY <1>1 DEF IInv, TypeInv, TypeShape
      <3>2. /\ types' \in [TypeNames -> TypeEntries] /\ types'[n].phase = "Retiring"
            /\ types'[n].refs = 0
            /\ \A m \in TypeNames \ {n} : types'[m] = types[m]
        BY <1>1, <2>2 DEF TypeEntries, IInv, TypeInv, TypeShape, Phases
      <3>3. typeState(n) = "Active" /\ TypeUsers(n) = {t} /\ retained[n] = 0
        BY <2>2, LastTypeUser DEF LastUser, IInv, typeState
      <3>4. TypeShape'
        BY <1>1, <3>1, <3>2 DEF IInv, TypeInv, TypeShape, TypeEntries, Phases, typeState
      <3>5. TypeMarks'
        BY <1>1, <1>2, <2>2, <3>2, <3>3 DEF IInv, ThreadShape, TypeInv, TypeMarks,
           TypeCalls, typeState
      <3>6. Armed'
        BY <1>1, <1>2, <2>2, <3>2, <3>3 DEF IInv, ThreadShape, TypeInv, TypeShape, Armed,
           ArmedPlaces, TypeUsers, typeState
      <3>7. TypeKept'
        BY <1>1, <3>2, <3>3 DEF IInv, TypeInv, TypeShape, TypeKept, typeState
      <3>8. TypeCounts'
        <4>1. \A m \in TypeNames \ {n} : TypeUsers(m)' = TypeUsers(m)
          BY <1>1 DEF TypeUsers, IInv, TypeInv, TypeShape
        <4>2. QED
          BY <1>1, <3>2, <4>1 DEF IInv, TypeInv, TypeShape, TypeCounts, typeState
      <3>9. QED
        BY <3>4, <3>5, <3>6, <3>7, <3>8 DEF TypeInv
    <2>3. CASE /\ hasType[t] /\ ~LastUser(types[n]) /\ at'[t] = "idle"
               /\ types' = [types EXCEPT ![n].refs = @ - 1]
      <3>1. types[n] \in TypeEntries /\ typeState(n) = "Active" /\ types[n].refs # 0
        BY <1>1, <2>3 DEF IInv, TypeInv, TypeShape, Armed
      <3>2. types[n].refs - 1 \in Nat \ {0}
        BY <2>3, <3>1 DEF TypeEntries, LastUser, typeState
      <3>3. [types[n] EXCEPT !.refs = @ - 1] =
              [phase |-> "Active", refs |-> types[n].refs - 1, binding |-> types[n].binding]
        BY <3>1 DEF TypeEntries, typeState
      <3>4. types' = [types EXCEPT ![n] = [phase |-> "Active", refs |-> types[n].refs - 1,
                                           binding |-> types[n].binding]]
        BY <2>3, <3>3
      <3>5. TypeShape'
        BY <1>1, <3>1, <3>2, <3>4 DEF IInv, TypeInv, TypeShape, TypeEntries, Phases, typeState
      <3>6. TypeMarks'
        BY <1>1, <1>2, <2>3, <3>1, <3>4 DEF IInv, ThreadShape, TypeInv, TypeShape,
           TypeMarks, TypeCalls, typeState
      <3>7. Armed'
        BY <1>1, <1>2, <2>3, <3>1, <3>4 DEF IInv, ThreadShape, TypeInv, TypeShape, Armed,
           ArmedPlaces, typeState
      <3>8. TypeKept'
        BY <1>1, <3>1, <3>4 DEF IInv, TypeInv, TypeShape, TypeKept, typeState
      <3>9. TypeCounts'
        <4>1. TypeUsers(n)' = TypeUsers(n) \ {t} /\ t \in TypeUsers(n)
          BY <1>1, <2>3 DEF TypeUsers, IInv, TypeInv, TypeShape
        <4>2. Cardinality(TypeUsers(n)') = Cardinality(TypeUsers(n)) - 1
          <5>1. IsFiniteSet(TypeUsers(n))
            BY UsersFinite, Zenon
          <5>2. Cardinality(TypeUsers(n) \ {t}) = Cardinality(TypeUsers(n)) - 1
            BY <4>1, <5>1, OneLeaves, Zenon
          <5>3. QED
            BY <4>1, <5>2, Zenon
        <4>3. \A m \in TypeNames \ {n} : TypeUsers(m)' = TypeUsers(m)
          BY <1>1 DEF TypeUsers, IInv, TypeInv, TypeShape
        <4>4. types'[n].refs = types[n].refs - 1
          BY <1>1, <3>4 DEF IInv, TypeInv, TypeShape
        <4>5. types[n].refs = retained[n] + Cardinality(TypeUsers(n)) /\ retained[n] \in Nat
          BY <1>1, <3>1 DEF IInv, TypeInv, TypeShape, TypeCounts
        <4>6. types'[n].refs = retained'[n] + Cardinality(TypeUsers(n)')
          BY <1>1, <4>2, <4>4, <4>5, UsersFinite
        <4>7. QED
          BY <1>1, <3>4, <4>3, <4>6 DEF IInv, TypeInv, TypeShape, TypeCounts, typeState
      <3>10. QED
        BY <3>5, <3>6, <3>7, <3>8, <3>9 DEF TypeInv
    <2>4. QED
      BY <1>1, <2>1, <2>2, <2>3 DEF ReleaseType, RegGoto, IInv, ThreadShape
  <1>6. QED
    BY <1>3, <1>4, <1>5 DEF IInv

LEMMA UnregisterTypeInv ==
  ASSUME IInv, NEW t \in RegThreads, UnregisterType(t)
  PROVE  IInv'
  <1> DEFINE n == want[t].type
  <1>1. /\ at[t] = "unregisterType" /\ ~hasType[t]
        /\ UNCHANGED <<topics, want, hasType, ddsTopics, retained, rounds>>
        /\ n \in TypeNames /\ typeState(n) = "Retiring" /\ types[n].refs = 0
        /\ retained[n] = 0
        /\ \A s \in RegThreads : hasType[s] => want[s].type # n
    BY WantTyped DEF UnregisterType, IInv, TypeInv, TypeShape, TypeMarks, TypeKept, Armed,
       UnarmedPlaces
  <1>2. /\ at' \in [RegThreads -> Places] /\ at'[t] = "idle"
        /\ \A s \in RegThreads \ {t} :
              at'[s] = at[s] \/ (at[s] = "typeSleep" /\ at'[s] = "acquireType")
    BY TypesWoken DEF UnregisterType, IInv, Places, UnarmedPlaces
  <1>3. ThreadShape'
    BY <1>1, <1>2, RegistryAssumption DEF UnregisterType, RegFault, IInv, ThreadShape
  <1>4. TopicInv'
    BY <1>1, <1>2, TopicsUntouched DEF IInv, TopicCalls
  <1>5. TypeInv'
    <2>1. types[n] \in TypeEntries
      BY <1>1 DEF IInv, TypeInv, TypeShape
    <2>2. PICK after \in {"Absent", "Orphaned"}, b \in {0} \union Bindings :
            types' = [types EXCEPT ![n] = [phase |-> after, refs |-> 0, binding |-> b]]
      <3>1. /\ [types[n] EXCEPT !.phase = "Orphaned"] =
                   [phase |-> "Orphaned", refs |-> 0, binding |-> types[n].binding]
            /\ types[n].binding \in {0} \union Bindings
        BY <1>1, <2>1 DEF TypeEntries
      <3>2. \/ types' = [types EXCEPT ![n] = [phase |-> "Absent", refs |-> 0, binding |-> 0]]
            \/ types' = [types EXCEPT ![n] = [types[n] EXCEPT !.phase = "Orphaned"]]
        BY DEF UnregisterType
      <3>3. QED
        BY <3>1, <3>2
    <2>3. ddsTypes' \in {ddsTypes, ddsTypes \ {n}}
      BY DEF UnregisterType
    <2>4. TypeShape'
      BY <1>1, <2>2 DEF IInv, TypeInv, TypeShape, TypeEntries, Phases, typeState
    <2>5. TypeMarks'
      BY <1>1, <1>2, <2>2 DEF IInv, TypeInv, TypeShape, TypeMarks, TypeCalls, typeState
    <2>6. Armed'
      BY <1>1, <1>2, <2>2 DEF IInv, TypeInv, TypeShape, Armed, ArmedPlaces, UnarmedPlaces,
         typeState
    <2>7. TypeKept'
      BY <1>1, <2>2, <2>3 DEF IInv, TypeInv, TypeShape, TypeKept, typeState
    <2>8. TypeCounts'
      BY <1>1, <2>2 DEF IInv, TypeInv, TypeShape, TypeCounts, TypeUsers, typeState
    <2>9. QED
      BY <2>4, <2>5, <2>6, <2>7, <2>8 DEF TypeInv
  <1>6. QED
    BY <1>3, <1>4, <1>5 DEF IInv
-----------------------------------------------------------------------------
(* The steps on the topic registry *)

LEMMA TopicsWoken ==
  ASSUME ThreadShape, NEW t \in RegThreads, NEW place \in Places, WakeTopics(t, place)
  PROVE  /\ at' \in [RegThreads -> Places] /\ at'[t] = place
         /\ \A s \in RegThreads \ {t} :
               at'[s] = at[s] \/ (at[s] = "topicSleep" /\ at'[s] = "acquireTopic")
  BY DEF ThreadShape, WakeTopics, WakeAll, Places, ArmedPlaces

\* Leaving the reference behind keeps the count: a user less, one retained.
LEMMA DisarmInv ==
  ASSUME ThreadShape, TypeInv, NEW t \in RegThreads, hasType[t], Disarm(t),
         UNCHANGED <<types, want, ddsTypes>>, at'[t] = "releaseType",
         \A s \in RegThreads \ {t} :
            at'[s] = at[s] \/ (at[s] = "topicSleep" /\ at'[s] = "acquireTopic")
  PROVE  TypeInv'
  <1> DEFINE n == want[t].type
  <1>1. /\ n \in TypeNames /\ typeState(n) = "Active" /\ retained[n] \in Nat
        /\ hasType' = [hasType EXCEPT ![t] = FALSE]
        /\ retained' = [retained EXCEPT ![n] = @ + 1]
    BY WantTyped DEF TypeInv, TypeShape, Armed, Disarm
  <1>2. TypeShape' /\ TypeKept'
    BY <1>1 DEF TypeInv, TypeShape, TypeKept, typeState
  <1>3. TypeMarks'
    BY DEF TypeInv, TypeMarks, TypeCalls, typeState
  <1>4. Armed'
    BY <1>1 DEF TypeInv, TypeShape, Armed, ArmedPlaces, UnarmedPlaces, typeState
  <1>5. TypeCounts'
    <2>1. TypeUsers(n)' = TypeUsers(n) \ {t} /\ t \in TypeUsers(n)
      BY <1>1 DEF TypeUsers, TypeInv, TypeShape
    <2>2. Cardinality(TypeUsers(n)') = Cardinality(TypeUsers(n)) - 1
      <3>1. IsFiniteSet(TypeUsers(n))
        BY UsersFinite, Zenon
      <3>2. Cardinality(TypeUsers(n) \ {t}) = Cardinality(TypeUsers(n)) - 1
        BY <2>1, <3>1, OneLeaves, Zenon
      <3>3. QED
        BY <2>1, <3>2, Zenon
    <2>3. \A m \in TypeNames \ {n} : TypeUsers(m)' = TypeUsers(m) /\ retained'[m] = retained[m]
      BY <1>1 DEF TypeUsers, TypeInv, TypeShape
    <2>4. retained'[n] = retained[n] + 1
      BY <1>1 DEF TypeInv, TypeShape
    <2>5. retained'[n] + Cardinality(TypeUsers(n)') = retained[n] + Cardinality(TypeUsers(n))
      BY <1>1, <2>2, <2>4, UsersFinite
    <2>6. QED
      BY <2>3, <2>5 DEF TypeInv, TypeCounts, typeState
  <1>6. QED
    BY <1>2, <1>3, <1>4, <1>5 DEF TypeInv

LEMMA AcquireTopicInv ==
  ASSUME IInv, NEW t \in RegThreads, AcquireTopic(t)
  PROVE  IInv'
  <1> DEFINE k == want[t].topic
  <1>1. /\ at[t] = "acquireTopic" /\ hasType[t]
        /\ UNCHANGED <<types, want, hasType, ddsTypes, ddsTopics, retained, rounds, regFaults>>
        /\ k \in TopicNames /\ want[t].type \in TypeNames
    BY WantTyped DEF AcquireTopic, IInv, TypeInv, Armed, ArmedPlaces
  <1>2. PICK place \in {"createTopic", "releaseType", "holding", "topicSleep"} :
          at' = [at EXCEPT ![t] = place]
    BY DEF AcquireTopic, RegGoto
  <1>3. ThreadShape'
    BY <1>1, <1>2 DEF IInv, ThreadShape, Places, ArmedPlaces
  <1>4. TypeInv'
    BY <1>1, <1>2, TypesUntouched DEF IInv, ThreadShape, TypeInv, Armed, TypeCalls,
       UnarmedPlaces
  <1>5. TopicInv'
    <2>1. CASE /\ topicState(k) = "Absent" /\ at'[t] = "createTopic"
               /\ topics' = [topics EXCEPT ![k] = [phase |-> "Creating", refs |-> 0,
                                                   type |-> want[t].type]]
      <3>1. TopicShape'
        BY <1>1, <2>1 DEF IInv, TopicInv, TopicShape, TopicEntries, Phases, topicState
      <3>2. TopicMarks'
        BY <1>1, <1>2, <2>1 DEF IInv, ThreadShape, TopicInv, TopicShape, TopicMarks,
           TopicCalls, topicState
      <3>3. Holding'
        BY <1>1, <1>2, <2>1 DEF IInv, ThreadShape, TopicInv, TopicShape, Holding, Held,
           topicState
      <3>4. TopicKept'
        BY <1>1, <2>1 DEF IInv, TopicInv, TopicShape, TopicKept, topicState
      <3>5. TopicCounts'
        <4>1. \A m : TopicUsers(m)' = TopicUsers(m)
          BY <1>1, <1>2, <2>1 DEF TopicUsers, Held, IInv, ThreadShape
        <4>2. QED
          BY <1>1, <2>1, <4>1 DEF IInv, TopicInv, TopicShape, TopicCounts, topicState
      <3>6. QED
        BY <3>1, <3>2, <3>3, <3>4, <3>5 DEF TopicInv
    <2>2. CASE /\ topicState(k) = "Active" /\ topics[k].type = want[t].type
               /\ topics' = [topics EXCEPT ![k].refs = @ + 1] /\ at'[t] = "holding"
      <3>1. topics[k] \in TopicEntries
        BY <1>1 DEF IInv, TopicInv, TopicShape
      <3>2. topics[k].refs \in Nat \ {0}
        BY <1>1, <2>2, <3>1 DEF TopicEntries, IInv, TopicInv, TopicShape
      <3>3. /\ topics' \in [TopicNames -> TopicEntries] /\ topics'[k].phase = "Active"
            /\ topics'[k].refs = topics[k].refs + 1 /\ topics'[k].type = want[t].type
            /\ \A m \in TopicNames \ {k} : topics'[m] = topics[m]
        <4>1. topics[k].refs + 1 \in Nat
          BY <3>2
        <4>2. /\ topics' \in [TopicNames -> TopicEntries]
              /\ topics'[k].phase = topics[k].phase /\ topics'[k].type = topics[k].type
              /\ topics'[k].refs = topics[k].refs + 1
              /\ \A m \in TopicNames \ {k} : topics'[m] = topics[m]
          BY <1>1, <2>2, <4>1 DEF TopicEntries, IInv, TopicInv, TopicShape
        <4>3. QED
          BY <2>2, <4>2 DEF topicState
      <3>4. topics'[k].refs # 0
        BY <3>2, <3>3
      <3>5. TopicShape'
        BY <1>1, <2>2, <3>3, <3>4 DEF IInv, TopicInv, TopicShape, TopicEntries, Phases,
           topicState
      <3>6. TopicMarks'
        BY <1>1, <1>2, <2>2, <3>3 DEF IInv, ThreadShape, TopicInv, TopicShape, TopicMarks,
           TopicCalls, topicState
      <3>7. Cardinality(TopicUsers(k)) # 0 /\ topics[k].refs = Cardinality(TopicUsers(k))
        BY <1>1, <2>2, <3>2 DEF IInv, TopicInv, TopicCounts
      <3>8. PICK s \in RegThreads : Held(s) /\ want[s].topic = k
        BY <3>7, FS_EmptySet DEF TopicUsers
      <3>9. [topic |-> k, type |-> want[t].type] \in ddsTopics
        BY <2>2, <3>8 DEF IInv, TopicInv, Holding
      <3>10. Holding'
        BY <1>1, <1>2, <2>2, <3>3, <3>9 DEF IInv, ThreadShape, TopicInv, TopicShape, Holding,
           Held, topicState
      <3>11. TopicKept'
        BY <1>1, <2>2, <3>3 DEF IInv, TopicInv, TopicShape, TopicKept, topicState
      <3>12. TopicCounts'
        <4>1. TopicUsers(k)' = TopicUsers(k) \union {t} /\ t \notin TopicUsers(k)
          BY <1>1, <1>2, <2>2 DEF TopicUsers, Held, IInv, ThreadShape
        <4>2. Cardinality(TopicUsers(k)') = Cardinality(TopicUsers(k)) + 1
          BY <4>1, UsersFinite, FS_AddElement
        <4>3. \A m \in TopicNames \ {k} : TopicUsers(m)' = TopicUsers(m)
          BY <1>1, <1>2 DEF TopicUsers, Held, IInv, ThreadShape
        <4>4. topics'[k].refs = Cardinality(TopicUsers(k)')
          BY <1>1, <3>3, <3>7, <4>2 DEF IInv, TopicInv, TopicShape
        <4>5. QED
          BY <1>1, <3>3, <4>3, <4>4 DEF IInv, TopicInv, TopicShape, TopicCounts, topicState
      <3>13. QED
        BY <3>5, <3>6, <3>10, <3>11, <3>12 DEF TopicInv
    <2>3. CASE UNCHANGED topics /\ at'[t] \in {"releaseType", "topicSleep"}
      BY <1>1, <1>2, <2>3, TopicsUntouched DEF IInv, ThreadShape, TopicCalls
    <2>4. QED
      BY <2>1, <2>2, <2>3 DEF AcquireTopic, RegGoto, Creatable, AddRef, WireTypeFits,
         topicState, IInv, ThreadShape
  <1>6. QED
    BY <1>3, <1>4, <1>5 DEF IInv

\* What create_topic finds and makes of the entry and of the participant.
LEMMA CreateTopicEffect ==
  ASSUME IInv, NEW t \in RegThreads, CreateTopic(t)
  PROVE  LET k == want[t].topic
             asDds == [topic |-> k, type |-> want[t].type]
         IN  /\ at[t] = "createTopic" /\ hasType[t]
             /\ UNCHANGED <<types, want, ddsTypes, rounds>>
             /\ k \in TopicNames /\ want[t].type \in TypeNames
             /\ topicState(k) = "Creating" /\ topics[k].type = want[t].type
             /\ topics[k].refs = 0
             /\ \A s \in RegThreads : want[s].topic \in TopicNames
             /\ \A s \in RegThreads : Held(s) => want[s].topic # k
             /\ at' \in [RegThreads -> Places] /\ at'[t] \in {"holding", "releaseType"}
             /\ \A s \in RegThreads \ {t} :
                   at'[s] = at[s] \/ (at[s] = "topicSleep" /\ at'[s] = "acquireTopic")
             /\ topics' \in [TopicNames -> TopicEntries]
             /\ topics'[k].type = topics[k].type
             /\ \A m \in TopicNames \ {k} : topics'[m] = topics[m]
             /\ \/ /\ topics'[k].phase = "Active" /\ topics'[k].refs = 1 /\ at'[t] = "holding"
                   /\ ddsTopics' = ddsTopics \union {asDds}
                   /\ UNCHANGED <<hasType, retained>>
                \/ /\ topics'[k].phase = "Absent" /\ topics'[k].refs = 0
                   /\ at'[t] = "releaseType"
                   /\ UNCHANGED <<hasType, retained, ddsTopics>>
                \/ /\ topics'[k].phase = "Orphaned" /\ topics'[k].refs = 0
                   /\ at'[t] = "releaseType"
                   /\ ddsTopics' \in {ddsTopics, ddsTopics \union {asDds}} /\ Disarm(t)
  <1> DEFINE k == want[t].topic
             asDds == [topic |-> k, type |-> want[t].type]
  <1>1. /\ at[t] = "createTopic" /\ hasType[t]
        /\ UNCHANGED <<types, want, ddsTypes, rounds>>
        /\ k \in TopicNames /\ want[t].type \in TypeNames
        /\ topicState(k) = "Creating" /\ topics[k].type = want[t].type
        /\ topics[k].refs = 0
        /\ \A s \in RegThreads : want[s].topic \in TopicNames
        /\ \A s \in RegThreads : Held(s) => want[s].topic # k
    BY WantTyped DEF CreateTopic, IInv, TypeInv, Armed, ArmedPlaces, TopicInv, TopicShape,
       TopicMarks, Holding
  <1>2. /\ at' \in [RegThreads -> Places] /\ at'[t] \in {"holding", "releaseType"}
        /\ \A s \in RegThreads \ {t} :
              at'[s] = at[s] \/ (at[s] = "topicSleep" /\ at'[s] = "acquireTopic")
    BY TopicsWoken DEF CreateTopic, IInv, Places, ArmedPlaces
  <1>3. /\ topics' \in [TopicNames -> TopicEntries]
        /\ topics'[k].type = topics[k].type
        /\ \A m \in TopicNames \ {k} : topics'[m] = topics[m]
        /\ \/ /\ topics'[k].phase = "Active" /\ topics'[k].refs = 1 /\ at'[t] = "holding"
              /\ ddsTopics' = ddsTopics \union {asDds}
              /\ UNCHANGED <<hasType, retained>>
           \/ /\ topics'[k].phase = "Absent" /\ topics'[k].refs = 0
              /\ at'[t] = "releaseType"
              /\ UNCHANGED <<hasType, retained, ddsTopics>>
           \/ /\ topics'[k].phase = "Orphaned" /\ topics'[k].refs = 0
              /\ at'[t] = "releaseType"
              /\ ddsTopics' \in {ddsTopics, ddsTopics \union {asDds}} /\ Disarm(t)
    <2>1. topics \in [TopicNames -> TopicEntries]
      BY DEF IInv, TopicInv, TopicShape
    <2>2. \A place \in Places : WakeTopics(t, place) => at'[t] = place
      BY TopicsWoken DEF IInv
    <2>3. "holding" \in Places /\ "releaseType" \in Places
      BY DEF Places, ArmedPlaces
    <2>4. CASE /\ topics' = [topics EXCEPT ![k].phase = "Active", ![k].refs = 1]
               /\ ddsTopics' = ddsTopics \union {asDds}
               /\ WakeTopics(t, "holding") /\ UNCHANGED <<hasType, retained>>
      <3>1. /\ topics' \in [TopicNames -> TopicEntries]
            /\ topics'[k].type = topics[k].type /\ topics'[k].phase = "Active"
            /\ topics'[k].refs = 1 /\ \A m \in TopicNames \ {k} : topics'[m] = topics[m]
        BY <1>1, <2>1, <2>4 DEF TopicEntries, Phases
      <3>2. QED
        BY <2>2, <2>3, <2>4, <3>1
    <2>5. CASE /\ topics' = [topics EXCEPT ![k].phase = "Absent"]
               /\ WakeTopics(t, "releaseType") /\ UNCHANGED <<hasType, retained, ddsTopics>>
      <3>1. /\ topics' \in [TopicNames -> TopicEntries]
            /\ topics'[k].type = topics[k].type /\ topics'[k].phase = "Absent"
            /\ topics'[k].refs = 0 /\ \A m \in TopicNames \ {k} : topics'[m] = topics[m]
        BY <1>1, <2>1, <2>5 DEF TopicEntries, Phases
      <3>2. QED
        BY <2>2, <2>3, <2>5, <3>1
    <2>6. CASE /\ topics' = [topics EXCEPT ![k].phase = "Orphaned"]
               /\ ddsTopics' \in {ddsTopics, ddsTopics \union {asDds}}
               /\ WakeTopics(t, "releaseType") /\ Disarm(t)
      <3>1. /\ topics' \in [TopicNames -> TopicEntries]
            /\ topics'[k].type = topics[k].type /\ topics'[k].phase = "Orphaned"
            /\ topics'[k].refs = 0 /\ \A m \in TopicNames \ {k} : topics'[m] = topics[m]
        BY <1>1, <2>1, <2>6 DEF TopicEntries, Phases
      <3>2. QED
        BY <2>2, <2>3, <2>6, <3>1
    <2>7. QED
      BY <2>4, <2>5, <2>6 DEF CreateTopic
  <1>4. QED
    BY <1>1, <1>2, <1>3

LEMMA CreateTopicInv ==
  ASSUME IInv, NEW t \in RegThreads, CreateTopic(t)
  PROVE  IInv'
  <1> DEFINE k == want[t].topic
             asDds == [topic |-> k, type |-> want[t].type]
  <1>1. /\ at[t] = "createTopic" /\ hasType[t]
        /\ UNCHANGED <<types, want, ddsTypes, rounds>>
        /\ k \in TopicNames /\ want[t].type \in TypeNames
        /\ topicState(k) = "Creating" /\ topics[k].type = want[t].type
        /\ topics[k].refs = 0
        /\ \A s \in RegThreads : want[s].topic \in TopicNames
        /\ \A s \in RegThreads : Held(s) => want[s].topic # k
    BY CreateTopicEffect
  <1>2. /\ at' \in [RegThreads -> Places] /\ at'[t] \in {"holding", "releaseType"}
        /\ \A s \in RegThreads \ {t} :
              at'[s] = at[s] \/ (at[s] = "topicSleep" /\ at'[s] = "acquireTopic")
    BY CreateTopicEffect
  <1>3. ThreadShape'
    BY <1>1, <1>2, RegistryAssumption DEF CreateTopic, RegFault, IInv, ThreadShape
  <1>4. /\ topics' \in [TopicNames -> TopicEntries]
        /\ topics'[k].type = topics[k].type
        /\ \A m \in TopicNames \ {k} : topics'[m] = topics[m]
        /\ \/ /\ topics'[k].phase = "Active" /\ topics'[k].refs = 1 /\ at'[t] = "holding"
              /\ ddsTopics' = ddsTopics \union {asDds}
              /\ UNCHANGED <<hasType, retained>>
           \/ /\ topics'[k].phase = "Absent" /\ topics'[k].refs = 0
              /\ at'[t] = "releaseType"
              /\ UNCHANGED <<hasType, retained, ddsTopics>>
           \/ /\ topics'[k].phase = "Orphaned" /\ topics'[k].refs = 0
              /\ at'[t] = "releaseType"
              /\ ddsTopics' \in {ddsTopics, ddsTopics \union {asDds}} /\ Disarm(t)
    BY CreateTopicEffect
  <1>5. TypeInv'
    <2>1. CASE UNCHANGED <<hasType, retained>>
      BY <1>1, <1>2, <2>1, TypesUntouched DEF IInv, TypeInv, Armed, TypeCalls, ArmedPlaces,
         UnarmedPlaces
    <2>2. CASE Disarm(t) /\ at'[t] = "releaseType"
      BY <1>1, <1>2, <2>2, DisarmInv DEF IInv
    <2>3. QED
      BY <1>4, <2>1, <2>2
  <1>6. TopicInv'
    <2>1. TopicShape'
      BY <1>1, <1>4 DEF IInv, TopicInv, TopicShape, topicState
    <2>2. TopicMarks'
      BY <1>1, <1>2, <1>4 DEF IInv, TopicInv, TopicMarks, TopicCalls, topicState
    <2>3. Holding'
      BY <1>1, <1>2, <1>4 DEF IInv, TopicInv, Holding, Held, topicState
    <2>4. TopicKept'
      <3>1. \A n \in TypeNames : retained[n] # 0 => retained'[n] # 0
        BY <1>1, <1>4 DEF IInv, TypeInv, TypeShape, Disarm
      <3>2. topicState(k)' = "Orphaned" => retained'[want[t].type] # 0
        BY <1>1, <1>4 DEF IInv, TypeInv, TypeShape, Disarm, topicState
      <3>3. \A d \in ddsTopics : d.topic # k
        BY <1>1 DEF IInv, TopicInv, TopicKept
      <3>4. QED
        BY <1>1, <1>4, <3>1, <3>2, <3>3 DEF IInv, TopicInv, TopicKept, topicState
    <2>5. TopicCounts'
      <3>1. \A m \in TopicNames \ {k} : TopicUsers(m)' = TopicUsers(m)
        BY <1>1, <1>2, <1>4 DEF TopicUsers, Held
      <3>2. ASSUME topicState(k)' = "Active"
            PROVE  topics'[k].refs = Cardinality(TopicUsers(k)')
        <4>1. TopicUsers(k)' = {t}
          BY <1>1, <1>2, <1>4, <3>2 DEF TopicUsers, Held, topicState
        <4>2. Cardinality(TopicUsers(k)') = 1
          BY <4>1, FS_Singleton
        <4>3. topics'[k].refs = 1
          BY <1>1, <1>4, <3>2 DEF topicState
        <4>4. QED
          BY <4>2, <4>3
      <3>3. QED
        BY <1>1, <1>4, <3>1, <3>2, TopicRecounted DEF IInv, TopicInv
    <2>6. QED
      BY <2>1, <2>2, <2>3, <2>4, <2>5 DEF TopicInv
  <1>7. QED
    BY <1>3, <1>5, <1>6 DEF IInv

LEMMA ReleaseTopicInv ==
  ASSUME IInv, NEW t \in RegThreads, ReleaseTopic(t)
  PROVE  IInv'
  <1> DEFINE k == want[t].topic
  <1>1. /\ Held(t) /\ hasType[t]
        /\ UNCHANGED <<types, want, hasType, ddsTypes, ddsTopics, retained, rounds, regFaults>>
        /\ k \in TopicNames /\ topicState(k) = "Active" /\ topics[k].type = want[t].type
        /\ topics[k] \in TopicEntries /\ topics[k].refs # 0
        /\ \A s \in RegThreads : want[s].topic \in TopicNames
    BY WantTyped DEF ReleaseTopic, IInv, TypeInv, Armed, ArmedPlaces, TopicInv, TopicShape,
       Holding, Held
  <1>2. topics[k].refs \in Nat /\ topics[k].refs - 1 \in Nat
    <2>1. topics[k].refs \in Nat
      BY <1>1 DEF TopicEntries
    <2>2. QED
      BY <1>1, <2>1
  <1>3. PICK place \in {"deleteTopic", "releaseType"} : at' = [at EXCEPT ![t] = place]
    BY DEF ReleaseTopic, RegGoto
  <1>4. ThreadShape'
    BY <1>1, <1>3 DEF IInv, ThreadShape, Places, ArmedPlaces
  <1>5. TypeInv'
    BY <1>1, <1>3, TypesUntouched DEF IInv, ThreadShape, TypeInv, Armed, TypeCalls,
       UnarmedPlaces
  <1>6. TopicInv'
    <2>1. /\ topics' \in [TopicNames -> TopicEntries]
          /\ topics'[k].type = topics[k].type /\ topics'[k].refs = topics[k].refs - 1
          /\ \A m \in TopicNames \ {k} : topics'[m] = topics[m]
          /\ topics'[k].phase = IF topics[k].refs = 1 THEN "Retiring" ELSE "Active"
          /\ at'[t] = IF topics[k].refs = 1 THEN "deleteTopic" ELSE "releaseType"
      <3>1. topics \in [TopicNames -> TopicEntries] /\ at \in [RegThreads -> Places]
        BY DEF IInv, ThreadShape, TopicInv, TopicShape
      <3>2. LastUser(topics[k]) <=> topics[k].refs = 1
        BY <1>1 DEF LastUser, topicState
      <3>3. CASE topics[k].refs = 1
        <4>1. topics' = [topics EXCEPT ![k].refs = topics[k].refs - 1, ![k].phase = "Retiring"]
              /\ at' = [at EXCEPT ![t] = "deleteTopic"]
          BY <3>2, <3>3 DEF ReleaseTopic, RegGoto
        <4>2. QED
          BY <1>1, <1>2, <3>1, <3>3, <4>1 DEF TopicEntries, Phases
      <3>4. CASE topics[k].refs # 1
        <4>1. topics' = [topics EXCEPT ![k].refs = topics[k].refs - 1]
              /\ at' = [at EXCEPT ![t] = "releaseType"]
          BY <3>2, <3>4 DEF ReleaseTopic, RegGoto
        <4>2. QED
          BY <1>1, <1>2, <3>1, <3>4, <4>1 DEF TopicEntries, topicState
      <3>5. QED
        BY <3>3, <3>4
    <2>2. \A s \in RegThreads \ {t} : at'[s] = at[s]
      BY <1>3 DEF IInv, ThreadShape
    <2>3. topics[k].refs = 1 => \A s \in RegThreads \ {t} : Held(s) => want[s].topic # k
      BY <1>1, LastTopicUser DEF TopicUsers, IInv
    <2>4. TopicShape'
      BY <1>1, <1>2, <2>1 DEF IInv, TopicInv, TopicShape, topicState
    <2>5. TopicMarks'
      BY <1>1, <2>1, <2>2 DEF IInv, TopicInv, TopicMarks, TopicCalls, topicState
    <2>6. Holding'
      BY <1>1, <2>1, <2>2, <2>3 DEF IInv, TopicInv, Holding, Held, topicState
    <2>7. TopicKept'
      BY <1>1, <2>1 DEF IInv, TopicInv, TopicKept, topicState
    <2>8. TopicCounts'
      <3>1. TopicUsers(k)' = TopicUsers(k) \ {t} /\ t \in TopicUsers(k)
        BY <1>1, <2>1, <2>2 DEF TopicUsers, Held
      <3>2. Cardinality(TopicUsers(k)') = Cardinality(TopicUsers(k)) - 1
        <4>1. IsFiniteSet(TopicUsers(k))
          BY UsersFinite, Zenon
        <4>2. Cardinality(TopicUsers(k) \ {t}) = Cardinality(TopicUsers(k)) - 1
          BY <3>1, <4>1, OneLeaves, Zenon
        <4>3. QED
          BY <3>1, <4>2, Zenon
      <3>3. \A m \in TopicNames \ {k} : TopicUsers(m)' = TopicUsers(m)
        BY <1>1, <2>1, <2>2 DEF TopicUsers, Held
      <3>4. topics[k].refs = Cardinality(TopicUsers(k))
        BY <1>1 DEF IInv, TopicInv, TopicCounts
      <3>5. topics'[k].refs = Cardinality(TopicUsers(k)')
        BY <2>1, <3>2, <3>4
      <3>6. QED
        BY <1>1, <2>1, <3>3, <3>5, TopicRecounted DEF IInv, TopicInv
    <2>9. QED
      BY <2>4, <2>5, <2>6, <2>7, <2>8 DEF TopicInv
  <1>7. QED
    BY <1>4, <1>5, <1>6 DEF IInv

\* What delete_topic finds and makes of the entry and of the participant.
LEMMA DeleteTopicEffect ==
  ASSUME IInv, NEW t \in RegThreads, DeleteTopic(t)
  PROVE  LET k == want[t].topic
         IN  /\ at[t] = "deleteTopic" /\ hasType[t]
             /\ UNCHANGED <<types, want, ddsTypes, rounds>>
             /\ k \in TopicNames /\ want[t].type \in TypeNames
             /\ topicState(k) = "Retiring" /\ topics[k].type = want[t].type
             /\ topics[k].refs = 0
             /\ \A s \in RegThreads : want[s].topic \in TopicNames
             /\ \A s \in RegThreads : Held(s) => want[s].topic # k
             /\ at' \in [RegThreads -> Places] /\ at'[t] = "releaseType"
             /\ \A s \in RegThreads \ {t} :
                   at'[s] = at[s] \/ (at[s] = "topicSleep" /\ at'[s] = "acquireTopic")
             /\ topics' \in [TopicNames -> TopicEntries] /\ topics'[k].refs = 0
             /\ \A m \in TopicNames \ {k} : topics'[m] = topics[m]
             /\ \/ /\ topics'[k].phase = "Absent"
                   /\ ddsTopics' = {d \in ddsTopics : d.topic # k}
                   /\ UNCHANGED <<hasType, retained>>
                \/ /\ topics'[k].phase = "Orphaned" /\ topics'[k].type = want[t].type
                   /\ UNCHANGED ddsTopics /\ Disarm(t)
  <1> DEFINE k == want[t].topic
  <1>1. /\ at[t] = "deleteTopic" /\ hasType[t]
        /\ UNCHANGED <<types, want, ddsTypes, rounds>>
        /\ k \in TopicNames /\ want[t].type \in TypeNames
        /\ topicState(k) = "Retiring" /\ topics[k].type = want[t].type
        /\ topics[k].refs = 0
        /\ \A s \in RegThreads : want[s].topic \in TopicNames
        /\ \A s \in RegThreads : Held(s) => want[s].topic # k
    BY WantTyped DEF DeleteTopic, IInv, TypeInv, Armed, ArmedPlaces, TopicInv, TopicShape,
       TopicMarks, Holding
  <1>2. /\ at' \in [RegThreads -> Places] /\ at'[t] = "releaseType"
        /\ \A s \in RegThreads \ {t} :
              at'[s] = at[s] \/ (at[s] = "topicSleep" /\ at'[s] = "acquireTopic")
    BY TopicsWoken DEF DeleteTopic, IInv, Places
  <1>3. /\ topics' \in [TopicNames -> TopicEntries] /\ topics'[k].refs = 0
        /\ \A m \in TopicNames \ {k} : topics'[m] = topics[m]
        /\ \/ /\ topics'[k].phase = "Absent"
              /\ ddsTopics' = {d \in ddsTopics : d.topic # k}
              /\ UNCHANGED <<hasType, retained>>
           \/ /\ topics'[k].phase = "Orphaned" /\ topics'[k].type = want[t].type
              /\ UNCHANGED ddsTopics /\ Disarm(t)
    <2>1. topics \in [TopicNames -> TopicEntries]
      BY DEF IInv, TopicInv, TopicShape
    <2>2. CASE /\ topics' = [topics EXCEPT ![k] = [phase |-> "Absent", refs |-> 0,
                                                    type |-> ""]]
               /\ ddsTopics' = {d \in ddsTopics : d.topic # k}
               /\ UNCHANGED <<hasType, retained>>
      <3>1. /\ topics' \in [TopicNames -> TopicEntries] /\ topics'[k].refs = 0
            /\ topics'[k].phase = "Absent" /\ \A m \in TopicNames \ {k} : topics'[m] = topics[m]
        BY <1>1, <2>1, <2>2 DEF TopicEntries, Phases
      <3>2. QED
        BY <2>2, <3>1
    <2>3. CASE /\ topics' = [topics EXCEPT ![k].phase = "Orphaned"]
               /\ Disarm(t) /\ UNCHANGED ddsTopics
      <3>1. /\ topics' \in [TopicNames -> TopicEntries] /\ topics'[k].refs = 0
            /\ topics'[k].phase = "Orphaned" /\ topics'[k].type = want[t].type
            /\ \A m \in TopicNames \ {k} : topics'[m] = topics[m]
        BY <1>1, <2>1, <2>3 DEF TopicEntries, Phases
      <3>2. QED
        BY <2>3, <3>1
    <2>4. QED
      BY <2>2, <2>3 DEF DeleteTopic
  <1>4. QED
    BY <1>1, <1>2, <1>3

LEMMA DeleteTopicInv ==
  ASSUME IInv, NEW t \in RegThreads, DeleteTopic(t)
  PROVE  IInv'
  <1> DEFINE k == want[t].topic
  <1>1. /\ at[t] = "deleteTopic" /\ hasType[t]
        /\ UNCHANGED <<types, want, ddsTypes, rounds>>
        /\ k \in TopicNames /\ want[t].type \in TypeNames
        /\ topicState(k) = "Retiring" /\ topics[k].type = want[t].type
        /\ topics[k].refs = 0
        /\ \A s \in RegThreads : want[s].topic \in TopicNames
        /\ \A s \in RegThreads : Held(s) => want[s].topic # k
    BY DeleteTopicEffect
  <1>2. /\ at' \in [RegThreads -> Places] /\ at'[t] = "releaseType"
        /\ \A s \in RegThreads \ {t} :
              at'[s] = at[s] \/ (at[s] = "topicSleep" /\ at'[s] = "acquireTopic")
    BY DeleteTopicEffect
  <1>3. ThreadShape'
    <2>1. RegFault \/ UNCHANGED regFaults
      BY DEF DeleteTopic
    <2>2. QED
      BY <1>1, <1>2, <2>1, RegistryAssumption DEF RegFault, IInv, ThreadShape
  <1>4. /\ topics' \in [TopicNames -> TopicEntries] /\ topics'[k].refs = 0
        /\ \A m \in TopicNames \ {k} : topics'[m] = topics[m]
        /\ \/ /\ topics'[k].phase = "Absent"
              /\ ddsTopics' = {d \in ddsTopics : d.topic # k}
              /\ UNCHANGED <<hasType, retained>>
           \/ /\ topics'[k].phase = "Orphaned" /\ topics'[k].type = want[t].type
              /\ UNCHANGED ddsTopics /\ Disarm(t)
    BY DeleteTopicEffect
  <1>5. TypeInv'
    <2>1. CASE UNCHANGED <<hasType, retained>>
      BY <1>1, <1>2, <2>1, TypesUntouched DEF IInv, TypeInv, Armed, TypeCalls, ArmedPlaces,
         UnarmedPlaces
    <2>2. CASE Disarm(t)
      BY <1>1, <1>2, <2>2, DisarmInv DEF IInv
    <2>3. QED
      BY <1>4, <2>1, <2>2
  <1>6. TopicInv'
    <2>1. TopicShape'
      BY <1>1, <1>4 DEF IInv, TopicInv, TopicShape, topicState
    <2>2. TopicMarks'
      BY <1>1, <1>2, <1>4 DEF IInv, TopicInv, TopicMarks, TopicCalls, topicState
    <2>3. Holding'
      BY <1>1, <1>2, <1>4 DEF IInv, TopicInv, Holding, Held, topicState
    <2>4. TopicKept'
      <3>1. \A n \in TypeNames : retained[n] # 0 => retained'[n] # 0
        BY <1>1, <1>4 DEF IInv, TypeInv, TypeShape, Disarm
      <3>2. topicState(k)' = "Orphaned" => retained'[want[t].type] # 0
        BY <1>1, <1>4 DEF IInv, TypeInv, TypeShape, Disarm, topicState
      <3>3. QED
        BY <1>1, <1>4, <3>1, <3>2 DEF IInv, TopicInv, TopicKept, topicState
    <2>5. TopicCounts'
      <3>1. \A m : TopicUsers(m)' = TopicUsers(m)
        BY <1>1, <1>2 DEF TopicUsers, Held
      <3>2. QED
        BY <1>4, <3>1 DEF IInv, TopicInv, TopicCounts, topicState
    <2>6. QED
      BY <2>1, <2>2, <2>3, <2>4, <2>5 DEF TopicInv
  <1>7. QED
    BY <1>3, <1>5, <1>6 DEF IInv
-----------------------------------------------------------------------------
LEMMA NextInv == IInv /\ [RegNext]_regVars => IInv'
  <1>1. ASSUME IInv, UNCHANGED regVars PROVE IInv'
    <2>1. ThreadShape'
      BY <1>1 DEF regVars, IInv, ThreadShape
    <2>2. TypeInv'
      BY <1>1 DEF regVars, IInv, TypeInv, TypeShape, TypeMarks, Armed, TypeKept, TypeCounts,
         TypeUsers, typeState
    <2>3. TopicInv'
      BY <1>1, TopicsUntouched DEF regVars, IInv
    <2>4. QED
      BY <2>1, <2>2, <2>3 DEF IInv
  <1>2. QED
    BY <1>1, BeginCreateInv, AcquireTypeInv, RegisterTypeInv, AcquireTopicInv,
       CreateTopicInv, ReleaseTopicInv, DeleteTopicInv, ReleaseTypeInv, UnregisterTypeInv
       DEF RegNext, RegStep

\* Whatever state the DDS topic of an entry is in, somebody stands for its
\* type: a holder of the topic, the thread deleting it, or a reference left
\* behind.  So the type is Active and the participant has it.
LEMMA TopicsAreTyped == IInv => TypeOutlivesTopic
  <1> SUFFICES ASSUME IInv, NEW d \in ddsTopics PROVE d.type \in ddsTypes
    BY DEF TypeOutlivesTopic
  <1> DEFINE k == d.topic
  <1>1. /\ k \in TopicNames /\ topicState(k) \in {"Active", "Retiring", "Orphaned"}
        /\ topics[k].type = d.type /\ d.type \in TypeNames
    BY DEF IInv, TopicInv, TopicKept
  <1>2. typeState(d.type) = "Active"
    <2>1. CASE topicState(k) = "Active"
      <3>1. topics[k].refs # 0 /\ topics[k].refs = Cardinality(TopicUsers(k))
        BY <1>1, <2>1 DEF IInv, TopicInv, TopicShape, TopicCounts
      <3>2. PICK s \in RegThreads : Held(s) /\ want[s].topic = k
        BY <3>1, FS_EmptySet DEF TopicUsers
      <3>3. want[s].type = d.type /\ hasType[s]
        BY <1>1, <3>2 DEF IInv, TopicInv, Holding, TypeInv, Armed, ArmedPlaces, Held
      <3>4. QED
        BY <3>3 DEF IInv, TypeInv, Armed
    <2>2. CASE topicState(k) = "Retiring"
      <3>1. PICK s \in RegThreads : at[s] = "deleteTopic" /\ want[s].topic = k
        BY <1>1, <2>2 DEF IInv, TopicInv, TopicMarks
      <3>2. want[s].type = d.type /\ hasType[s]
        BY <1>1, <3>1 DEF IInv, TopicInv, TopicMarks, TypeInv, Armed, ArmedPlaces
      <3>3. QED
        BY <3>2 DEF IInv, TypeInv, Armed
    <2>3. CASE topicState(k) = "Orphaned"
      BY <1>1, <2>3 DEF IInv, TopicInv, TopicKept, TypeInv, TypeKept
    <2>4. QED
      BY <1>1, <2>1, <2>2, <2>3
  <1>3. QED
    BY <1>1, <1>2 DEF IInv, TypeInv, TypeKept

\* The registries agree with the participant and with their users in every
\* reachable state: reference counts, phases, type support and held topics,
\* whichever of register_type, unregister_type, create_topic and delete_topic
\* fails in whichever thread.
THEOREM RegistriesAreConsistent == RegSpec => []RegistriesConsistent
  <1>1. IInv => RegistriesConsistent
    <2> SUFFICES ASSUME IInv PROVE RegistriesConsistent
      OBVIOUS
    <2>1. RegTypeOK
      BY DEF IInv, ThreadShape, TypeInv, TypeShape, TypeEntries, TopicInv, TopicShape,
         TopicEntries, RegTypeOK
    <2>2. CountsMatchUsers
      BY DEF IInv, TypeInv, TypeCounts, TopicInv, TopicCounts, CountsMatchUsers
    <2>3. HeldTopicExists
      BY DEF IInv, TypeInv, Armed, ArmedPlaces, TopicInv, Holding, Held, HeldTopicExists
    <2>4. QED
      BY <2>1, <2>2, <2>3, TopicsAreTyped DEF RegistriesConsistent
  <1>2. QED
    BY <1>1, InitInv, NextInv, PTL DEF RegSpec
-----------------------------------------------------------------------------
(* The registries implement TopicSharing.                                  *)

HeldBy == [t \in RegThreads |-> IF Held(t) THEN want[t].topic ELSE NoTopic]
LostTopics == {k \in TopicNames : topicState(k) = "Orphaned"}

\* A step that gives no topic, takes none and orphans none is invisible.
LEMMA Invisible ==
  ASSUME \A k \in TopicNames : topics'[k].phase = "Orphaned" <=> topics[k].phase = "Orphaned",
         \A s \in RegThreads : /\ at'[s] = "holding" <=> at[s] = "holding"
                               /\ at[s] = "holding" => want'[s] = want[s]
  PROVE  UNCHANGED Sharing!sharingVars
  <1>1. HeldBy' = HeldBy
    BY DEF HeldBy, Held
  <1>2. LostTopics' = LostTopics
    BY DEF LostTopics, topicState
  <1>3. QED
    BY <1>1, <1>2 DEF Sharing!sharingVars, HeldBy, LostTopics

\* acquire_topic that ends with a Topic object is one atomic Take.
LEMMA HoldTakes ==
  ASSUME IInv, NEW t \in RegThreads, ~Held(t), at'[t] = "holding", UNCHANGED want,
         \A s \in RegThreads \ {t} : at'[s] = "holding" <=> at[s] = "holding",
         topicState(want[t].topic) # "Orphaned",
         \A k \in TopicNames : topics'[k].phase = "Orphaned" <=> topics[k].phase = "Orphaned"
  PROVE  Sharing!SharingNext
  <1>1. HeldBy' = [HeldBy EXCEPT ![t] = want[t].topic] /\ HeldBy[t] = NoTopic
    BY DEF HeldBy, Held
  <1>2. LostTopics' = LostTopics /\ want[t].topic \notin LostTopics
    BY DEF LostTopics, topicState
  <1>3. QED
    BY <1>1, <1>2, WantTyped DEF Sharing!SharingNext, Sharing!Take, HeldBy, LostTopics, IInv

\* An entry becomes Orphaned when create_topic or delete_topic, which nobody
\* holds the topic during, leaves its state unknown.
LEMMA OrphaningLoses ==
  ASSUME IInv, NEW k \in TopicNames, topicState(k) # "Active", UNCHANGED want,
         \A s \in RegThreads : at'[s] = "holding" <=> at[s] = "holding",
         topics'[k].phase = "Orphaned",
         \A m \in TopicNames \ {k} : topics'[m] = topics[m]
  PROVE  Sharing!SharingNext
  <1>1. HeldBy' = HeldBy
    BY DEF HeldBy, Held
  <1>2. LostTopics' = LostTopics \union {k}
    BY DEF LostTopics, topicState
  <1>3. \A s \in RegThreads : HeldBy[s] # k
    BY RegistryAssumption DEF HeldBy, IInv, TopicInv, Holding, TopicNames
  <1>4. QED
    BY <1>1, <1>2, <1>3 DEF Sharing!SharingNext, Sharing!Lose, HeldBy, LostTopics

LEMMA SharingStep == IInv /\ [RegNext]_regVars => [Sharing!SharingNext]_(Sharing!sharingVars)
  <1> SUFFICES ASSUME IInv, [RegNext]_regVars
               PROVE  Sharing!SharingNext \/ UNCHANGED Sharing!sharingVars
    OBVIOUS
  <1>0. at \in [RegThreads -> Places] /\ \A s \in RegThreads : want[s].topic \in TopicNames
    BY WantTyped DEF IInv, ThreadShape
  <1>1. ASSUME UNCHANGED regVars PROVE UNCHANGED Sharing!sharingVars
    BY <1>1, Invisible DEF regVars
  <1>2. ASSUME NEW t \in RegThreads, BeginCreate(t) PROVE UNCHANGED Sharing!sharingVars
    BY <1>0, <1>2, Invisible DEF BeginCreate, RegGoto, IInv, ThreadShape
  <1>3. ASSUME NEW t \in RegThreads,
               AcquireType(t) \/ RegisterType(t) \/ ReleaseType(t) \/ UnregisterType(t)
        PROVE  UNCHANGED Sharing!sharingVars
    <2>1. UNCHANGED <<topics, want>>
      BY <1>3 DEF AcquireType, RegisterType, ReleaseType, UnregisterType
    <2>2. \A s \in RegThreads : at'[s] = "holding" <=> at[s] = "holding"
      BY <1>0, <1>3 DEF AcquireType, RegisterType, ReleaseType, UnregisterType, RegGoto,
         WakeTypes, WakeAll
    <2>3. QED
      BY <2>1, <2>2, Invisible
  <1>4. ASSUME NEW t \in RegThreads, AcquireTopic(t)
        PROVE  Sharing!SharingNext \/ UNCHANGED Sharing!sharingVars
    <2>1. /\ at[t] = "acquireTopic" /\ UNCHANGED want
          /\ \A k \in TopicNames : topics'[k].phase = "Orphaned" <=> topics[k].phase = "Orphaned"
      <3> DEFINE k == want[t].topic
      <3>1. topics \in [TopicNames -> TopicEntries] /\ k \in TopicNames
        BY <1>0 DEF IInv, TopicInv, TopicShape
      <3>2. CASE /\ topics[k].phase = "Absent"
                 /\ topics' = [topics EXCEPT ![k] = [phase |-> "Creating", refs |-> 0,
                                                     type |-> want[t].type]]
        BY <1>4, <3>1, <3>2 DEF AcquireTopic
      <3>3. CASE topics' = [topics EXCEPT ![k].refs = topics[k].refs + 1]
        <4>1. at[t] = "acquireTopic" /\ UNCHANGED want
          BY <1>4, Zenon DEF AcquireTopic
        <4>2. \A m \in TopicNames : topics'[m].phase = topics[m].phase
          BY <3>1, <3>3 DEF TopicEntries
        <4>3. QED
          BY <4>1, <4>2
      <3>4. CASE UNCHANGED topics
        BY <1>4, <3>4 DEF AcquireTopic
      <3>5. QED
        BY <1>4, <3>2, <3>3, <3>4 DEF AcquireTopic, Creatable, AddRef
    <2>2. \A s \in RegThreads \ {t} : at'[s] = at[s]
      BY <1>0, <1>4 DEF AcquireTopic, RegGoto
    <2>3. CASE at'[t] = "holding"
      <3>1. topicState(want[t].topic) = "Active"
        BY <1>0, <1>4, <2>3 DEF AcquireTopic, RegGoto, topicState
      <3>2. QED
        BY <2>1, <2>2, <2>3, <3>1, HoldTakes DEF Held
    <2>4. CASE at'[t] # "holding"
      BY <2>1, <2>2, <2>4, Invisible
    <2>5. QED
      BY <2>3, <2>4
  <1>5. ASSUME NEW t \in RegThreads, CreateTopic(t)
        PROVE  Sharing!SharingNext \/ UNCHANGED Sharing!sharingVars
    <2> DEFINE k == want[t].topic
    <2>1. /\ at[t] = "createTopic" /\ UNCHANGED want /\ k \in TopicNames
          /\ topicState(k) = "Creating"
          /\ \A s \in RegThreads \ {t} : at'[s] = "holding" <=> at[s] = "holding"
          /\ \A m \in TopicNames \ {k} : topics'[m] = topics[m]
      BY <1>5, CreateTopicEffect
    <2>2. \/ topics'[k].phase = "Active" /\ at'[t] = "holding"
          \/ topics'[k].phase = "Absent" /\ at'[t] = "releaseType"
          \/ topics'[k].phase = "Orphaned" /\ at'[t] = "releaseType"
      BY <1>5, CreateTopicEffect
    <2>3. CASE topics'[k].phase = "Active" /\ at'[t] = "holding"
      BY <2>1, <2>3, HoldTakes DEF Held, topicState
    <2>4. CASE topics'[k].phase = "Absent" /\ at'[t] = "releaseType"
      BY <2>1, <2>4, Invisible DEF topicState
    <2>5. CASE topics'[k].phase = "Orphaned" /\ at'[t] = "releaseType"
      <3>1. \A s \in RegThreads : at'[s] = "holding" <=> at[s] = "holding"
        BY <2>1, <2>5
      <3>2. QED
        BY <2>1, <2>5, <3>1, OrphaningLoses
    <2>6. QED
      BY <2>2, <2>3, <2>4, <2>5
  <1>6. ASSUME NEW t \in RegThreads, ReleaseTopic(t)
        PROVE  Sharing!SharingNext
    <2> DEFINE k == want[t].topic
    <2>1. /\ Held(t) /\ UNCHANGED want /\ at'[t] # "holding"
          /\ \A s \in RegThreads \ {t} : at'[s] = at[s]
      BY <1>0, <1>6 DEF ReleaseTopic, RegGoto
    <2>2. topicState(k) = "Active" /\ k \in TopicNames /\ topics \in [TopicNames -> TopicEntries]
      BY <1>0, <2>1 DEF IInv, TopicInv, TopicShape, Holding
    <2>3. \A m \in TopicNames : topics'[m].phase = "Orphaned" <=> topics[m].phase = "Orphaned"
      BY <1>6, <2>2 DEF ReleaseTopic, TopicEntries, topicState
    <2>4. HeldBy' = [HeldBy EXCEPT ![t] = NoTopic] /\ HeldBy[t] # NoTopic
      BY <1>0, <2>1, RegistryAssumption DEF HeldBy, Held, TopicNames
    <2>5. LostTopics' = LostTopics
      BY <2>3 DEF LostTopics, topicState
    <2>6. QED
      BY <2>4, <2>5 DEF Sharing!SharingNext, Sharing!GiveBack, HeldBy, LostTopics
  <1>7. ASSUME NEW t \in RegThreads, DeleteTopic(t)
        PROVE  Sharing!SharingNext \/ UNCHANGED Sharing!sharingVars
    <2> DEFINE k == want[t].topic
    <2>1. /\ at[t] = "deleteTopic" /\ UNCHANGED want /\ k \in TopicNames
          /\ topicState(k) = "Retiring" /\ at'[t] = "releaseType"
          /\ \A s \in RegThreads \ {t} : at'[s] = "holding" <=> at[s] = "holding"
          /\ \A m \in TopicNames \ {k} : topics'[m] = topics[m]
      BY <1>7, DeleteTopicEffect
    <2>2. topics'[k].phase = "Absent" \/ topics'[k].phase = "Orphaned"
      BY <1>7, DeleteTopicEffect
    <2>3. CASE topics'[k].phase = "Absent"
      BY <2>1, <2>3, Invisible DEF topicState
    <2>4. CASE topics'[k].phase = "Orphaned"
      <3>1. \A s \in RegThreads : at'[s] = "holding" <=> at[s] = "holding"
        BY <2>1
      <3>2. QED
        BY <2>1, <2>4, <3>1, OrphaningLoses
    <2>5. QED
      BY <2>2, <2>3, <2>4
  <1>8. CASE RegNext
    <2>1. PICK t \in RegThreads : BeginCreate(t) \/ RegStep(t)
      BY <1>8 DEF RegNext
    <2>2. \/ BeginCreate(t) \/ AcquireTopic(t) \/ CreateTopic(t) \/ ReleaseTopic(t)
          \/ DeleteTopic(t)
          \/ AcquireType(t) \/ RegisterType(t) \/ ReleaseType(t) \/ UnregisterType(t)
      BY <2>1 DEF RegStep
    <2>3. QED
      BY <1>2, <1>3, <1>4, <1>5, <1>6, <1>7, <2>2
  <1>9. QED
    BY <1>1, <1>8

\* acquire_topic and release_topic, each two critical sections around an
\* unlocked Fast DDS call, implement the atomic Take and GiveBack of
\* TopicSharing; an outcome that stays unknown is a Lose, and no holder of the
\* topic exists at that moment.
THEOREM RegistriesImplementSharing == RegSpec => ImplementsSharing
  <1>1. RegInit => Sharing!SharingInit
    <2> SUFFICES ASSUME RegInit PROVE Sharing!SharingInit
      OBVIOUS
    <2>1. HeldBy = [t \in RegThreads |-> NoTopic]
      BY DEF RegInit, HeldBy, Held
    <2>2. LostTopics = {}
      BY DEF RegInit, LostTopics, topicState
    <2>3. QED
      BY <2>1, <2>2 DEF Sharing!SharingInit, HeldBy, LostTopics
  <1>2. QED
    BY <1>1, InitInv, NextInv, SharingStep, PTL DEF RegSpec, ImplementsSharing,
       Sharing!SharingSpec
=============================================================================
