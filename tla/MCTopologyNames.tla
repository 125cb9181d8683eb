-------------------------- MODULE MCTopologyNames ---------------------------
(* One run for three parts that share nothing: the topology of a WaitSet,  *)
(* the names of a Node, and the graph queries.  A behaviour moves one of   *)
(* them, its subject; the others stay at one of their initial states.      *)
EXTENDS MCWaitSet, NodeNames, GraphQueries

-----------------------------------------------------------------------------
(* NodeNames: every short command line, one or two rules in the Context    *)
(* and one in the Node, and every kind of entity under odd names.          *)
Words == {<<"--ros-args">>, <<"--">>, <<"-r">>, <<"app">>, <<"a", ":=", "b">>}
RosArgs(options) == <<<<"--ros-args">>>> \o options \o <<<<"--">>>>
Rules == {<<<<"-r">>, rule>> : rule \in
            {<<"a", ":=", "b">>, <<"b", ":=", "c">>, <<"n", ":", "a", ":=", "/", "c">>,
             <<"/", "ns", "/", "n", ":", "/", "ns", "/", "a", ":=", "d">>,
             <<"m", ":", "a", ":=", "d">>, <<"__ns", ":=", "/", "ns">>,
             <<"__node", ":=", "m">>, <<"~", ":=", "d">>,
             <<"/", "b", "/", "_action", "/", "status", ":=", "s">>}}
Names == {<<"a">>, <<"/", "b">>, <<"a", "/">>, <<"/", "a", "/", "_action", "/", "b">>,
          <<"a", "_Request">>, <<"a", "Request">>}
Simple == [mode |-> "ROS2", global |-> <<>>, local |-> <<>>, useGlobal |-> TRUE,
           name |-> <<"n">>, ns |-> <<>>, kind |-> "topic", request |-> <<"a">>]
SomeInputs ==
    UNION
      {{[Simple EXCEPT !.global = argv] : argv \in UNION {[1..n -> Words] : n \in 0..4}},
       {[Simple EXCEPT !.global = RosArgs(r), !.local = l, !.useGlobal = u, !.kind = k] :
           r \in Rules, l \in {<<>>} \cup {RosArgs(x) : x \in Rules}, u \in BOOLEAN, k \in Kinds},
       {[Simple EXCEPT !.global = RosArgs(x \o y), !.local = l, !.kind = k] :
           x, y \in Rules, l \in {<<>>} \cup {RosArgs(z) : z \in Rules}, k \in {"topic", "action"}},
       {[Simple EXCEPT !.mode = m, !.kind = k, !.request = r, !.ns = ns, !.name = n,
                       !.global = g] :
           m \in RuntimeModes, k \in Kinds, r \in Names,
           ns \in {<<>>, <<"/", "ns">>, <<"ns", "/">>}, n \in {<<"n">>, <<"n", "/">>},
           g \in {<<>>, RosArgs(<<<<"-r">>, <<"a", ":=", "b">>>>)}}}

(* GraphQueries: two action servers of one participant, the second with a  *)
(* feedback writer no client can use, and a local service.                 *)
Reliable == [reliability |-> "Reliable", durability |-> "Volatile"]
BestEffort == [reliability |-> "BestEffort", durability |-> "Volatile"]
Side(participant, nodeName, family, name, part, kind) ==
    [participant |-> participant, node |-> nodeName, family |-> family, name |-> name,
     part |-> part, kind |-> kind, type |-> part, qos |-> Reliable]
SomeEndpoints ==
    <<Side("here", "n0", "service", "srv", "request", "Reader"),
      Side("p", "n1", "action", "act", "request", "Reader"),
      Side("p", "n1", "action", "act", "response", "Writer"),
      Side("p", "n1", "action", "act", "feedback", "Writer"),
      Side("p", "n2", "action", "act", "request", "Reader"),
      Side("p", "n2", "action", "act", "response", "Writer"),
      [Side("p", "n2", "action", "act", "feedback", "Writer") EXCEPT !.qos = BestEffort]>>
ServerSides == {<<"request", "Reader">>, <<"response", "Writer">>, <<"feedback", "Writer">>}
SameTypes == [side \in ServerSides |-> side[1]]
WantsReliable == [side \in ServerSides |-> Reliable]

\* The queries compare the places of records that fit the same part of the same
\* name, and of no others.  So the parts are found one after the other, and the
\* endpoints of one part in every order.
PartOf == <<1, 2, 3, 4, 2, 3, 4>>
PartByPart ==
    \A i \in 2..Len(foundEnds') : PartOf[foundEnds'[i - 1]] <= PartOf[foundEnds'[i]]
-----------------------------------------------------------------------------
VARIABLE subject

\* A capacity change meets a registration and a removal; MCWaitSetUses has it
\* meet another one and a sleeper.
CapacityChangeMeets ==
    \A t, u \in Clients : t # u /\ op'[t] = "block" => op'[u] \in {"none", "remove", "add"}

PartsInit ==
    /\ subject \in {"topology", "names", "queries"}
    /\ Init /\ NamesInit /\ QueriesInit
    /\ subject # "names" => input = Simple
    /\ subject # "queries" => runtimeMode = "DDS"

PartsNext ==
    /\ UNCHANGED subject
    /\ \/ subject = "topology" /\ Next /\ CapacityChangeMeets /\ UNCHANGED <<namesVars, queryVars>>
       \/ subject = "names" /\ NamesNext /\ UNCHANGED <<vars, queryVars>>
       \/ /\ subject = "queries" /\ QueriesNext /\ UNCHANGED <<vars, namesVars>>
          /\ PartByPart

PartsSpec ==
    PartsInit /\ [][PartsNext]_<<subject, vars, namesVars, queryVars>>
=============================================================================
