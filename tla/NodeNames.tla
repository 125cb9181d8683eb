------------------------------ MODULE NodeNames ------------------------------
(***************************************************************************)
(* From the command line to the name a peer sees: parse_arguments          *)
(* (dmw/src/arguments.cpp), Context::Impl::create_node (context_impl.cpp), *)
(* name resolution and remapping (impl/name.hpp, node_impl.cpp), the DDS   *)
(* names of topics, services and actions, and their way back in another    *)
(* participant (impl/graph_names.hpp).                                     *)
(*                                                                         *)
(* A string is a sequence of lexemes ("/", "chatter", "_action", ":=");    *)
(* "" is <<>>, and stands for a failed Result too, which no name equals.   *)
(***************************************************************************)
EXTENDS Naturals, Sequences
LOCAL INSTANCE SequencesExt

CONSTANT Inputs   \* records of what a user may ask for (InputType below)

Kinds == {"topic", "service", "action"}
RuntimeModes == {"DDS", "ROS2"}

ASSUME InputAssumption ==
    \A i \in Inputs :
      /\ DOMAIN i = {"mode", "global", "local", "useGlobal", "name", "ns", "kind", "request"}
      /\ i.mode \in RuntimeModes /\ i.kind \in Kinds /\ i.useGlobal \in BOOLEAN

VARIABLES
    input,      \* the user's request
    progress,   \* "start", "parsed", "node", "entity", "seen" or "failed"
    parsed,     \* Arguments of the Context and of the Node
    node,       \* the Node: name, namespace and remap rules
    wireNames,  \* DDS names of the entity's topics, with what they are for
    sighted     \* what a peer makes of them

namesVars == <<input, progress, parsed, node, wireNames, sighted>>

Failed == <<>>
NoArguments == [remaps |-> <<>>, params |-> <<>>, unparsed |-> <<>>, node |-> <<>>, ns |-> <<>>]
NoNodeYet == [name |-> <<>>, ns |-> <<>>, rules |-> <<>>]

Find(text, lexeme) == SelectInSeq(text, LAMBDA l : l = lexeme)
Before(text, i) == SubSeq(text, 1, i - 1)
After(text, i) == SubSeq(text, i + 1, Len(text))

-----------------------------------------------------------------------------
(* arguments.cpp                                                           *)

ParseAssignment(text) ==
    LET separator == Find(text, ":=") IN
    IF separator \in {0, 1, Len(text)} THEN Failed
    ELSE <<Before(text, separator), After(text, separator)>>

RosOptions == {<<"-r">>, <<"--remap">>, <<"-p">>, <<"--param">>}

(* The loop's state: the arguments so far, whether we are after            *)
(* "--ros-args", and the option whose value comes next.                    *)
Assign(state, assignment) ==
    LET rest == [state EXCEPT !.option = <<>>]
        target == assignment[1]
    IN
    IF assignment = Failed THEN [state EXCEPT !.ok = FALSE]
    ELSE IF state.option \in {<<"-p">>, <<"--param">>}
         THEN [rest EXCEPT !.args.params = Append(@, assignment)]
    ELSE IF target = <<"__node">> THEN [rest EXCEPT !.args.node = assignment[2]]
    ELSE IF target = <<"__ns">> THEN [rest EXCEPT !.args.ns = assignment[2]]
    ELSE [rest EXCEPT !.args.remaps = Append(@, assignment)]

Terminates(state, argument) == argument = <<"--">> /\ state.ros

ParseNext(state, argument) ==
    IF ~state.ok THEN state
    ELSE IF state.option # <<>> THEN Assign(state, ParseAssignment(argument))
    ELSE IF argument = <<"--ros-args">>
         THEN IF state.ros THEN [state EXCEPT !.ok = FALSE] ELSE [state EXCEPT !.ros = TRUE]
    ELSE IF Terminates(state, argument) THEN [state EXCEPT !.ros = FALSE]
    ELSE IF ~state.ros THEN [state EXCEPT !.args.unparsed = Append(@, argument)]
    ELSE IF argument \in RosOptions THEN [state EXCEPT !.option = argument]
    ELSE [state EXCEPT !.ok = FALSE]

ParseArguments(argv) ==
    LET end == FoldLeft(ParseNext, [args |-> NoArguments, ros |-> FALSE, option |-> <<>>,
                                    ok |-> TRUE], argv)
    IN [ok |-> end.ok /\ ~end.ros /\ end.option = <<>>, args |-> end.args]

-----------------------------------------------------------------------------
(* name.hpp, and the remapping of node_impl.cpp                            *)

HasInvalidNameSyntax(text) ==
    \/ \E i \in 1..(Len(text) - 1) : text[i] = "/" /\ text[i + 1] = "/"
    \/ Find(text, "~") # 0

NormalizeNamespace(text) ==
    IF text = <<>> THEN <<"/">>
    ELSE IF HasInvalidNameSyntax(text) THEN Failed
    ELSE LET absolute == IF Head(text) = "/" THEN text ELSE <<"/">> \o text
         IN IF Len(absolute) > 1 /\ Last(absolute) = "/" THEN Failed ELSE absolute

ResolveName(ns, text) ==
    IF text = <<>> \/ HasInvalidNameSyntax(text) \/ Last(text) = "/" THEN Failed
    ELSE IF Head(text) = "/" THEN text
    ELSE IF ns = <<"/">> THEN <<"/">> \o text
    ELSE ns \o <<"/">> \o text

Unqualified(text) == IF text # <<>> /\ Head(text) = "/" THEN Tail(text) ELSE text

(* A source "scope:name" addresses the nodes of that (qualified) name.     *)
InScope(n, rule) ==
    LET separator == Find(rule[1], ":")
        scope == Unqualified(Before(rule[1], separator))
        ns == Unqualified(n.ns)
    IN separator = 0 \/ scope \in {n.name, IF ns = <<>> THEN n.name ELSE ns \o <<"/">> \o n.name}

Source(rule) == After(rule[1], Find(rule[1], ":"))

RuleAppliesToResult(original, result, source) == source = result

RuleApplies(original, result, source) == source = original

ApplyRule(n, original, result, rule) ==
    IF result = Failed \/ ~InScope(n, rule) THEN result
    ELSE LET source == ResolveName(n.ns, Source(rule)) IN
         IF source = Failed THEN Failed
         ELSE IF RuleApplies(original, result, source) THEN ResolveName(n.ns, rule[2]) ELSE result

ResolveRemappedName(n, text) ==
    LET original == ResolveName(n.ns, text)
    IN FoldLeft(LAMBDA result, rule : ApplyRule(n, original, result, rule), original, n.rules)

-----------------------------------------------------------------------------
(* DDS names and back                                                      *)

DdsTopicName(mode, logical) ==
    IF mode = "ROS2" THEN <<"rt", "/">> \o Tail(logical) ELSE Tail(logical)

ServiceTopicName(mode, logical, request) ==
    IF mode = "ROS2"
    THEN <<IF request THEN "rq" ELSE "rr", "/">> \o Tail(logical)
         \o <<IF request THEN "Request" ELSE "Reply">>
    ELSE Tail(logical) \o <<IF request THEN "_Request" ELSE "_Reply">>

StartsWith(text, prefix) == Len(text) >= 2 /\ text[1] = prefix /\ text[2] = "/"
EndsWith(text, suffix) == text # <<>> /\ Last(text) = suffix

Normalized(path, role) ==
    IF path = <<>> THEN [name |-> <<>>, role |-> "none"]
    ELSE [name |-> <<"/">> \o path, role |-> role]

NormalizeEndpointName(mode, dds) ==
    LET tail == SubSeq(dds, 3, Len(dds)) IN
    IF mode = "ROS2"
    THEN IF StartsWith(dds, "rt") THEN Normalized(tail, "topic")
         ELSE IF StartsWith(dds, "rq") /\ EndsWith(dds, "Request")
              THEN Normalized(Front(tail), "request")
         ELSE IF StartsWith(dds, "rr") /\ EndsWith(dds, "Reply")
              THEN Normalized(Front(tail), "response")
         ELSE Normalized(<<>>, "none")
    ELSE IF EndsWith(dds, "_Request") THEN Normalized(Front(dds), "request")
    ELSE IF EndsWith(dds, "_Reply") THEN Normalized(Front(dds), "response")
    ELSE Normalized(dds, "topic")

ActionParts == {"send_goal", "cancel_goal", "get_result", "feedback", "status"}
ActionTopics == {"feedback", "status"}

(* The marker is looked for from the end of the name.                      *)
ActionMarker(text) ==
    LET at == {i \in 2..(Len(text) - 2) : SubSeq(text, i, i + 2) = <<"/", "_action", "/">>}
    IN IF at = {} THEN 0 ELSE CHOOSE i \in at : \A j \in at : j <= i

DeriveActionEndpointNames(fqn) ==
    IF \/ Len(fqn) <= 1 \/ Last(fqn) = "/"
       \/ \E i \in 1..(Len(fqn) - 1) : fqn[i] = "/" /\ fqn[i + 1] = "_action"
    THEN Failed
    ELSE [part \in ActionParts |-> fqn \o <<"/", "_action", "/", part>>]

NotAnAction == [action |-> <<>>, part |-> "none", role |-> "none"]

PartsInRole(role) == IF role = "topic" THEN ActionTopics ELSE ActionParts \ ActionTopics

ClassifyActionEndpoint(endpoint) ==
    LET marker == ActionMarker(endpoint.name)
        suffix == SubSeq(endpoint.name, marker + 3, Len(endpoint.name))
    IN IF marker = 0 \/ suffix \notin {<<part>> : part \in PartsInRole(endpoint.role)}
       THEN NotAnAction
       ELSE [action |-> Before(endpoint.name, marker), part |-> suffix[1], role |-> endpoint.role]

-----------------------------------------------------------------------------
NamesInit ==
    /\ input \in Inputs
    /\ progress = "start"
    /\ parsed = [global |-> NoArguments, local |-> NoArguments]
    /\ node = NoNodeYet
    /\ wireNames = {}
    /\ sighted = {}

Fails == progress' = "failed" /\ UNCHANGED <<input, parsed, node, wireNames, sighted>>

Parse ==
    LET global == ParseArguments(input.global)
        local == ParseArguments(input.local)
    IN /\ progress = "start"
       /\ IF global.ok /\ local.ok
          THEN /\ parsed' = [global |-> global.args, local |-> local.args]
               /\ progress' = "parsed"
               /\ UNCHANGED <<input, node, wireNames, sighted>>
          ELSE Fails

(* The Node's own arguments override the Context's, and its rules follow   *)
(* them.                                                                   *)
CreateNode ==
    LET global == IF input.useGlobal THEN parsed.global ELSE NoArguments
        Chosen(mine, theirs, asked) ==
            IF mine # <<>> THEN mine ELSE IF theirs # <<>> THEN theirs ELSE asked
        name == Chosen(parsed.local.node, global.node, input.name)
        ns == NormalizeNamespace(Chosen(parsed.local.ns, global.ns, input.ns))
    IN /\ progress = "parsed"
       /\ IF name = <<>> \/ HasInvalidNameSyntax(name) \/ Find(name, "/") # 0 \/ ns = Failed
          THEN Fails
          ELSE /\ node' = [name |-> name, ns |-> ns,
                           rules |-> global.remaps \o parsed.local.remaps]
               /\ progress' = "node"
               /\ UNCHANGED <<input, parsed, wireNames, sighted>>

TopicNames(logical) ==
    {[dds |-> DdsTopicName(input.mode, logical), logical |-> logical, role |-> "topic"]}
ServiceNames(logical) ==
    {[dds |-> ServiceTopicName(input.mode, logical, request), logical |-> logical,
      role |-> IF request THEN "request" ELSE "response"] : request \in BOOLEAN}

(* The five parts of an action are created under their derived names by    *)
(* the ordinary factories, which remap once more.                          *)
CreateEntity ==
    LET logical == ResolveRemappedName(node, input.request)
        derived == DeriveActionEndpointNames(logical)
        Part(part) == ResolveRemappedName(node, derived[part])
    IN /\ progress = "node"
       /\ IF logical = Failed \/ (input.kind = "action" /\ derived = Failed)
          THEN Fails
          ELSE /\ wireNames' =
                    CASE input.kind = "topic" -> TopicNames(logical)
                      [] input.kind = "service" -> ServiceNames(logical)
                      [] input.kind = "action" ->
                           UNION {IF part \in ActionTopics THEN TopicNames(Part(part))
                                  ELSE ServiceNames(Part(part)) : part \in ActionParts}
               /\ progress' = "entity"
               /\ UNCHANGED <<input, parsed, node, sighted>>

(* A peer of the same RuntimeMode discovers the endpoints.                 *)
PeerDiscovers ==
    /\ progress = "entity"
    /\ sighted' = {NormalizeEndpointName(input.mode, w.dds) : w \in wireNames}
    /\ progress' = "seen"
    /\ UNCHANGED <<input, parsed, node, wireNames>>

NamesNext == Parse \/ CreateNode \/ CreateEntity \/ PeerDiscovers
NamesSpec == NamesInit /\ [][NamesNext]_namesVars

-----------------------------------------------------------------------------
(* The arguments of an accepted command line that are not between          *)
(* "--ros-args" and its "--" are all handed back, in order, and each of    *)
(* the others is an option with its value.                                 *)
ArgumentsAccounted ==
    LET RosAt(argv, i) ==
            \E j \in 1..i : /\ argv[j] = <<"--ros-args">>
                            /\ \A k \in (j + 1)..(i - 1) : argv[k] # <<"--">>
        Plain(argv) == SelectSeq([i \in 1..Len(argv) |-> IF RosAt(argv, i) THEN <<>> ELSE argv[i]],
                                 LAMBDA a : a # <<>>)
    IN progress \notin {"start", "failed"} =>
         /\ parsed.global.unparsed = Plain(input.global)
         /\ parsed.local.unparsed = Plain(input.local)

(* The last rule that names the original name decides; rules do not feed   *)
(* each other, and a Node's rules come after the Context's.                *)
LastRuleDecides ==
    (progress \in {"entity", "seen"} /\ input.kind # "action") =>
      LET original == ResolveName(node.ns, input.request)
          hits == {i \in 1..Len(node.rules) :
                     /\ InScope(node, node.rules[i])
                     /\ ResolveName(node.ns, Source(node.rules[i])) = original}
          expected == IF hits = {} THEN original
                      ELSE ResolveName(node.ns, node.rules[CHOOSE i \in hits : \A j \in hits : j <= i][2])
      IN \A w \in wireNames : w.logical = expected

(* A peer finds the logical name and the role the entity was created with. *)
(* In DDS mode nothing marks a topic: one whose name ends like that of a   *)
(* service is taken for it.                                                *)
PeerSeesResolvedName ==
    progress = "seen" =>
      \A w \in wireNames :
        \/ input.mode = "DDS" /\ w.role = "topic" /\ Last(w.logical) \in {"_Request", "_Reply"}
        \/ \E e \in sighted : e = [name |-> w.logical, role |-> w.role]

(* All eight endpoints of an action are recognized as parts of the same    *)
(* action, unless a rule renames one of its parts.                         *)
ActionKeptTogether ==
    (progress = "seen" /\ input.kind = "action") =>
      LET logical == ResolveRemappedName(node, input.request)
          derived == DeriveActionEndpointNames(logical)
      IN \/ \E part \in ActionParts : ResolveRemappedName(node, derived[part]) # derived[part]
         \/ {ClassifyActionEndpoint(e) : e \in sighted} =
              {[action |-> logical, part |-> part, role |-> "topic"] : part \in ActionTopics}
              \cup {[action |-> logical, part |-> part, role |-> role] :
                      part \in ActionParts \ ActionTopics, role \in {"request", "response"}}

(* A name means one thing from the command line to the peer: no argument   *)
(* is lost, the last matching rule decides, and what a peer makes of the   *)
(* wire name is the name and the role the entity was created with.         *)
NamesAgree ==
    /\ ArgumentsAccounted
    /\ LastRuleDecides
    /\ PeerSeesResolvedName
    /\ ActionKeptTogether
=============================================================================
