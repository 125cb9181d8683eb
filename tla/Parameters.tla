----------------------------- MODULE Parameters -----------------------------
(***************************************************************************)
(* The parameter store of a Node (dmw/src/impl/parameter_store.cpp) and    *)
(* the Node operations in front of it (dmw/src/impl/node_impl.cpp).        *)
(*                                                                         *)
(* Every operation of the store runs under its mutex and is one action;    *)
(* the exception is get_many, which takes the mutex once per name and is   *)
(* therefore a loop of steps.  A parameter name is the sequence of its     *)
(* dot-separated tokens, a value is a record of its type and a number that *)
(* tells the values of that type apart.  A floating point value is a       *)
(* number on a grid coarser than the tolerance of the range test.          *)
(***************************************************************************)
EXTENDS Integers, Sequences, FiniteSets

Seqs == INSTANCE SequencesExt

CONSTANTS
    Tokens,           \* tokens that start with a letter or underscore
    ParamNames,       \* names callers use, well formed or not
    DefaultValues,    \* values a caller declares or sets
    Descriptors,      \* descriptors a caller declares with
    SetRequests,      \* lists of parameters of one set_parameters_atomically
    ReadLists,        \* lists of names of one get_parameters
    Listings,         \* [prefixes, depth] arguments of list_parameters
    OverrideEntries,  \* command line overrides: [scope, name, literal]
    NodeScopes,       \* the scopes that address this Node ("" = unscoped)
    IntMax,           \* largest value of the signed integer type
    MaxDelta,         \* bound on the changes that nobody has taken yet
    MaxOverlap        \* bound on the stores one get_parameters call overlaps

\* ParameterValue and its type tag; the descriptors; a command line literal.
ValueTypes == {"not_set", "bool", "integer", "double", "string", "byte_array",
               "bool_array", "integer_array", "double_array", "string_array"}
Integer == -(IntMax + 1)..IntMax
ParamValues == {v \in [type : ValueTypes, n : Int] : v.type = "integer" => v.n \in Integer}
IntegerRanges == [from : Integer, to : Integer, step : 0..(2 * IntMax + 1)]
FloatRanges == [from : Int, to : Int, step : Int]
ParamDescriptors == [read_only : BOOLEAN, dynamic : BOOLEAN,
                     ranges : SUBSET IntegerRanges, float_ranges : SUBSET FloatRanges]
Literals == [kind : {"boolean", "number", "decimal", "text"}, negative : BOOLEAN,
             digits : Seq(0..9), n : Int]

ASSUME ParameterAssumption ==
    /\ IntMax \in Nat \ {0}
    /\ MaxDelta \in Nat \ {0}
    /\ MaxOverlap \in Nat \ {0}
    /\ Tokens \subseteq STRING
    /\ ParamNames \subseteq Seq(STRING)
    /\ DefaultValues \subseteq ParamValues
    /\ Descriptors \subseteq ParamDescriptors
    /\ SetRequests \subseteq Seq([name : Seq(STRING), value : ParamValues])
    /\ ReadLists \subseteq Seq(Seq(STRING))
    /\ Listings \subseteq [prefixes : SUBSET Seq(STRING), depth : Nat]
    /\ OverrideEntries \subseteq [scope : STRING, name : Seq(STRING), literal : Literals]

VARIABLES
    overrides,        \* overrides_, fixed when the Node is created
    entry,            \* the command line entry that produced it
    allowUndeclared,  \* NodeOptions::allow_undeclared_parameters
    params,           \* parameters_: name -> [value, desc]
    pending,          \* pending_changes_
    reading,          \* a get_parameters call: [names, got, open]
    nodeShut,         \* the Context refuses new operations
    snap,             \* ghost: the values when the changes were last taken
    committed         \* ghost: the stores since the get_parameters call began

nodeOptions == <<overrides, entry, allowUndeclared>>
paramVars == <<nodeOptions, params, pending, reading, nodeShut, snap, committed>>

NotSet == [type |-> "not_set", n |-> 0]
IsSet(v) == v.type # "not_set"
NoChanges == [new |-> <<>>, changed |-> <<>>, deleted |-> <<>>]
DefaultDescriptor == [read_only |-> FALSE, dynamic |-> FALSE, ranges |-> {},
                      float_ranges |-> {}]
ValuesOf(store) == [n \in DOMAIN store |-> store[n].value]

-----------------------------------------------------------------------------
(* Names, literals and overrides. *)

\* The elements of the sequence s that are in S, in their order.
InOrder(s, S) ==
    LET kept[i \in 0..Len(s)] ==
          IF i = 0 THEN <<>>
          ELSE IF s[i] \in S THEN Append(kept[i - 1], s[i])
          ELSE kept[i - 1]
    IN  kept[Len(s)]

\* validate_parameter_name: one token or more, none empty, each well formed.
ValidName(name) == name # <<>> /\ \A i \in DOMAIN name : name[i] \in Tokens

\* The digit loop of parses_as_integer with its cap on the magnitude, which
\* allows the one value that only the negative side has.
DigitsToMagnitude(digits) ==
    LET magnitude[i \in 0..Len(digits)] ==
          IF i = 0 THEN 0
          ELSE IF \/ magnitude[i - 1] < 0
                  \/ magnitude[i - 1] > ((IntMax + 1) - digits[i]) \div 10 THEN -1
          ELSE magnitude[i - 1] * 10 + digits[i]
    IN  magnitude[Len(digits)]

\* parse_parameter_literal: boolean, integer, floating point, else a string.
ParseLiteral(text) ==
    LET magnitude == DigitsToMagnitude(text.digits)
        isInteger == /\ text.kind = "number" /\ text.digits # <<>>
                     /\ magnitude >= 0
                     /\ text.negative \/ magnitude <= IntMax
    IN  CASE text.kind = "boolean" -> [type |-> "bool", n |-> text.n]
          [] isInteger             -> [type |-> "integer",
                                       n |-> IF text.negative
                                             THEN -magnitude ELSE magnitude]
          [] text.kind = "decimal" -> [type |-> "double", n |-> text.n]
          [] OTHER                 -> [type |-> "string", n |-> 0]

\* select_parameter_overrides: unscoped entries and those that name the Node.
SelectOverrides(entries) ==
    LET applying == InOrder(entries, {e \in Seqs!ToSet(entries) : e.scope \in NodeScopes})
    IN  [i \in DOMAIN applying |->
            [name |-> applying[i].name, value |-> ParseLiteral(applying[i].literal)]]

-----------------------------------------------------------------------------
(* Validation of descriptors and values. *)

\* validate_descriptor: no inverted range, no negative floating point step,
\* and a fixed type needs a typed default.
ValidDescriptor(desc, value) ==
    /\ \A r \in desc.ranges : r.from <= r.to
    /\ \A r \in desc.float_ranges : r.from <= r.to /\ r.step >= 0
    /\ desc.dynamic \/ IsSet(value)

\* integer_value_is_acceptable: the offset is a subtraction of unsigned
\* numbers, taken modulo their width.
IntegerAcceptableSigned(n, r) ==
    /\ r.from <= n /\ n <= r.to
    /\ r.step # 0 => n % r.step = 0
IntegerAcceptable(n, r) ==
    /\ r.from <= n /\ n <= r.to
    /\ r.step # 0 => ((n - r.from) % (2 * (IntMax + 1))) % r.step = 0

\* double_value_is_acceptable, on the grid.
DoubleAcceptable(n, r) ==
    /\ r.from <= n /\ n <= r.to
    /\ r.step > 0 => (n - r.from) % r.step = 0

\* validate_value_against_descriptor: ranges bind only values of their type.
ValidValue(v, desc) ==
    /\ v.type = "integer" /\ desc.ranges # {} =>
          \E r \in desc.ranges : IntegerAcceptable(v.n, r)
    /\ v.type = "double" /\ desc.float_ranges # {} =>
          \E r \in desc.float_ranges : DoubleAcceptable(v.n, r)

\* validate_assignment_locked, for one parameter of a request.
ValidAssignmentAnyType(p) ==
    /\ ValidName(p.name)
    /\ IF p.name \notin DOMAIN params THEN allowUndeclared
       ELSE ~params[p.name].desc.read_only /\ ValidValue(p.value, params[p.name].desc)
ValidAssignment(p) ==
    /\ ValidName(p.name)
    /\ IF p.name \notin DOMAIN params THEN allowUndeclared
       ELSE LET stored == params[p.name]
            IN  /\ ~stored.desc.read_only
                /\ \/ stored.desc.dynamic
                   \/ ~IsSet(stored.value)
                   \/ stored.value.type = p.value.type
                /\ ValidValue(p.value, stored.desc)

\* validate_name_and_duplicates
ValidShape(request) ==
    /\ \A i \in DOMAIN request : ValidName(request[i].name)
    /\ \A i, j \in DOMAIN request :
          request[i].name = request[j].name => i = j

-----------------------------------------------------------------------------
Delta(changes) == Len(changes.new) + Len(changes.changed) + Len(changes.deleted)
Room == Delta(pending) < MaxDelta

\* Ghost bookkeeping: remember the stores an open get_parameters call sees.
Record == /\ committed' = IF reading.open THEN committed \cup {ValuesOf(params')}
                          ELSE committed
          /\ Cardinality(committed') <= MaxOverlap

ParamInit ==
    /\ entry \in OverrideEntries /\ allowUndeclared \in BOOLEAN
    /\ overrides = SelectOverrides(<<entry>>)
    /\ params = <<>>
    /\ pending = NoChanges
    /\ reading = [names |-> <<>>, got |-> <<>>, open |-> FALSE]
    /\ nodeShut = FALSE
    /\ snap = <<>>
    /\ committed = {}

\* declare_locked: the first matching override replaces the default.
EffectiveValue(name, value, ignore) ==
    LET matching == {i \in DOMAIN overrides : overrides[i].name = name}
        first    == CHOOSE i \in matching : \A j \in matching : i <= j
    IN  IF ignore \/ matching = {} THEN value ELSE overrides[first].value

\* The store with one more entry.
WithParameter(name, stored) ==
    [n \in DOMAIN params \cup {name} |-> IF n = name THEN stored ELSE params[n]]

\* The end of declare: the entry is taken back when recording the change
\* throws.
StoreDeclaredKeepsEntry(name, stored, throws) ==
    /\ params' = WithParameter(name, stored)
    /\ pending' = IF throws THEN pending
                  ELSE [pending EXCEPT !.new =
                           Append(@, [name |-> name, value |-> stored.value])]
StoreDeclared(name, stored, throws) ==
    IF throws THEN UNCHANGED <<params, pending>>
    ELSE /\ params' = WithParameter(name, stored)
         /\ pending' = [pending EXCEPT !.new =
                           Append(@, [name |-> name, value |-> stored.value])]

\* declare and declare_locked: the override passes the checks of the default.
DeclareParameter(name, value, desc, ignore, throws) ==
    LET effective == EffectiveValue(name, value, ignore)
    IN  /\ ~nodeShut /\ Room
        /\ ValidName(name) /\ ValidDescriptor(desc, value)
        /\ name \notin DOMAIN params
        /\ \/ desc.dynamic \/ ~IsSet(effective) \/ ~IsSet(value)
           \/ effective.type = value.type
        /\ ValidValue(effective, desc)
        /\ StoreDeclared(name, [value |-> effective, desc |-> desc], throws)
        /\ Record
        /\ UNCHANGED <<nodeOptions, reading, nodeShut, snap>>

\* undeclare: the change is recorded before the entry goes.
UndeclareParameter(name) ==
    /\ ~nodeShut /\ Room
    /\ name \in DOMAIN params
    /\ pending' = [pending EXCEPT !.deleted =
                      Append(@, [name |-> name, value |-> params[name].value])]
    /\ params' = [n \in DOMAIN params \ {name} |-> params[n]]
    /\ Record
    /\ UNCHANGED <<nodeOptions, reading, nodeShut, snap>>

\* set_atomically: validate everything, prepare store and delta, swap.
SetParameters(request) ==
    LET fresh   == InOrder(request, {p \in Seqs!ToSet(request) : p.name \notin DOMAIN params})
        differs == InOrder(request, {p \in Seqs!ToSet(request) :
                                       /\ p.name \in DOMAIN params
                                       /\ params[p.name].value # p.value})
        named   == {request[i].name : i \in DOMAIN request}
        valueOf(n) == (CHOOSE i \in DOMAIN request : request[i].name = n)
    IN  /\ ~nodeShut
        /\ Delta(pending) + Len(request) <= MaxDelta
        /\ ValidShape(request)
        /\ \A i \in DOMAIN request : ValidAssignment(request[i])
        /\ params' = [n \in DOMAIN params \cup named |->
                        IF n \notin named THEN params[n]
                        ELSE [value |-> request[valueOf(n)].value,
                              desc  |-> IF n \in DOMAIN params THEN params[n].desc
                                        ELSE DefaultDescriptor]]
        /\ pending' = [pending EXCEPT !.new = @ \o fresh, !.changed = @ \o differs]
        /\ Record
        /\ UNCHANGED <<nodeOptions, reading, nodeShut, snap>>

\* take_changes
TakeChanges ==
    /\ ~nodeShut
    /\ pending' = NoChanges
    /\ snap' = ValuesOf(params)
    /\ UNCHANGED <<nodeOptions, params, reading, nodeShut, committed>>

\* get_parameters: validated names, then one get per name, each of which
\* takes the mutex on its own.
BeginGetParameters(names) ==
    /\ ~nodeShut /\ ~reading.open
    /\ \A i \in DOMAIN names : ValidName(names[i])
    /\ reading' = [names |-> names, got |-> <<>>, open |-> TRUE]
    /\ committed' = {ValuesOf(params)}
    /\ UNCHANGED <<nodeOptions, params, pending, nodeShut, snap>>

\* get: an undeclared name reads as a value that is not set, or is an error.
GetNext ==
    /\ reading.open /\ Len(reading.got) < Len(reading.names)
    /\ LET name == reading.names[Len(reading.got) + 1]
       IN  \/ /\ name \in DOMAIN params \/ allowUndeclared
              /\ reading' = [reading EXCEPT !.got =
                    Append(@, IF name \in DOMAIN params THEN params[name].value
                              ELSE NotSet)]
              /\ UNCHANGED committed
           \/ /\ name \notin DOMAIN params /\ ~allowUndeclared
              /\ reading' = [names |-> <<>>, got |-> <<>>, open |-> FALSE]
              /\ committed' = {}
    /\ UNCHANGED <<nodeOptions, params, pending, nodeShut, snap>>

EndGetParameters ==
    /\ reading.open /\ Len(reading.got) = Len(reading.names)
    /\ reading' = [names |-> <<>>, got |-> <<>>, open |-> FALSE]
    /\ committed' = {}
    /\ UNCHANGED <<nodeOptions, params, pending, nodeShut, snap>>

NodeShutdown ==
    /\ ~nodeShut
    /\ nodeShut' = TRUE
    /\ UNCHANGED <<nodeOptions, params, pending, reading, snap, committed>>

\* list: names within the depth, and the truncated names of deeper ones.
ListParameters(prefixes, depth) ==
    LET matching == {n \in DOMAIN params :
                        prefixes = {} \/ \E p \in prefixes : Seqs!IsPrefix(p, n)}
        deep     == {n \in matching : depth # 0 /\ Len(n) > depth}
    IN  [names |-> matching \ deep, prefixes |-> {SubSeq(n, 1, depth) : n \in deep}]

ParamNext ==
    \/ \E name \in ParamNames, v \in DefaultValues, desc \in Descriptors,
          ignore, throws \in BOOLEAN :
          DeclareParameter(name, v, desc, ignore, throws)
    \/ \E name \in ParamNames : UndeclareParameter(name)
    \/ \E request \in SetRequests : SetParameters(request)
    \/ TakeChanges
    \/ \E names \in ReadLists : BeginGetParameters(names)
    \/ GetNext
    \/ EndGetParameters
    \/ NodeShutdown

ParamSpec == ParamInit /\ [][ParamNext]_paramVars

-----------------------------------------------------------------------------
(* Properties *)

\* Names in the store are well formed, and the change lists hold parameters.
ParamTypeOK ==
    /\ \A n \in DOMAIN params :
          /\ n # <<>> /\ \A i \in DOMAIN n : n[i] \in Tokens
          /\ params[n].value.n \in Int
          /\ DOMAIN params[n].desc = DOMAIN DefaultDescriptor
    /\ Delta(pending) <= MaxDelta
    /\ Len(reading.got) <= Len(reading.names)
    /\ nodeShut \in BOOLEAN

\* However a value got there (declared default, command line override, set
\* before or after the declaration), it lies in a range of its descriptor
\* that it reaches in whole steps.
StoredValueInRange ==
    \A n \in DOMAIN params :
        LET v == params[n].value
            d == params[n].desc
        IN  /\ v.type = "integer" /\ d.ranges # {} =>
                 \E r \in d.ranges :
                    /\ v.n \in r.from..r.to
                    /\ r.step = 0 \/ \E k \in 0..(2 * IntMax + 1) : v.n = r.from + k * r.step
            /\ v.type = "double" /\ d.float_ranges # {} =>
                 \E r \in d.float_ranges : v.n \in r.from..r.to

\* Where a list of changes reports a parameter, and its last report there.
ReportedIn(list, n) == {i \in DOMAIN list : list[i].name = n}
LastIs(list, n, v) ==
    \E i \in ReportedIn(list, n) :
        /\ list[i].value = v
        /\ \A j \in ReportedIn(list, n) : j <= i

\* The changes nobody has taken yet tell a language layer everything that
\* differs from the last time it took them: a parameter that appeared or
\* changed is reported with the value it has now, one that disappeared is
\* reported deleted.
PendingCoversDelta ==
    /\ \A n \in DOMAIN params :
          (n \in DOMAIN snap => snap[n] # params[n].value) =>
              \/ LastIs(pending.new, n, params[n].value)
              \/ LastIs(pending.changed, n, params[n].value)
    /\ \A n \in DOMAIN snap \ DOMAIN params : ReportedIn(pending.deleted, n) # {}

\* While a parameter stays declared, a read-only one keeps its value and one
\* of fixed type keeps the type it was given first.
DeclarationHonoured ==
    [][\A n \in DOMAIN params \cap DOMAIN params' :
         LET d == params[n].desc
             v == params[n].value
             w == params'[n].value
         IN  /\ params'[n].desc = d
             /\ d.read_only => w = v
             /\ ~d.dynamic /\ IsSet(v) => w.type = v.type]_paramVars

\* A listing accounts for every matching parameter exactly once: by its own
\* name, or by an ancestor of the requested depth that it lies strictly below.
ListingAccountsForAll ==
    \A l \in Listings :
        LET result == ListParameters(l.prefixes, l.depth)
            below(n) == {p \in result.prefixes : Seqs!IsStrictPrefix(p, n)}
        IN  /\ \A n \in DOMAIN params :
                  (l.prefixes = {} \/ \E p \in l.prefixes : Seqs!IsPrefix(p, n)) =>
                     /\ n \in result.names <=> l.depth = 0 \/ Len(n) <= l.depth
                     /\ n \in result.names \/ below(n) # {}
            /\ \A p \in result.prefixes :
                  Len(p) = l.depth /\ \E n \in DOMAIN params : Seqs!IsStrictPrefix(p, n)

\* The number that decimal digits spell.
Spelt(digits) ==
    LET upTo[i \in 0..Len(digits)] ==
          IF i = 0 THEN 0 ELSE upTo[i - 1] * 10 + digits[i]
    IN  upTo[Len(digits)]

\* A numeric override becomes an integer exactly when the number it spells
\* fits the signed type, and then with that very value; the most negative
\* number is the boundary case.
LiteralExact ==
    \A i \in DOMAIN overrides :
        LET text  == entry.literal
            spelt == Spelt(text.digits)
            value == IF text.negative THEN -spelt ELSE spelt
            fits  == text.digits # <<>> /\ value \in (-(IntMax + 1))..IntMax
        IN  text.kind = "number" =>
               overrides[i].value = IF fits THEN [type |-> "integer", n |-> value]
                                    ELSE [type |-> "string", n |-> 0]

\* dmw.md promises that a read obtains one complete committed state: what a
\* get_parameters call returns is what some single store held during it.
ReadsCommittedState ==
    reading.open /\ Len(reading.got) = Len(reading.names) =>
        \E s \in committed : \A i \in DOMAIN reading.names :
            reading.got[i] = IF reading.names[i] \in DOMAIN s
                             THEN s[reading.names[i]] ELSE NotSet

\* What the store holds and lists, and what it made of the command line, is
\* what declarations, descriptors and requests say.
StoreConsistent ==
    /\ ParamTypeOK
    /\ StoredValueInRange
    /\ ListingAccountsForAll
    /\ LiteralExact
=============================================================================
