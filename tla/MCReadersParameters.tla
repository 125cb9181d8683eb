---------------------- MODULE MCReadersParameters ----------------------
(* One run for two parts that share nothing: the registrations of readers  *)
(* with a WaitSet and the parameters of a Node.  A behaviour moves one of  *)
(* them, its subject; the other stays at one of its initial states.        *)
EXTENDS MCReaderRegistration, Parameters, Functions

(* Parameters: two nested names and one that is refused; a range that is   *)
(* valid, one that is empty, a dynamic and a read-only declaration.        *)
Num(n) == [type |-> "integer", n |-> n]
Txt(n) == [type |-> "string", n |-> n]
A == <<"a">>
AB == <<"a", "b">>
SomeNames == {A, AB, <<"a", "">>}
SomeValues == {Num(1), Txt(0), NotSet}
SomeDescriptors ==
    {DefaultDescriptor,
     [DefaultDescriptor EXCEPT !.dynamic = TRUE, !.ranges = {[from |-> 1, to |-> 4, step |-> 2]}],
     [DefaultDescriptor EXCEPT !.ranges = {[from |-> 4, to |-> 3, step |-> 0]}],
     [DefaultDescriptor EXCEPT !.read_only = TRUE]}
Put(name, value) == [name |-> name, value |-> value]
SomeRequests ==
    {<<Put(A, Num(1))>>, <<Put(AB, Num(2))>>,
     <<Put(A, Txt(0)), Put(AB, Num(3))>>,
     <<Put(A, Num(3)), Put(AB, Num(1))>>,
     <<Put(A, Num(1)), Put(A, Num(3))>>}
SomeReads == {<<A, AB>>}
SomeListings == {[prefixes |-> {}, depth |-> 1], [prefixes |-> {A}, depth |-> 0],
                 [prefixes |-> {AB}, depth |-> 1]}
Number(negative, digits) ==
    [kind |-> "number", negative |-> negative, digits |-> digits, n |-> 0]
SomeEntries ==
    {[scope |-> "", name |-> <<"b">>, literal |-> Number(TRUE, <<1, 2, 9>>)],
     [scope |-> "", name |-> <<"b">>, literal |-> Number(TRUE, <<1, 2, 8>>)],
     [scope |-> "n", name |-> A, literal |-> Number(FALSE, <<2>>)],
     [scope |-> "m", name |-> A, literal |-> Number(FALSE, <<2>>)]}
-----------------------------------------------------------------------------
\* The threads that add, remove and close readers make this many calls together.
MaxTogether == 4

VARIABLE subject

AnyEntry == CHOOSE e \in OverrideEntries : TRUE

BothInit ==
    /\ subject \in {"readers", "parameters"}
    /\ Init /\ ParamInit
    /\ subject # "parameters" => entry = AnyEntry /\ allowUndeclared

BothNext ==
    /\ UNCHANGED subject
    /\ \/ /\ subject = "readers" /\ Next /\ UNCHANGED paramVars
          /\ FoldFunction(+, 0, calls') <= MaxTogether
       \/ subject = "parameters" /\ ParamNext /\ UNCHANGED vars

BothSpec == BothInit /\ [][BothNext]_<<subject, vars, paramVars>>
=============================================================================
