---------------------------- MODULE MCPyRequests ----------------------------
(* Instances of PyRequests for TLC.  What the application and the network  *)
(* do besides calling and answering is chosen once per behaviour, out of   *)
(* Chores: only the beginning of such a thing is restricted, never a step  *)
(* inside it.                                                              *)
EXTENDS PyRequests

VARIABLE chores

AllChores == {{"another"} \cup S :
               S \in {{"cancel", "close"}, {"cancel", "shutdown"}, {"callback", "shutdown"},
                      {"close", "repeat"}, {"close", "fault"}, {"move", "repeat"}}}
             \cup {{"cancel", "repeat"}}
FairChores == {{"cancel", "close"}, {"close", "fault", "callback"}, {"cancel", "callback", "shutdown"},
               {"shutdown", "another"}}

Begins(from, to, o) == from[o] = "idle" /\ to[o] = "begun"

WithinChores ==
    /\ Cardinality({o \in PyCalls : future'[o] # "none"}) > 1 => "another" \in chores
    /\ clientState' = "asked" => "close" \in chores
    /\ (\E o \in PyCalls : Begins(canceller, canceller', o)) => "cancel" \in chores
    /\ (\E o \in PyCalls : Begins(adder, adder', o)) => "callback" \in chores
    /\ moves' > moves => "move" \in chores
    /\ ioFaults' > ioFaults => "fault" \in chores
    /\ execState' = "STOPPING" => "shutdown" \in chores
    /\ (\E o \in PyCalls : replies'[o] > 1 \/ TombstoneExpires(o)) => "repeat" \in chores

ChoresInit == PyInit /\ chores \in SUBSET {"another", "cancel", "close", "shutdown",
                                           "callback", "move", "fault", "repeat"}
ChoresNext == PyNext /\ WithinChores /\ UNCHANGED chores
=============================================================================
