--------------------------- MODULE MCServerCalls ---------------------------
(* One run for the two ends of a service call: the request table of a      *)
(* Server, and the call of a Python client.  They share nothing, so a      *)
(* behaviour moves one of them, its subject, and the other stays at its    *)
(* initial state.  A server meets three requests, or two and a failure:    *)
(* the bound is on their sum; so is that on the calls of its two threads,  *)
(* one of which may make two.                                              *)
EXTENDS Server, MCPyRequests, TLC

MaxBoth == 3

VARIABLE subject

\* The threads of the server and the calls of the client are alike; no
\* liveness is checked here.
EndsSymmetry == Permutations(Threads) \cup Permutations(PyCalls)

EndsInit ==
    /\ Init /\ ChoresInit
    /\ \/ subject = "server" /\ chores = {}
       \/ subject = "calls" /\ chores \in AllChores

EndsNext ==
    /\ UNCHANGED subject
    /\ \/ /\ subject = "server" /\ Next /\ UNCHANGED <<pyVars, chores>>
          /\ arrivals' + faults' <= MaxArrivals
          /\ \A t, u \in Threads : t # u => calls'[t] + calls'[u] <= MaxBoth
       \/ subject = "calls" /\ ChoresNext /\ UNCHANGED vars

EndsSpec == EndsInit /\ [][EndsNext]_<<subject, chores, vars, pyVars>>
=============================================================================
