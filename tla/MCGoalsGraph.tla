---------------------------- MODULE MCGoalsGraph ----------------------------
(* One run for the two tables that user threads and Fast DDS threads       *)
(* change together: the goals of an ActionServer and the discovery graph.  *)
(* They share nothing, so a behaviour moves one of them, its subject, and  *)
(* the other stays at its initial state.  One thread may make all the      *)
(* calls MaxCalls allows; the threads together make MaxBoth.               *)
EXTENDS ActionGoals, DiscoveryGraph

CONSTANTS t1, t2, g1, g2, p1

Ordered == [g \in Goals |-> IF g = g1 THEN 1 ELSE 2]
OneHome == [e \in Endpoints |-> p1]

\* The threads of both subjects are {t1, t2}; no liveness is checked here.
ThreadSymmetry == Permutations(Threads)

MaxBoth == 4
Together(n) == \A t, u \in DOMAIN n : t # u => n[t] + n[u] <= MaxBoth

VARIABLE subject

TablesInit == subject \in {"goals", "graph"} /\ Init /\ GraphInit

TablesNext ==
    /\ UNCHANGED subject
    /\ \/ subject = "goals" /\ Next /\ Together(calls') /\ UNCHANGED discoveryVars
       \/ subject = "graph" /\ GraphNext /\ Together(graphCalls') /\ UNCHANGED vars

TablesSpec == TablesInit /\ [][TablesNext]_<<subject, vars, discoveryVars>>
-----------------------------------------------------------------------------
(* What is terminal stays so, whoever comes back: the outcome of a goal,   *)
(* an endpoint that was Removed, a graph that became Unavailable.          *)
FinalStaysFinal == TerminalIsFinal /\ RemovedIsTerminal /\ UnavailableIsFinal
=============================================================================
