---------------------------- MODULE MCWaitSetUses ----------------------------
(* Two uses of a WaitSet in one run: data, capacity changes and removals   *)
(* against waits without a deadline, and shutdown against waits that have  *)
(* one.  Only the environment's choice of calls is restricted, never a     *)
(* step inside a call.                                                     *)
EXTENDS MCWaitSet

VARIABLE use

CallsOfUse ==
    \/ /\ use = "data"
       /\ \A t \in Clients : op'[t] # "shutdown"
       /\ \A w \in Waiters : op'[w] = "wait" => timeout'[w] = "infinite"
    \/ /\ use = "shutdown"
       /\ \A t \in Clients : op'[t] \in {"none", "shutdown"}
       /\ \A w \in Waiters : timeout'[w] # "infinite"
       /\ arrivals' = 0

UseInit == Init /\ use \in {"data", "shutdown"}
UseNext == Next /\ CallsOfUse /\ UNCHANGED use
UseSpec == UseInit /\ [][UseNext]_<<vars, use>> /\ Fairness
=============================================================================
