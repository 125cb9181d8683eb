-------------------------- MODULE MCGraphMetadata --------------------------
(* Two participants: two threads of p1 change its nodes, and p1 may die;   *)
(* p2 has a Fast DDS thread that discovers p1 and a thread that asks about *)
(* the graph.                                                              *)
EXTENDS GraphMetadata

CONSTANTS p1, p2, t1, t2, t3, t4

PeerOfWorker == [t \in {t1, t2, t3, t4} |-> IF t \in {t1, t2} THEN p1 ELSE p2]
TwoCommits == [p \in {p1, p2} |-> IF p = p1 THEN 2 ELSE 0]
DutiesOfWorker ==
    [t \in {t1, t2, t3, t4} |->
        CASE t = t3 -> {"discover"} [] t = t4 -> {"ingest"} [] OTHER -> {"commit"}]
=============================================================================
