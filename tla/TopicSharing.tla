---------------------------- MODULE TopicSharing ----------------------------
(***************************************************************************)
(* What Context::acquire_topic promises to the endpoints of a Context: a   *)
(* thread that was given a DDS topic keeps it until it releases it, however *)
(* many others share the topic, and a topic can become unusable (its DDS   *)
(* state is unknown) only while nobody holds it, and then for good.        *)
(***************************************************************************)
CONSTANTS Holders, SharedTopics, Nothing

VARIABLES held, lost

sharingVars == <<held, lost>>

SharingInit == /\ held = [h \in Holders |-> Nothing]
               /\ lost = {}

Take(h, k) == /\ held[h] = Nothing /\ k \notin lost
              /\ held' = [held EXCEPT ![h] = k]
              /\ UNCHANGED lost

GiveBack(h) == /\ held[h] # Nothing
               /\ held' = [held EXCEPT ![h] = Nothing]
               /\ UNCHANGED lost

Lose(k) == /\ \A h \in Holders : held[h] # k
           /\ lost' = lost \cup {k}
           /\ UNCHANGED held

SharingNext == \/ \E h \in Holders, k \in SharedTopics : Take(h, k)
               \/ \E h \in Holders : GiveBack(h)
               \/ \E k \in SharedTopics : Lose(k)

SharingSpec == SharingInit /\ [][SharingNext]_sharingVars
=============================================================================
