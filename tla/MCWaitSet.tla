------------------------------ MODULE MCWaitSet ------------------------------
(* Instances of WaitSet for TLC: the initial registrations and symmetry.   *)
EXTENDS WaitSet, TLC

CONSTANTS w1, w2, c1, c2, g1, r1

GuardRegistered  == <<g1>>
ReaderRegistered == <<r1>>
BothRegistered   == <<g1, r1>>

\* Clients run the same operations; used only by runs without liveness.
ClientSymmetry == Permutations(Clients)
=============================================================================
