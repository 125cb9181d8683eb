---------------------------- MODULE MCServiceWait ----------------------------
(* Instances of ServiceWait for TLC. *)
EXTENDS ServiceWait
CONSTANTS w1, w2, p1, p2
=============================================================================
