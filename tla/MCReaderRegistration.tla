------------------------ MODULE MCReaderRegistration ------------------------
(* Instances of ReaderRegistration for TLC. *)
EXTENDS ReaderRegistration, TLC
CONSTANTS t1, t2, t3, r1, r2, r3
Single == {<<r1>>}
Mixed  == {<<r1, r2>>, <<r3>>}
ThreadSymmetry == Permutations(Threads)
=============================================================================
