----------------------------- MODULE MCDatabase -----------------------------
(* Instances of Database for TLC. *)
EXTENDS Database, TLC

CONSTANTS t1, t2

TwoThreads == {t1, t2}
ThreadSymmetry == Permutations(Threads)
=============================================================================
