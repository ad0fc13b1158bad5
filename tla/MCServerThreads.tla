-------------------------- MODULE MCServerThreads --------------------------
(* ServerThreads for TLC: the threads are interchangeable.                 *)
EXTENDS ServerThreads, TLC

ThreadSymmetry == Permutations(Threads)
=============================================================================
