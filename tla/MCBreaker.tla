------------------------------ MODULE MCBreaker ------------------------------
(* Breaker with interchangeable threads. *)
EXTENDS Breaker, TLC

ThreadSymmetry == Permutations(Threads)
=============================================================================
