------------------------------ MODULE MCHealth ------------------------------
(* Health on small instances; requests are interchangeable. *)
EXTENDS Health, TLC

RequestSymmetry == Permutations(Requests)
=============================================================================
