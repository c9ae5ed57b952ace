----------------------------- MODULE MCMetrics -----------------------------
(* Metrics on small instances; requests are interchangeable. *)
EXTENDS Metrics, TLC

RequestSymmetry == Permutations(Requests)
=============================================================================
