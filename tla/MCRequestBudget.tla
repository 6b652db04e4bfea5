-------------------------- MODULE MCRequestBudget ---------------------------
(* RequestBudget on small instances; the threads are interchangeable.      *)
EXTENDS RequestBudget, TLC

Symmetry == Permutations(Threads)
=============================================================================
