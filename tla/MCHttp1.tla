------------------------------ MODULE MCHttp1 -------------------------------
(* Http1Worker on small instances; the clients are interchangeable.        *)
EXTENDS Http1Worker, TLC

Symmetry == Permutations(Clients)
=============================================================================
