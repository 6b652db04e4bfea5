----------------------------- MODULE MCSofaRpc ------------------------------
(* SofaRpcWorker for model checking: the clients are interchangeable.       *)
EXTENDS SofaRpcWorker, TLC

Symmetry == Permutations(Clients)
=============================================================================
