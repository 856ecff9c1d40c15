--------------------------- MODULE MCPooledClient ---------------------------
(* Model-checking instance of PooledClient. *)
EXTENDS PooledClient, TLC

ClientSymmetry == Permutations(Callers) \cup Permutations(Clients)
=============================================================================
