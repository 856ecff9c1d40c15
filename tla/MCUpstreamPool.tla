--------------------------- MODULE MCUpstreamPool ---------------------------
(* Model-checking instance of UpstreamPool. *)
EXTENDS UpstreamPool, TLC

\* The callers that are not cancelled are alike, and so are the clients; for runs
\* without a temporal property.
PoolSymmetry == Permutations(Callers \ Cancellable) \cup Permutations(Clients)
=============================================================================
