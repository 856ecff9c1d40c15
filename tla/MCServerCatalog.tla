-------------------------- MODULE MCServerCatalog --------------------------
(* Model-checking instance of ServerCatalog. *)
EXTENDS ServerCatalog, TLC

CONSTANTS s1, s2, seed, p1, p2, get, find

\* Jobs of a kind are alike, and so are tools; nothing checked here is liveness.
CatalogSymmetry == Permutations(Syncs) \cup Permutations(Probes) \cup Permutations(Tools)
=============================================================================
