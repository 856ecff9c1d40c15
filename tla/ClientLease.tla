----------------------------- MODULE ClientLease -----------------------------
(***************************************************************************)
(* What UpstreamClientPool.acquire promises the code in its `async with`   *)
(* block, for one upstream: a client of its own, and never more than       *)
(* max_clients_per_upstream blocks at once.  No waiting, no expiry, no     *)
(* closing: UpstreamPool implements this.                                  *)
(***************************************************************************)
EXTENDS Integers, FiniteSets

CONSTANTS Callers, Clients, NoClient, MaxClients

VARIABLE using      \* the client each caller has, or NoClient

Users == {c \in Callers : using[c] # NoClient}

Init == using = [c \in Callers |-> NoClient]

\* The block is entered with a client nobody else has.
Take(c, k) ==
    /\ using[c] = NoClient
    /\ Cardinality(Users) < MaxClients
    /\ \A d \in Callers : using[d] # k
    /\ using' = [using EXCEPT ![c] = k]

\* The block is left, however it ends.
Return(c) ==
    /\ using[c] # NoClient
    /\ using' = [using EXCEPT ![c] = NoClient]

Next == \E c \in Callers : Return(c) \/ \E k \in Clients : Take(c, k)

Spec == Init /\ [][Next]_using
=============================================================================
