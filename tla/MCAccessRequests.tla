-------------------------- MODULE MCAccessRequests --------------------------
(* Model-checking instance of AccessRequests with its history of overlaps. *)
EXTENDS AccessRaces, TLC

\* By approval with a long ceiling, and self-service with a short one.
LongOrAuto == {[enabled |-> TRUE, auto |-> FALSE, ceiling |-> 2],
               [enabled |-> TRUE, auto |-> TRUE, ceiling |-> 1]}

\* While two workers are busy, nothing lasts longer than a tick, and the server stays
\* private, which no step but the first of a worker asks for.
Short ==
    /\ ~public
    /\ \A w \in Workers : tx[w].time <= 1
    /\ \A r \in 1..Len(requests) : requests[r].asked <= 1
    /\ \A g \in 1..Len(grants) : grants[g].left <= 1

Alone == \A v, w \in Workers : v # w => NoTx \in {tx[v], tx[w]}

AloneOrShort == Alone \/ Short

AccessSymmetry == Permutations(Workers)
=============================================================================
