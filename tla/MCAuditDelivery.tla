-------------------------- MODULE MCAuditDelivery --------------------------
(* Model-checking instance of AuditDelivery. *)
EXTENDS AuditDelivery

CONSTANTS e1, e2, e3, e4

\* Events are alike: they are accepted in this order.  No fair action accepts one.
InOrder ==
    /\ e2 \in accepted => e1 \in accepted
    /\ e3 \in accepted => e2 \in accepted
    /\ e4 \in accepted => e3 \in accepted
=============================================================================
