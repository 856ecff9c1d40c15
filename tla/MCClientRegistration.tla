------------------------ MODULE MCClientRegistration ------------------------
(* Model-checking instance of ClientRegistration. *)
EXTENDS ClientRegistration, TLC

CONSTANTS f1, f2, f3, f4, u1, u2

\* Each user connects twice.
Whose == f1 :> u1 @@ f2 :> u2 @@ f3 :> u1 @@ f4 :> u2
=============================================================================
