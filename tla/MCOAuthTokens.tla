--------------------------- MODULE MCOAuthTokens ---------------------------
(* Model-checking instance of OAuthTokens. *)
EXTENDS OAuthTokens

CONSTANTS c1, c2, ra, rb
=============================================================================
