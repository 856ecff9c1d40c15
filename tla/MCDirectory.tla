---------------------------- MODULE MCDirectory ----------------------------
(* Model-checking instance of Directory. *)
EXTENDS Directory

CONSTANTS ann, bob, r1, r2, w1, s1

\* Requests that are under way together meet where the directory pushes; a poll has
\* one beside it.  No fair action starts a request.
OnePolled == transport = "poll" => request[r2] = None
=============================================================================
