-------------------------- MODULE MCVirtualServer --------------------------
(* Model-checking instance of VirtualServer. *)
EXTENDS VirtualServer, TLC

CONSTANTS e1, e2

\* Two servers that both offer a search; the first has another tool.
ToolOrder == << <<"git", "find">>, <<"git", "search">>, <<"jira", "search">> >>
ServerPrefix == [s \in {"git", "jira"} |-> <<s>>]

\* All of the tools, git's, and the searches.
Wanted == { ToSet(ToolOrder), {ToolOrder[1], ToolOrder[2]}, {ToolOrder[2], ToolOrder[3]} }

\* No map, one that keeps the tools apart but makes git's find and jira's search one
\* name, and one that gives git's find the name that jira's search has beside git's.
Maps == { <<>>, <<"jira", "search">> :> <<"find">>, <<"git", "find">> :> <<"jira", "search">> }
=============================================================================
