---------------------------- MODULE AccessRaces ----------------------------
(***************************************************************************)
(* AccessRequests with a history of the decisions that overlapped.  The    *)
(* code checks a request on a row that it read and writes the row          *)
(* afterwards, with nothing in between that would keep two workers apart   *)
(* (registry/access_requests_service.py, _load_pending and its callers).   *)
(* What that can spoil is a request whose decisions overlap; what no       *)
(* interleaving of the other requests can spoil is stated here.            *)
(***************************************************************************)
EXTENDS AccessRequests

VARIABLE raced      \* the requests that two workers had loaded, pending, at one time

\* Two workers are between _load_pending and their commit.
Overlap == {r \in 1..Len(requests) :
                \E v, w \in Workers : v # w /\ tx[v].on = r /\ tx[w].on = r}

RInit == Init /\ raced = {}

RNext == Next /\ raced' = raced \cup Overlap'

RSpec == RInit /\ [][RNext]_<<vars, raced>>

-----------------------------------------------------------------------------
(* Properties *)

\* "Re-checks the request is pending (race-safe against a parallel withdraw /
\* approve)": a request whose decisions did not overlap is decided once, whatever
\* else was submitted, granted, revoked or configured while it was decided.
DecidedOnce ==
    [][\A r \in (1..Len(requests)) \ raced' :
        requests[r].status # "pending" => requests'[r] = requests[r]]_<<vars, raced>>

\* The lineage of a grant: the request that led to it is approved, led to no
\* other, and names it when it is a grant of the server; no request names the
\* grant of another.  Overlapping decisions of one request spoil its own only.
GrantMatchesDecision ==
    /\ \A g \in 1..Len(grants) : grants[g].for \notin raced \cup {0} =>
        LET r == grants[g].for
        IN  /\ requests[r].status = "approved"
            /\ \A h \in 1..Len(grants) : grants[h].for = r => h = g
            /\ grants[g].kind = "user" => requests[r].grant = g
    /\ \A r \in 1..Len(requests) :
        requests[r].grant # 0 => grants[requests[r].grant].for = r
=============================================================================
