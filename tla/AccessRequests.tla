--------------------------- MODULE AccessRequests ---------------------------
(***************************************************************************)
(* Access of one user to one virtual server: standing requests, just-in-   *)
(* time (JIT) elevations of the server or of one of its tools, operator    *)
(* decisions and the grants they issue.                                    *)
(* src/vyuu_gateway/registry/access_requests_service.py, jit_service.py    *)
(* and the grant functions of users_service.py.                            *)
(*                                                                         *)
(* The endpoints are synchronous functions that FastAPI runs in a thread   *)
(* pool, each with a session of its own under READ COMMITTED and without   *)
(* row locks: a request is a worker that loads its rows, checks them and   *)
(* commits, and another worker may commit between two of these steps.  A   *)
(* step that raises leaves the tables alone; it ends the request.          *)
(*                                                                         *)
(* Durations are in clock ticks.  The reads one check makes are one step,  *)
(* and an expiry is stamped at the commit.                                 *)
(***************************************************************************)
EXTENDS Integers, Sequences, FiniteSets

CONSTANTS
    Workers,        \* requests being served at a time
    Policies,       \* the JIT policies an operator may configure
    ToolCeilings,   \* the ceilings it may give the tool in jit_tools, 0 = absent
    MaxDuration,    \* MAX_JIT_DURATION_SECONDS
    MaxRequests,    \* bound on the rows of access_requests
    MaxGrants       \* bound on the rows of the two grant tables

ASSUME AccessAssumption ==
    /\ MaxDuration \in Nat \ {0}
    /\ MaxRequests \in Nat
    /\ MaxGrants \in Nat
    /\ Policies \subseteq [enabled : BOOLEAN, auto : BOOLEAN, ceiling : 1..MaxDuration]
    /\ ToolCeilings \subseteq 0..MaxDuration

VARIABLES
    public,         \* VirtualServer.visibility
    policy,         \* its jit_enabled, jit_auto_approve, jit_max_duration_seconds
    toolCeiling,    \* its jit_tools entry of the tool, 0 when the tool has none
    member,         \* is the user in the group that group grants name?
    requests,       \* the rows of access_requests
    grants,         \* the rows of the virtual_server_grants and ..._tool_grants
    tx              \* the transaction of each worker

config == <<public, policy, toolCeiling, member>>
rows == <<requests, grants>>
vars == <<public, policy, toolCeiling, member, requests, grants, tx>>

Forever == -1       \* expires_at is NULL
Durations == 1..MaxDuration

\* asked = 0 is a request for standing access; grant is created_grant_id.
Request == [status : {"pending", "approved", "declined", "withdrawn"},
            tool : BOOLEAN, asked : 0..MaxDuration, grant : 0..MaxGrants]

\* left is the time until expires_at; for is the request whose approval issued
\* the grant, which the audit row of the approval records.
Grant == [kind : {"user", "group", "tool"},
          via : {"operator", "jit_auto", "jit_approved"},
          left : Forever..MaxDuration, revoked : BOOLEAN, for : 0..MaxRequests]

\* on is the request a decision is about, time the duration it will issue
\* (0 = standing), covered whether the user was found to have access.
Transaction == [op : {"none", "submit", "jit", "elevate", "approve", "decline", "withdraw"},
                step : {"loaded", "checked"}, on : 0..MaxRequests,
                time : 0..MaxDuration, auto : BOOLEAN, covered : BOOLEAN]

NoTx == [op |-> "none", step |-> "loaded", on |-> 0, time |-> 0,
         auto |-> FALSE, covered |-> FALSE]

\* Types; every decision under way is about a row that exists.
TypeOK ==
    /\ public \in BOOLEAN
    /\ policy \in [enabled : BOOLEAN, auto : BOOLEAN, ceiling : Durations]
    /\ toolCeiling \in 0..MaxDuration
    /\ member \in BOOLEAN
    /\ requests \in Seq(Request)
    /\ Len(requests) <= MaxRequests
    /\ grants \in Seq(Grant)
    /\ Len(grants) <= MaxGrants
    /\ tx \in [Workers -> Transaction]
    /\ \A w \in Workers :
        tx[w].op \in {"approve", "decline", "withdraw"} => tx[w].on \in 1..Len(requests)

\* A private server with some policy and empty tables.
Init ==
    /\ public = FALSE
    /\ policy \in Policies
    /\ toolCeiling \in ToolCeilings
    /\ member = FALSE
    /\ requests = << >>
    /\ grants = << >>
    /\ tx = [w \in Workers |-> NoTx]

-----------------------------------------------------------------------------
(* Grants *)

Active(g) == ~grants[g].revoked /\ grants[g].left # 0

\* _user_has_active_grant, and assert_principal_can_access_vserver on a private
\* server.
HasAccess ==
    \E g \in 1..Len(grants) :
        /\ Active(g)
        /\ grants[g].kind = "user" \/ (grants[g].kind = "group" /\ member)

Insert(kind, via, left, r) ==
    /\ Len(grants) < MaxGrants
    /\ grants' = Append(grants, [kind |-> kind, via |-> via, left |-> left,
                                 revoked |-> FALSE, for |-> r])

Ends(w) == tx' = [tx EXCEPT ![w] = NoTx]
Goes(w, t) == tx' = [tx EXCEPT ![w] = t]

-----------------------------------------------------------------------------
(* The user asks.  First the server is loaded and its policy applied.        *)

\* submit_access_request
LoadStanding(w) ==
    /\ tx[w].op = "none"
    /\ ~public
    /\ Goes(w, [NoTx EXCEPT !.op = "submit"])
    /\ UNCHANGED <<config, rows>>

\* request_jit_access
LoadJit(w, d) ==
    /\ tx[w].op = "none"
    /\ ~public
    /\ policy.enabled
    /\ d <= policy.ceiling
    /\ Goes(w, [NoTx EXCEPT !.op = "jit", !.time = d, !.auto = policy.auto])
    /\ UNCHANGED <<config, rows>>

\* request_tool_elevation
LoadTool(w, d) ==
    /\ tx[w].op = "none"
    /\ d <= toolCeiling
    /\ Goes(w, [NoTx EXCEPT !.op = "elevate", !.time = d, !.auto = policy.auto])
    /\ UNCHANGED <<config, rows>>

\* Access may only be asked for by a user who has none, and a tool elevation
\* only by one who has some; otherwise the request raises.
CheckRequest(w) ==
    /\ tx[w].op \in {"submit", "jit", "elevate"}
    /\ tx[w].step = "loaded"
    /\ IF HasAccess <=> tx[w].op = "elevate"
         THEN Goes(w, [tx[w] EXCEPT !.step = "checked"])
         ELSE Ends(w)
    /\ UNCHANGED <<config, rows>>

Pending == {r \in 1..Len(requests) : requests[r].status = "pending"}

\* The insert; the partial unique index on (user_id, vserver_id) refuses a second
\* pending row, whatever it asks for (DuplicatePendingRequestError).
Enqueue(w) ==
    /\ tx[w].op \in {"submit", "jit", "elevate"}
    /\ tx[w].step = "checked"
    /\ ~tx[w].auto
    /\ \/ Pending # {} /\ UNCHANGED requests
       \/ /\ Pending = {}
          /\ Len(requests) < MaxRequests
          /\ requests' = Append(requests, [status |-> "pending", tool |-> tx[w].op = "elevate",
                                           asked |-> tx[w].time, grant |-> 0])
    /\ Ends(w)
    /\ UNCHANGED <<config, grants>>

\* issue_jit_grant and _issue_tool_elevation: nobody decides.
AutoGrant(w) ==
    /\ tx[w].op \in {"jit", "elevate"}
    /\ tx[w].step = "checked"
    /\ tx[w].auto
    /\ Insert(IF tx[w].op = "jit" THEN "user" ELSE "tool", "jit_auto", tx[w].time, 0)
    /\ Ends(w)
    /\ UNCHANGED <<config, requests>>

-----------------------------------------------------------------------------
(* A pending request is decided: by the operator, or by the user who          *)
(* withdraws it.                                                              *)

\* An operator whose name starts with Bug is a plausible mistake in the
\* definition after it; no specification uses it.
BugLoadDecided(w, op, r, d) ==
    /\ tx[w].op = "none"
    /\ requests[r].status # "withdrawn"
    /\ Goes(w, [NoTx EXCEPT !.op = op, !.on = r,
                    !.time = IF d = 0 THEN requests[r].asked ELSE d])
    /\ UNCHANGED <<config, rows>>

\* _load_pending, and the load in withdraw_access_request.  An approver may name
\* a duration; without one (d = 0) the request's own applies.
LoadPending(w, op, r, d) ==
    /\ tx[w].op = "none"
    /\ requests[r].status = "pending"
    /\ Goes(w, [NoTx EXCEPT !.op = op, !.on = r,
                    !.time = IF d = 0 THEN requests[r].asked ELSE d])
    /\ UNCHANGED <<config, rows>>

BugWithinLimits(r, d) == ~requests[r].tool => d <= policy.ceiling

\* Not more than was asked for and, except for a tool, than the server's ceiling.
WithinLimits(r, d) ==
    /\ requests[r].asked # 0 => d <= requests[r].asked
    /\ ~requests[r].tool => d <= policy.ceiling

\* approve_access_request before it writes.  A user who has access by now needs
\* no grant; the durations are then not looked at (_approved_expiry).
CheckApproval(w) ==
    LET t == tx[w]
        covered == ~requests[t.on].tool /\ HasAccess
    IN  /\ t.op = "approve"
        /\ t.step = "loaded"
        /\ IF covered \/ WithinLimits(t.on, t.time)
             THEN Goes(w, [t EXCEPT !.step = "checked", !.covered = covered])
             ELSE Ends(w)
        /\ UNCHANGED <<config, rows>>

\* The status and, when a server grant was created, its id are written over what
\* the row holds by now: the UPDATE names the row and not the status it had.
Decide(r, status, grant) ==
    requests' = [requests EXCEPT ![r] =
        [status |-> status, tool |-> requests[r].tool, asked |-> requests[r].asked,
         grant |-> IF grant = 0 THEN requests[r].grant ELSE grant]]

CommitApproval(w) ==
    LET t == tx[w]
        tool == requests[t.on].tool
    IN  /\ t.op = "approve"
        /\ t.step = "checked"
        /\ IF t.covered
             THEN UNCHANGED grants
             ELSE Insert(IF tool THEN "tool" ELSE "user",
                         IF t.time = 0 THEN "operator" ELSE "jit_approved",
                         IF t.time = 0 THEN Forever ELSE t.time,
                         t.on)
        /\ Decide(t.on, "approved",
                  IF t.covered \/ tool THEN 0 ELSE Len(grants) + 1)
        /\ Ends(w)
        /\ UNCHANGED config

\* decline_access_request and withdraw_access_request
CommitRefusal(w) ==
    /\ tx[w].op \in {"decline", "withdraw"}
    /\ Decide(tx[w].on, IF tx[w].op = "decline" THEN "declined" ELSE "withdrawn", 0)
    /\ Ends(w)
    /\ UNCHANGED <<config, grants>>

-----------------------------------------------------------------------------
(* What operators do beside the queue.  Each is one UPDATE or INSERT that      *)
(* depends on nothing it read.                                                 *)

\* issue_grant
IssueGrant ==
    /\ \E kind \in {"user", "group"}, left \in {Forever} \cup Durations :
        Insert(kind, "operator", left, 0)
    /\ UNCHANGED <<config, requests, tx>>

\* revoke_grant; tool elevations have no such function.
RevokeGrant ==
    /\ \E g \in 1..Len(grants) :
        /\ grants[g].kind # "tool"
        /\ ~grants[g].revoked
        /\ grants' = [grants EXCEPT ![g].revoked = TRUE]
    /\ UNCHANGED <<config, requests, tx>>

\* configure_vserver_jit
ConfigureJit ==
    /\ \E p \in Policies :
        /\ p.enabled => ~public
        /\ policy' = p
    /\ UNCHANGED <<public, toolCeiling, member, rows, tx>>

\* configure_vserver_jit_tools
ConfigureTools ==
    /\ toolCeiling' \in ToolCeilings
    /\ UNCHANGED <<public, policy, member, rows, tx>>

\* set_vserver_visibility
SetVisibility ==
    /\ public' = ~public
    /\ UNCHANGED <<policy, toolCeiling, member, rows, tx>>

\* add_group_member, remove_group_member
SetMembership ==
    /\ member' = ~member
    /\ UNCHANGED <<public, policy, toolCeiling, rows, tx>>

Tick ==
    /\ grants' = [g \in 1..Len(grants) |->
                    [grants[g] EXCEPT !.left = IF @ > 0 THEN @ - 1 ELSE @]]
    /\ UNCHANGED <<config, requests, tx>>

-----------------------------------------------------------------------------
Ask(w) ==
    \/ LoadStanding(w)
    \/ \E d \in Durations : LoadJit(w, d) \/ LoadTool(w, d)
    \/ CheckRequest(w) \/ Enqueue(w) \/ AutoGrant(w)

Settle(w) ==
    \/ \E r \in 1..Len(requests) :
        \/ \E d \in 0..MaxDuration : LoadPending(w, "approve", r, d)
        \/ LoadPending(w, "decline", r, 0)
        \/ LoadPending(w, "withdraw", r, 0)
    \/ CheckApproval(w) \/ CommitApproval(w) \/ CommitRefusal(w)

Administer ==
    IssueGrant \/ RevokeGrant \/ ConfigureJit \/ ConfigureTools
    \/ SetVisibility \/ SetMembership

Next ==
    \/ \E w \in Workers : Ask(w) \/ Settle(w)
    \/ Administer
    \/ Tick

Spec == Init /\ [][Next]_vars

-----------------------------------------------------------------------------
(* Properties *)

\* Nobody gets more time than was asked for, and no JIT elevation becomes
\* standing access: whatever path a request takes (automatic, approved with a
\* shorter duration, approved without one, two approvals at once), the grant it
\* leads to has an expiry no later than the request's.
JitIsTemporary ==
    \A g \in 1..Len(grants) :
        /\ grants[g].via # "operator" => grants[g].left # Forever
        /\ grants[g].for # 0 =>
            LET asked == requests[grants[g].for].asked
            IN  asked # 0 => grants[g].left \in 0..asked
=============================================================================
