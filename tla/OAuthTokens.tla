---------------------------- MODULE OAuthTokens ----------------------------
(***************************************************************************)
(* The tokens with which tools of one upstream server are called: fetched, *)
(* refreshed, given up after a 401 and fetched again for one retry.        *)
(*                                                                         *)
(* Either the server takes the token of one user, a row of the database    *)
(* that all replicas share (src/vyuu_gateway/upstream/oauth_authcode.py),  *)
(* or a token of the gateway's own, which each replica keeps in memory     *)
(* (upstream/oauth.py, upstream/oauth_jwt_bearer.py).  The calls are those *)
(* of mcp/outbound.py's StreamableHttpMcpClient.                           *)
(*                                                                         *)
(* Tokens are numbered in the order in which the authorization server      *)
(* issues them: grant n is access token n and, maybe, refresh token n.     *)
(***************************************************************************)
EXTENDS Naturals, FiniteSets

CONSTANTS
    Calls,          \* tool calls, each made once
    Replicas,
    MaxGrants,      \* bound: how often the authorization server issues tokens
    MaxRevoked,     \* bound: how many access tokens, and refresh tokens, are revoked
    None

ASSUME TokensAssumption ==
    /\ MaxGrants \in Nat /\ MaxRevoked \in Nat
    /\ None \notin Calls

VARIABLES
    provider,       \* "user" or "service"
    replicaOf,      \* where a call runs
    row,            \* the row of oauth_user_tokens, or NoRow
    flagged,        \* _invalidated: the replicas that have the user in it
    cache,          \* _access_token and _expires_at of each replica
    lock,           \* the call that holds the (per-user) lock of each replica
    call,           \* where each call is
    issued,         \* the number of grants
    live,           \* the access tokens that the upstream server accepts
    renewable,      \* the refresh tokens that the authorization server accepts
    revoked,        \* history: refresh tokens taken back by somebody
    upset           \* history: a refresh was overtaken, or its answer was lost

setting == <<provider, replicaOf>>
gateway == <<row, flagged, cache, lock, call>>
server == <<issued, live, renewable>>
vars == <<setting, gateway, server, revoked, upset>>

Grants == 1 .. MaxGrants

\* until is "open" where no expiry is known; id tells a row from one that was
\* written after a deletion.
NoRow == [access |-> 0, refresh |-> 0, until |-> "past", id |-> 0]
Row == [access : 0 .. MaxGrants, refresh : 0 .. MaxGrants, until : {"later", "past", "open"},
        id : 0 .. MaxGrants]

\* try is the first or the second attempt; token is the token in use or granted,
\* first the token of the first attempt, loaded the row as fetch_token read it.
Call == [at : {"fetch", "asking", "granted", "calling", "refused", "reauthorise", "ended"},
         try : {1, 2}, token : 0 .. MaxGrants, renew : 0 .. MaxGrants, first : 0 .. MaxGrants,
         loaded : Row]
NewCall == [at |-> "fetch", try |-> 1, token |-> 0, renew |-> 0, first |-> 0, loaded |-> NoRow]

TypeOK ==
    /\ provider \in {"user", "service"}
    /\ replicaOf \in [Calls -> Replicas]
    /\ row \in Row
    /\ flagged \subseteq Replicas
    /\ cache \in [Replicas -> 0 .. MaxGrants]
    /\ lock \in [Replicas -> Calls \cup {None}]
    /\ call \in [Calls -> Call]
    /\ issued \in 0 .. MaxGrants
    /\ live \subseteq Grants /\ renewable \subseteq Grants /\ revoked \subseteq Grants
    /\ upset \in BOOLEAN

Init ==
    /\ provider \in {"user", "service"}
    /\ replicaOf \in [Calls -> Replicas]
    /\ row = NoRow
    /\ flagged = {}
    /\ cache = [r \in Replicas |-> 0]
    /\ lock = [r \in Replicas |-> None]
    /\ call = [c \in Calls |-> NewCall]
    /\ issued = 0
    /\ live = {} /\ renewable = {} /\ revoked = {}
    /\ upset = FALSE

At(c, p) == call[c].at = p
Go(c, p) == call' = [call EXCEPT ![c].at = p]
Hold(c) == lock' = [lock EXCEPT ![replicaOf[c]] = c]
Release(c) == lock' = [lock EXCEPT ![replicaOf[c]] = None]
Free(c) == lock[replicaOf[c]] = None

\* The calls that refresh the user's row now, in whatever replica.
Refreshing == {c \in Calls : provider = "user" /\ call[c].at \in {"asking", "granted"}}

\* The answer to the client for whom no token can be had.
Ends(c, p) == call' = [call EXCEPT ![c] = [NewCall EXCEPT !.at = p]]

-----------------------------------------------------------------------------
(* fetch_token *)

Expired(w) == w.until = "past" \/ (w.until = "open" /\ w.refresh # 0)

\* With the token t in hand the call is sent.
Sends(c, t) == call' = [call EXCEPT ![c].at = "calling", ![c].token = t]

BugFetchForgets(c) ==
    LET r == replicaOf[c]
    IN  /\ provider = "user"
        /\ At(c, "fetch") /\ Free(c)
        /\ IF row # NoRow /\ (r \in flagged \/ Expired(row)) /\ row.refresh # 0
             THEN /\ call' = [call EXCEPT ![c].at = "asking", ![c].loaded = row]
                  /\ flagged' = flagged \ {r}
                  /\ Hold(c)
                  /\ upset' = (upset \/ Refreshing # {})
             ELSE /\ IF row = NoRow \/ r \in flagged \/ Expired(row)
                       THEN Ends(c, "reauthorise") ELSE Sends(c, row.access)
                  /\ UNCHANGED <<flagged, lock, upset>>
        /\ UNCHANGED <<setting, row, cache, server, revoked>>

BugFetchUnlocked(c) ==
    LET r == replicaOf[c]
    IN  /\ provider = "user"
        /\ At(c, "fetch")
        /\ IF row # NoRow /\ (r \in flagged \/ Expired(row)) /\ row.refresh # 0
             THEN /\ call' = [call EXCEPT ![c].at = "asking", ![c].loaded = row]
                  /\ Hold(c)
                  /\ upset' = (upset \/ \E d \in Refreshing : replicaOf[d] # r)
             ELSE /\ IF row = NoRow \/ r \in flagged \/ Expired(row)
                       THEN Ends(c, "reauthorise") ELSE Sends(c, row.access)
                  /\ UNCHANGED <<lock, upset>>
        /\ UNCHANGED <<setting, row, flagged, cache, server, revoked>>

\* Under the lock, which is kept while the authorization server is asked.
FetchUser(c) ==
    LET r == replicaOf[c]
    IN  /\ provider = "user"
        /\ At(c, "fetch") /\ Free(c)
        /\ IF row # NoRow /\ (r \in flagged \/ Expired(row)) /\ row.refresh # 0
             THEN /\ call' = [call EXCEPT ![c].at = "asking", ![c].loaded = row]
                  /\ Hold(c)
                  /\ upset' = (upset \/ \E d \in Refreshing : replicaOf[d] # r)
             ELSE /\ IF row = NoRow \/ r \in flagged \/ Expired(row)
                       THEN Ends(c, "reauthorise") ELSE Sends(c, row.access)
                  /\ UNCHANGED <<lock, upset>>
        /\ UNCHANGED <<setting, row, flagged, cache, server, revoked>>

\* A cached token is taken without the lock.
FetchService(c) ==
    LET r == replicaOf[c]
    IN  /\ provider = "service"
        /\ At(c, "fetch")
        /\ \/ /\ cache[r] # 0
              /\ Sends(c, cache[r])
              /\ UNCHANGED lock
           \/ /\ cache[r] = 0 /\ Free(c)
              /\ Go(c, "asking")
              /\ Hold(c)
        /\ UNCHANGED <<setting, row, flagged, cache, server, revoked, upset>>

\* The authorization server grants the refresh; it may rotate the refresh token.
Grant(c) ==
    LET n == issued + 1
        old == call[c].loaded.refresh
    IN  /\ At(c, "asking")
        /\ n \in Grants
        /\ issued' = n
        /\ live' = live \cup {n}
        /\ \/ /\ provider = "service"
              /\ call' = [call EXCEPT ![c].at = "granted", ![c].token = n]
              /\ UNCHANGED renewable
           \/ /\ provider = "user"
              /\ old \in renewable
              /\ \E new \in {old, n} :
                    /\ renewable' = (renewable \ {old}) \cup {new}
                    /\ call' = [call EXCEPT ![c].at = "granted", ![c].token = n, ![c].renew = new]
        /\ UNCHANGED <<setting, row, flagged, cache, lock, revoked, upset>>

BugDeny(c) ==
    /\ call[c].at \in {"asking", "granted"}
    /\ Ends(c, "ended")
    /\ upset' = (upset \/ At(c, "granted"))
    /\ UNCHANGED <<setting, row, flagged, cache, lock, server, revoked>>

\* A refusal, a timeout, or a grant whose answer does not arrive.
Deny(c) ==
    /\ call[c].at \in {"asking", "granted"}
    /\ Ends(c, "ended")
    /\ Release(c)
    /\ upset' = (upset \/ At(c, "granted"))
    /\ UNCHANGED <<setting, row, flagged, cache, server, revoked>>

BugStoreAnew(c) ==
    /\ provider = "user"
    /\ At(c, "granted")
    /\ Release(c)
    /\ row' = [access |-> call[c].token, refresh |-> call[c].renew,
               until |-> "later", id |-> call[c].loaded.id]
    /\ flagged' = flagged \ {replicaOf[c]}
    /\ Sends(c, call[c].token)
    /\ UNCHANGED <<setting, cache, server, revoked, upset>>

\* The row that was loaded is updated, unless it is gone.
StoreUser(c) ==
    /\ provider = "user"
    /\ At(c, "granted")
    /\ Release(c)
    /\ IF row.id = call[c].loaded.id
         THEN /\ row' = [access |-> call[c].token, refresh |-> call[c].renew,
                         until |-> "later", id |-> row.id]
              /\ flagged' = flagged \ {replicaOf[c]}
              /\ Sends(c, call[c].token)
         ELSE UNCHANGED <<row, flagged>> /\ Ends(c, "ended")
    /\ UNCHANGED <<setting, cache, server, revoked, upset>>

StoreService(c) ==
    /\ provider = "service"
    /\ At(c, "granted")
    /\ Release(c)
    /\ cache' = [cache EXCEPT ![replicaOf[c]] = call[c].token]
    /\ Sends(c, call[c].token)
    /\ UNCHANGED <<setting, row, flagged, server, revoked, upset>>

-----------------------------------------------------------------------------
(* StreamableHttpMcpClient.call_tool *)

Served(c) ==
    /\ At(c, "calling")
    /\ call[c].token \in live
    /\ Ends(c, "ended")
    /\ UNCHANGED <<setting, row, flagged, cache, lock, server, revoked, upset>>

\* A 401: one retry, after the token has been given up.
Unauthorized(c) ==
    /\ At(c, "calling")
    /\ call[c].token \notin live
    /\ IF call[c].try = 1 THEN Go(c, "refused") ELSE Ends(c, "ended")
    /\ UNCHANGED <<setting, row, flagged, cache, lock, server, revoked, upset>>

\* invalidate, under the lock.
Invalidate(c) ==
    LET r == replicaOf[c]
    IN  /\ At(c, "refused") /\ Free(c)
        /\ IF provider = "user"
             THEN flagged' = flagged \cup {r} /\ UNCHANGED cache
             ELSE cache' = [cache EXCEPT ![r] = 0] /\ UNCHANGED flagged
        /\ call' = [call EXCEPT ![c].at = "fetch", ![c].try = 2,
                                ![c].first = call[c].token, ![c].token = 0]
        /\ UNCHANGED <<setting, row, lock, server, revoked, upset>>

-----------------------------------------------------------------------------
(* The user *)

\* The callback's upsert, with the tokens of a new consent.
Connect(until, renews) ==
    LET n == issued + 1
        refresh == IF renews THEN n ELSE 0
    IN  /\ provider = "user"
        /\ n \in Grants
        /\ issued' = n
        /\ live' = live \cup {n}
        /\ renewable' = IF renews THEN renewable \cup {n} ELSE renewable
        /\ row' = [access |-> n, refresh |-> refresh, until |-> until,
                   id |-> IF row = NoRow THEN n ELSE row.id]
        /\ upset' = (upset \/ Refreshing # {})
        /\ UNCHANGED <<setting, flagged, cache, lock, call, revoked>>

\* The user disconnects, or the client registration is given up.
Disconnect ==
    /\ row # NoRow
    /\ row' = NoRow
    /\ UNCHANGED <<setting, flagged, cache, lock, call, server, revoked, upset>>

-----------------------------------------------------------------------------
(* Time and the servers *)

\* A lifetime, less the safety buffer, has passed.
Expire ==
    \/ /\ row.until = "later"
       /\ row' = [row EXCEPT !.until = "past"]
       /\ UNCHANGED <<setting, flagged, cache, lock, call, server, revoked, upset>>
    \/ /\ \E r \in Replicas : cache[r] # 0 /\ cache' = [cache EXCEPT ![r] = 0]
       /\ UNCHANGED <<setting, row, flagged, lock, call, server, revoked, upset>>

\* The upstream server no longer accepts an access token; an authorization server
\* no longer accepts a refresh token.
Revoke ==
    \/ /\ Cardinality(1 .. issued) < MaxRevoked + Cardinality(live)
       /\ \E t \in live : live' = live \ {t}
       /\ UNCHANGED <<setting, gateway, issued, renewable, revoked, upset>>
    \/ /\ Cardinality(revoked) < MaxRevoked
       /\ \E t \in renewable : renewable' = renewable \ {t} /\ revoked' = revoked \cup {t}
       /\ UNCHANGED <<setting, gateway, issued, live, upset>>

Fetch(c) == FetchUser(c) \/ FetchService(c)
Store(c) == StoreUser(c) \/ StoreService(c)
Answer(c) == Grant(c) \/ Deny(c) \/ Store(c)
CallTool(c) == Served(c) \/ Unauthorized(c) \/ Invalidate(c)

Next ==
    \/ \E c \in Calls : Fetch(c) \/ Answer(c) \/ CallTool(c)
    \/ \E until \in {"later", "open"}, renews \in BOOLEAN : Connect(until, renews)
    \/ Disconnect
    \/ Expire
    \/ Revoke

\* Requests carry timeouts, and the event loop runs what is ready.  The locks are
\* handed on in order, so that who waits for a free one gets it; as each call takes
\* one three times at most, weak fairness says as much.
Spec ==
    /\ Init
    /\ [][Next]_vars
    /\ \A c \in Calls : WF_vars(Fetch(c)) /\ WF_vars(Answer(c)) /\ WF_vars(CallTool(c))

-----------------------------------------------------------------------------
(* Properties *)

Asking(r) == {c \in Calls : call[c].at \in {"asking", "granted"} /\ replicaOf[c] = r}

\* "The auth server only sees one token request per refresh, not N racing
\* requests": whatever calls come, expire and are refused together in a replica,
\* at most one of them asks the authorization server, and it holds the lock.
SingleFlight ==
    \A r \in Replicas : \A c \in Asking(r) : lock[r] = c

\* The retry after a 401 does not present the token that was just refused, however
\* the other calls' refreshes succeed, fail and clear the flag in between.
RetryUsesAnotherToken ==
    \A c \in Calls : At(c, "calling") /\ call[c].try = 2 => call[c].token # call[c].first

\* The stored refresh token is one that the authorization server still takes,
\* unless it was revoked, or a refresh was overtaken by a new consent or by
\* another replica, or its answer was lost.
RefreshTokenKept ==
    /\ row.refresh # 0 /\ ~upset /\ Refreshing = {}
    => row.refresh \in renewable \cup revoked

\* Who has disconnected stays so: a refresh under way brings no token back.  Only
\* a new consent, which is a grant, does.
DisconnectedStays ==
    [][row = NoRow /\ row' # NoRow => issued' > issued]_vars

\* Every call ends, and none is left waiting for a lock.
CallsEnd ==
    \A c \in Calls : <>(call[c].at \in {"reauthorise", "ended"})

\* "Tool calls that need this connection will now work as you": nobody is asked
\* to authorise again while the stored token is good.
ConnectedWorks ==
    [][\A c \in Calls : At(c, "fetch") /\ call'[c].at = "reauthorise" =>
          row.access \notin live \/ row.until = "past"]_vars

\* "Concurrent calls from the same user collapse to one refresh": a call in the
\* same replica does not give up a token that is good.
GoodTokenKept ==
    [][flagged' \subseteq flagged \/ row.access \notin live]_vars
=============================================================================
