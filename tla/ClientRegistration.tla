------------------------- MODULE ClientRegistration -------------------------
(***************************************************************************)
(* The gateway as an OAuth client of one upstream server: how it gets its  *)
(* client identity at the authorization server (registered, or its own     *)
(* document URL, CIMD), how users connect under it, and how it is given up *)
(* when the authorization server refuses it.                               *)
(* src/vyuu_gateway/api/oauth_authcode.py (initiate and callback) and      *)
(* upstream/oauth_authcode.py (refresh).                                   *)
(*                                                                         *)
(* One replica.  Its endpoints are coroutines of one event loop that use   *)
(* the database synchronously: what lies between two awaits is one step.   *)
(* A statement that has to wait for a row lock stops the whole loop.       *)
(***************************************************************************)
EXTENDS Naturals, FiniteSets

CONSTANTS
    Users,
    Flows,          \* the Connect attempts, each made once
    UserOf,         \* whose attempt it is
    Cimd,           \* the client_id that is the URL of our own document
    None

\* A client registered by a flow goes by the name of the flow.
Clients == Flows \cup {Cimd}

ASSUME RegistrationAssumption ==
    /\ UserOf \in [Flows -> Users]
    /\ Cimd # None /\ {None, Cimd} \cap Flows = {}

VARIABLES
    reg,            \* the row of mcp_server_dcr_clients
    accepted,       \* the clients that the authorization server accepts
    flow,           \* where each Connect attempt is
    lock,           \* the flow whose open transaction has deleted the row
    stuck,          \* does the event loop wait for that lock?
    tokens,         \* the rows of oauth_user_tokens, by user
    refresh,        \* the refresh under way of each user's token
    overtaken,      \* history: flows whose code was being exchanged at a drop
    misplaced       \* history: has a registered client been marked as our document?

gateway == <<reg, lock, tokens, refresh>>
history == <<overtaken, misplaced>>
vars == <<gateway, accepted, flow, stuck, history>>

Registration == [mech : {"none", "dcr", "cimd", "cimd_rejected"}, client : Clients \cup {None}]
NoReg == [mech |-> "none", client |-> None]

\* code is the client that the user gave consent to, client and mech what the
\* callback read for the exchange.
Flow == [at : {"new", "registering", "consent", "exchanging", "granted", "refused", "done"},
         code : Clients \cup {None}, client : Clients \cup {None}, mech : {"none", "dcr", "cimd", "cimd_rejected"}]
NewFlow == [at |-> "new", code |-> None, client |-> None, mech |-> "none"]

\* row is the identity of the row, by the flow whose callback wrote it last.
Token == [client : Clients, row : Flows, by : Flows]
Refresh == [at : {"asking", "granted", "refused"}, client : Clients, of : Clients, row : Flows]

TypeOK ==
    /\ reg \in Registration
    /\ accepted \subseteq Clients
    /\ flow \in [Flows -> Flow]
    /\ lock \in Flows \cup {None}
    /\ stuck \in BOOLEAN
    /\ tokens \in [Users -> Token \cup {None}]
    /\ refresh \in [Users -> Refresh \cup {None}]
    /\ overtaken \subseteq Flows
    /\ misplaced \in BOOLEAN

\* The authorization server accepts our document or, whatever it advertises, does not.
Init ==
    /\ reg = NoReg
    /\ accepted \in {{}, {Cimd}}
    /\ flow = [f \in Flows |-> NewFlow]
    /\ lock = None
    /\ stuck = FALSE
    /\ tokens = [u \in Users |-> None]
    /\ refresh = [u \in Users |-> None]
    /\ overtaken = {}
    /\ misplaced = FALSE

Ends(f) == flow' = [flow EXCEPT ![f] = [NewFlow EXCEPT !.at = "done"]]
At(f, p) == flow[f].at = p

\* A write to the row while another transaction has deleted it.
Blocks == stuck' = TRUE /\ UNCHANGED <<gateway, accepted, flow, history>>

-----------------------------------------------------------------------------
(* initiate: _resolve_client_id_and_auth_url *)

Consents(f, c) == flow' = [flow EXCEPT ![f].at = "consent", ![f].code = c]

\* code is Cimd while registering when our document may be used.
Registers(f, offer) == flow' = [flow EXCEPT ![f].at = "registering", ![f].code = offer]

\* A row is there: every user shares it.
InitiateStored(f) ==
    /\ At(f, "new")
    /\ reg.mech \in {"dcr", "cimd"}
    /\ Consents(f, reg.client)
    /\ UNCHANGED <<gateway, accepted, stuck, history>>

InitiateFirst(f) ==
    /\ At(f, "new")
    /\ reg.mech = "none"
    /\ Registers(f, Cimd)
    /\ UNCHANGED <<gateway, accepted, stuck, history>>

\* The row is a tombstone: it is deleted, and stays locked while the registration
\* is awaited.  Who reads it meanwhile still sees it.
InitiateRejected(f) ==
    /\ At(f, "new")
    /\ reg.mech = "cimd_rejected"
    /\ IF lock # None
         THEN Blocks
         ELSE /\ lock' = f
              /\ Registers(f, None)
              /\ UNCHANGED <<reg, tokens, refresh, accepted, stuck, history>>

Unlock(f) == lock' = IF lock = f THEN None ELSE lock

\* discover_and_register raises, and the session is rolled back.
RegistrationFails(f) ==
    /\ At(f, "registering")
    /\ Ends(f)
    /\ Unlock(f)
    /\ UNCHANGED <<reg, tokens, refresh, accepted, stuck, history>>

BugRegistered(f, mech) ==
    LET c == IF mech = "cimd" THEN Cimd ELSE f
    IN  /\ At(f, "registering")
        /\ mech = "cimd" => flow[f].code = Cimd
        /\ IF lock \notin {None, f}
             THEN Blocks
             ELSE /\ accepted' = IF mech = "dcr" THEN accepted \cup {f} ELSE accepted
                  /\ Unlock(f)
                  /\ reg' = [mech |-> mech, client |-> c]
                  /\ Consents(f, c)
                  /\ UNCHANGED <<tokens, refresh, stuck, history>>

\* The row is inserted and committed.  Where another flow was faster the primary
\* key refuses it, and the client just registered is left behind.
Registered(f, mech) ==
    LET c == IF mech = "cimd" THEN Cimd ELSE f
    IN  /\ At(f, "registering")
        /\ mech = "cimd" => flow[f].code = Cimd
        /\ IF lock \notin {None, f}
             THEN Blocks
             ELSE /\ accepted' = IF mech = "dcr" THEN accepted \cup {f} ELSE accepted
                  /\ Unlock(f)
                  /\ IF lock = f \/ reg.mech = "none"
                       THEN /\ reg' = [mech |-> mech, client |-> c]
                            /\ Consents(f, c)
                       ELSE UNCHANGED reg /\ Ends(f)
                  /\ UNCHANGED <<tokens, refresh, stuck, history>>

-----------------------------------------------------------------------------
(* Giving the client identity up *)

Exchanging == {f \in Flows : flow[f].at \in {"exchanging", "granted", "refused"}}

BugDropsRegistrationOnly ==
    /\ overtaken' = overtaken \cup Exchanging
    /\ UNCHANGED tokens

\* Every user's tokens go with it.
DropTokens ==
    /\ tokens' = [u \in Users |-> None]
    /\ overtaken' = overtaken \cup Exchanging

-----------------------------------------------------------------------------
(* callback *)

\* The user comes back with a code.  Whatever row is there is used.
Callback(f) ==
    /\ At(f, "consent")
    /\ IF reg.mech = "none"
         THEN Ends(f)
         ELSE flow' = [flow EXCEPT ![f].at = "exchanging", ![f].client = reg.client,
                                   ![f].mech = reg.mech]
    /\ UNCHANGED <<gateway, accepted, stuck, history>>

\* The authorization server: a client it does not know is refused, a code has to
\* be of the client that presents it, and anything may fail.
AnswerExchange(f) ==
    /\ At(f, "exchanging")
    /\ \/ /\ flow[f].client \in accepted
          /\ flow[f].client = flow[f].code
          /\ flow' = [flow EXCEPT ![f].at = "granted"]
       \/ /\ flow[f].client \notin accepted
          /\ flow' = [flow EXCEPT ![f].at = "refused"]
       \/ Ends(f)
    /\ UNCHANGED <<gateway, accepted, stuck, history>>

\* The upsert.
Connect(f) ==
    LET u == UserOf[f]
    IN  /\ At(f, "granted")
        /\ tokens' = [tokens EXCEPT ![u] =
               [client |-> flow[f].client, by |-> f,
                row |-> IF tokens[u] = None THEN f ELSE tokens[u].row]]
        /\ Ends(f)
        /\ UNCHANGED <<reg, lock, refresh, accepted, stuck, history>>

\* invalid_client: the row of this moment is marked if the refused client was our
\* document, else deleted.
ConnectRefused(f) ==
    /\ At(f, "refused")
    /\ IF lock # None
         THEN Blocks
         ELSE /\ reg' = IF flow[f].mech # "cimd" THEN NoReg
                        ELSE IF reg = NoReg THEN NoReg
                        ELSE [reg EXCEPT !.mech = "cimd_rejected"]
              /\ DropTokens
              /\ misplaced' = (misplaced \/ (flow[f].mech = "cimd" /\ reg.mech = "dcr"))
              /\ Ends(f)
              /\ UNCHANGED <<lock, refresh, accepted, stuck>>

-----------------------------------------------------------------------------
(* _refresh_in_place, one at a time for each user (the per-user lock) *)

AskRefresh(u) ==
    /\ refresh[u] = None
    /\ tokens[u] # None
    /\ reg.mech # "none"
    /\ refresh' = [refresh EXCEPT ![u] = [at |-> "asking", client |-> reg.client,
                        of |-> tokens[u].client, row |-> tokens[u].row]]
    /\ UNCHANGED <<reg, lock, tokens, accepted, flow, stuck, history>>

AnswerRefresh(u) ==
    /\ refresh[u] # None
    /\ refresh[u].at = "asking"
    /\ \/ /\ refresh[u].client \in accepted
          /\ refresh[u].client = refresh[u].of
          /\ refresh' = [refresh EXCEPT ![u].at = "granted"]
       \/ /\ refresh[u].client \notin accepted
          /\ refresh' = [refresh EXCEPT ![u].at = "refused"]
       \/ refresh' = [refresh EXCEPT ![u] = None]
    /\ UNCHANGED <<reg, lock, tokens, accepted, flow, stuck, history>>

\* The row that was loaded is updated, if it is still there.
Refreshed(u) ==
    /\ refresh[u] # None
    /\ refresh[u].at = "granted"
    /\ refresh' = [refresh EXCEPT ![u] = None]
    /\ tokens' = IF tokens[u] = None \/ tokens[u].row # refresh[u].row THEN tokens
                 ELSE [tokens EXCEPT ![u].client = refresh[u].client]
    /\ UNCHANGED <<reg, lock, accepted, flow, stuck, history>>

\* _invalidate_dcr_state
RefreshRefused(u) ==
    /\ refresh[u] # None
    /\ refresh[u].at = "refused"
    /\ IF lock # None
         THEN Blocks
         ELSE /\ refresh' = [refresh EXCEPT ![u] = None]
              /\ reg' = NoReg
              /\ DropTokens
              /\ UNCHANGED <<lock, accepted, flow, stuck, misplaced>>

-----------------------------------------------------------------------------
\* The disconnect endpoint.
Disconnect(u) ==
    /\ tokens[u] # None
    /\ tokens' = [tokens EXCEPT ![u] = None]
    /\ UNCHANGED <<reg, lock, refresh, accepted, flow, stuck, history>>

\* The authorization server forgets a client.
Evict ==
    /\ \E c \in accepted : accepted' = accepted \ {c}
    /\ UNCHANGED <<gateway, flow, stuck, history>>

Initiate(f) == InitiateStored(f) \/ InitiateFirst(f) \/ InitiateRejected(f)

Resolve(f) == RegistrationFails(f) \/ \E mech \in {"dcr", "cimd"} : Registered(f, mech)

Finish(f) == AnswerExchange(f) \/ Connect(f) \/ ConnectRefused(f)

Renew(u) == AnswerRefresh(u) \/ Refreshed(u) \/ RefreshRefused(u)

\* The loop serves nobody once it is stuck.
Next ==
    \/ /\ ~stuck
       /\ \/ \E f \in Flows : Initiate(f) \/ Resolve(f) \/ Callback(f) \/ Finish(f)
          \/ \E u \in Users : AskRefresh(u) \/ Renew(u) \/ Disconnect(u)
    \/ Evict

Spec == Init /\ [][Next]_vars

-----------------------------------------------------------------------------
(* Properties *)

Working == reg.mech \in {"dcr", "cimd"}

\* "Reuses them for every subsequent user OAuth flow on the same server": a
\* client identity in use is given up before another takes its place, so users
\* that connect for the first time together do not swap it under each other.
IdentityNotSwapped ==
    [][Working /\ reg'.mech \in {"dcr", "cimd"} => reg' = reg]_vars

\* "The refresh tokens were issued under the now-dead client_id": a stored token
\* is of the client identity of today, whatever was dropped, registered and
\* refreshed in between.  It is not for a code that was being exchanged at a drop, and
\* once a late refusal of our document has marked another client as refused, which is
\* then used and thrown away.
TokensOfThisClient ==
    ~misplaced => \A u \in Users : tokens[u] # None =>
        tokens[u].client = reg.client \/ tokens[u].by \in overtaken

\* A client identity is given up, and everybody disconnected, only when the
\* authorization server has refused it or one before it: not for another error.
GivenUpForARefusal ==
    [][Working /\ reg' # reg =>
        \/ \E f \in Flows : flow[f].at = "refused" /\ flow[f].client \notin accepted
        \/ \E u \in Users : refresh[u] # None /\ refresh[u].at = "refused"
                            /\ refresh[u].client \notin accepted]_vars

\* "Deleting instead of marking would re-probe, get the same advertisement, and
\* loop forever": the tombstone makes way for a registration only.
RejectionRemembered ==
    [][reg.mech = "cimd_rejected" => reg'.mech \in {"cimd_rejected", "dcr"}]_vars

\* "The cleanup is safe to run multiple times": a client identity that the
\* authorization server accepts is not dropped.
AcceptedIsKept ==
    [][Working /\ reg' # reg => reg.client \notin accepted]_vars

\* No step waits for a lock that only the waiting event loop could release.
LoopRuns == ~stuck
=============================================================================
