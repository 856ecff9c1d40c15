---------------------------- MODULE UpstreamPool ----------------------------
(***************************************************************************)
(* The bounded pool of outbound MCP clients of one upstream:               *)
(* src/vyuu_gateway/upstream/pool.py, class UpstreamClientPool, for one    *)
(* UpstreamPoolKey (keys share nothing).                                   *)
(*                                                                         *)
(* Every `async with state.condition` block runs without a suspension      *)
(* except for condition.wait(), so each is one action; between them stand  *)
(* the awaits: waiting for capacity, closing retired clients, the client   *)
(* factory, the upstream operation, closing a returned client.  A task can *)
(* be cancelled at each of them.                                           *)
(*                                                                         *)
(* A _PoolState object has an index: _acquire keeps a reference to the     *)
(* object it started with, while release and close_key look the key up     *)
(* again, and a key that was closed and drained starts a new object.       *)
(*                                                                         *)
(* Left out: the order of the idle list (any idle client may be reused)    *)
(* and of the condition's waiters (any may be woken).  Ages are saturated  *)
(* at MaxAge.                                                              *)
(***************************************************************************)
EXTENDS Integers, FiniteSets

CONSTANTS
    Callers,        \* tasks that lease a client
    Closer,         \* the task that runs close_key
    Cancellable,    \* the tasks that may be cancelled at an await
    Clients,        \* identities for live clients (a bound on how many live)
    NoClient,
    MaxClients,     \* max_clients_per_upstream
    MaxAge,         \* client_max_age_seconds in ticks; 0 disables the TTL
    MaxStates,      \* bound on _PoolState objects; all but the last get closed
    CondRenotifies  \* does a cancelled condition.wait() pass a notification on?
                    \* (asyncio's does from Python 3.13 on, not before)

ASSUME PoolAssumption ==
    /\ MaxClients \in Nat \ {0}
    /\ MaxAge \in Nat
    /\ MaxStates \in Nat \ {0}
    /\ CondRenotifies \in BOOLEAN
    /\ IsFiniteSet(Callers)
    /\ IsFiniteSet(Clients)
    /\ Closer \notin Callers
    /\ NoClient \notin Clients

VARIABLES
    current,    \* index of the object in _states under the key, 0 if absent
    created,    \* how many objects were created
    idle,       \* _PoolState.idle of each object
    total,      \* _PoolState.total
    closing,    \* _PoolState.closing
    pc,         \* where each caller stands
    mine,       \* the object _acquire holds on to
    held,       \* the client a caller reuses or leases
    toClose,    \* clients taken out of the pool that a task has to close
    live,       \* clients built and not closed
    age,        \* time since a client was stamped, -1 before its first release
    lost,       \* slots counted in total that no client or caller stands for
    eaten       \* notifications of each object that cancelled waiters took along
                \* since a caller last went to sleep on it

stateVars == <<current, created, idle, total, closing>>
vars == <<current, created, idle, total, closing, pc, mine, held, toClose,
          live, age, lost, eaten>>

Objects == 1..MaxStates
Tasks == Callers \cup {Closer}
CallerState == {"out", "waiting", "woken", "retiring", "building", "leased", "closing"}

\* The types; a slot count is never negative and never above the limit.
TypeOK ==
    /\ current \in 0..MaxStates
    /\ created \in 0..MaxStates
    /\ idle \in [Objects -> SUBSET Clients]
    /\ total \in [Objects -> 0..MaxClients]
    /\ closing \in [Objects -> BOOLEAN]
    /\ pc \in [Callers -> CallerState]
    /\ mine \in [Callers -> 0..MaxStates]
    /\ held \in [Callers -> Clients \cup {NoClient}]
    /\ toClose \in [Tasks -> SUBSET Clients]
    /\ live \in SUBSET Clients
    /\ age \in [Clients -> -1..MaxAge]
    /\ lost \in [Objects -> Nat]
    /\ eaten \in [Objects -> Nat]

Init ==
    /\ current = 0
    /\ created = 0
    /\ idle = [g \in Objects |-> {}]
    /\ total = [g \in Objects |-> 0]
    /\ closing = [g \in Objects |-> FALSE]
    /\ pc = [c \in Callers |-> "out"]
    /\ mine = [c \in Callers |-> 0]
    /\ held = [c \in Callers |-> NoClient]
    /\ toClose = [t \in Tasks |-> {}]
    /\ live = {}
    /\ age = [k \in Clients |-> -1]
    /\ lost = [g \in Objects |-> 0]
    /\ eaten = [g \in Objects |-> 0]

-----------------------------------------------------------------------------
(* Condition variable, slots and clients *)

Waiting(g) == {c \in Callers : pc[c] = "waiting" /\ mine[c] = g}
Woken(g) == {c \in Callers : pc[c] = "woken" /\ mine[c] = g}

\* notify(n): n waiters, or all when there are fewer.
Notified(g, n) ==
    {W \in SUBSET Waiting(g) :
        Cardinality(W) = n \/ (W = Waiting(g) /\ Cardinality(W) < n)}

\* Caller c moves to a new place and the tasks in W are woken.
Move(c, place, W) ==
    pc' = [x \in Callers |-> IF x = c THEN place
                             ELSE IF x \in W THEN "woken" ELSE pc[x]]

\* An operator whose name starts with Bug is a plausible mistake in the
\* definition after it; no specification uses it.
\* The object leaves _states once it is closing and its last slot is given back.
DropIfDrained(g, left) ==
    current' = IF closing[g] /\ left = 0 THEN 0 ELSE current

\* A client is closed; its identity may be used again.
Dispose(k) ==
    /\ live' = live \ {k}
    /\ age' = [age EXCEPT ![k] = -1]

clientVars == <<live, age>>

-----------------------------------------------------------------------------
(* _acquire: the block under the condition, entered by a new caller or by a *)
(* woken one                                                                *)

\* _take_expired
Expired(g) == IF MaxAge = 0 THEN {} ELSE {k \in idle[g] : age[k] >= MaxAge}
Fresh(g) == idle[g] \ Expired(g)
SlotsLeft(g) == total[g] - Cardinality(Expired(g))

\* _state_for, or the object the woken caller already holds.
Turn(c, g) ==
    \/ /\ pc[c] = "out"
       /\ g = IF current = 0 THEN created + 1 ELSE current
       /\ current' = g
       /\ created' = IF current = 0 THEN g ELSE created
    \/ /\ pc[c] = "woken"
       /\ g = mine[c]
       /\ UNCHANGED <<current, created>>

\* UpstreamPoolClosedError
Refuse(c, g) ==
    /\ Turn(c, g)
    /\ closing[g]
    /\ Move(c, "out", {})
    /\ mine' = [mine EXCEPT ![c] = 0]
    /\ UNCHANGED <<idle, total, closing, held, toClose, clientVars, lost, eaten>>

\* A slot is granted: the expired clients leave, as many waiters are notified,
\* and the caller closes them before it goes on.
Grant(c, g, next) ==
    /\ \E W \in Notified(g, Cardinality(Expired(g))) :
        Move(c, IF Expired(g) = {} THEN next ELSE "retiring", W)
    /\ mine' = [mine EXCEPT ![c] = g]
    /\ toClose' = [toClose EXCEPT ![c] = Expired(g)]
    /\ UNCHANGED <<closing, clientVars, lost, eaten>>

Reuse(c, g) ==
    /\ Turn(c, g)
    /\ ~closing[g]
    /\ \E k \in Fresh(g) :
        /\ idle' = [idle EXCEPT ![g] = Fresh(g) \ {k}]
        /\ held' = [held EXCEPT ![c] = k]
    /\ total' = [total EXCEPT ![g] = SlotsLeft(g)]
    /\ Grant(c, g, "leased")

BugClaimOffByOne(c, g) ==
    /\ Turn(c, g)
    /\ ~closing[g]
    /\ Fresh(g) = {}
    /\ SlotsLeft(g) <= MaxClients
    /\ idle' = [idle EXCEPT ![g] = {}]
    /\ total' = [total EXCEPT ![g] = SlotsLeft(g) + 1]
    /\ Grant(c, g, "building")
    /\ UNCHANGED held

Claim(c, g) ==
    /\ Turn(c, g)
    /\ ~closing[g]
    /\ Fresh(g) = {}
    /\ SlotsLeft(g) < MaxClients
    /\ idle' = [idle EXCEPT ![g] = {}]
    /\ total' = [total EXCEPT ![g] = SlotsLeft(g) + 1]
    /\ Grant(c, g, "building")
    /\ UNCHANGED held

\* Nothing idle and no slot (then nothing had expired either).
Wait(c, g) ==
    /\ Turn(c, g)
    /\ ~closing[g]
    /\ Fresh(g) = {}
    /\ SlotsLeft(g) >= MaxClients
    /\ Move(c, "waiting", {})
    /\ mine' = [mine EXCEPT ![c] = g]
    /\ eaten' = [eaten EXCEPT ![g] = 0]
    /\ UNCHANGED <<idle, total, closing, held, toClose, clientVars, lost>>

\* condition.wait() raises CancelledError, before or after a notification; what
\* the caller had been notified of is passed on or goes with it.
CancelWait(c) ==
    /\ c \in Cancellable
    /\ pc[c] \in {"waiting", "woken"}
    /\ IF CondRenotifies
         THEN \E W \in SUBSET (Waiting(mine[c]) \ {c}) :
                /\ Cardinality(W) = 1 \/ (W = {} /\ Waiting(mine[c]) \subseteq {c})
                /\ Move(c, "out", W)
                /\ UNCHANGED eaten
         ELSE /\ Move(c, "out", {})
              /\ eaten' = IF pc[c] = "woken" THEN [eaten EXCEPT ![mine[c]] = @ + 1]
                          ELSE eaten
    /\ mine' = [mine EXCEPT ![c] = 0]
    /\ UNCHANGED <<stateVars, held, toClose, clientVars, lost>>

-----------------------------------------------------------------------------
(* _acquire after the block: close what expired, then build or return *)

BugRetireClosesOne(c) ==
    /\ pc[c] = "retiring"
    /\ \E k \in toClose[c] : Dispose(k)
    /\ toClose' = [toClose EXCEPT ![c] = {}]
    /\ Move(c, IF held[c] = NoClient THEN "building" ELSE "leased", {})
    /\ UNCHANGED <<stateVars, mine, held, lost, eaten>>

Retire(c) ==
    /\ pc[c] = "retiring"
    /\ \E k \in toClose[c] :
        /\ Dispose(k)
        /\ toClose' = [toClose EXCEPT ![c] = @ \ {k}]
        /\ Move(c, IF toClose[c] # {k} THEN "retiring"
                   ELSE IF held[c] = NoClient THEN "building" ELSE "leased", {})
    /\ UNCHANGED <<stateVars, mine, held, lost, eaten>>

\* _safe_close catches Exception only.  The caller leaves with the slot still
\* counted, and nobody closes the clients it had taken out.
CancelRetire(c) ==
    /\ c \in Cancellable
    /\ pc[c] = "retiring"
    /\ Move(c, "out", {})
    /\ lost' = [lost EXCEPT ![mine[c]] = @ + 1]
    /\ mine' = [mine EXCEPT ![c] = 0]
    /\ held' = [held EXCEPT ![c] = NoClient]
    /\ toClose' = [toClose EXCEPT ![c] = {}]
    /\ UNCHANGED <<stateVars, clientVars, eaten>>

Build(c) ==
    /\ pc[c] = "building"
    /\ \E k \in Clients \ live :
        /\ live' = live \cup {k}
        /\ held' = [held EXCEPT ![c] = k]
        /\ age' = [age EXCEPT ![k] = -1]
    /\ Move(c, "leased", {})
    /\ UNCHANGED <<stateVars, mine, toClose, lost, eaten>>

BugBuildFailsKeepsSlot(c) ==
    /\ pc[c] = "building"
    /\ \E W \in Notified(mine[c], 1) : Move(c, "out", W)
    /\ mine' = [mine EXCEPT ![c] = 0]
    /\ UNCHANGED <<stateVars, held, toClose, clientVars, lost, eaten>>

BugBuildFailsSilently(c) ==
    /\ pc[c] = "building"
    /\ LET g == mine[c] IN
        /\ total' = [total EXCEPT ![g] = @ - 1]
        /\ DropIfDrained(g, total[g] - 1)
    /\ Move(c, "out", {})
    /\ mine' = [mine EXCEPT ![c] = 0]
    /\ UNCHANGED <<created, idle, closing, held, toClose, clientVars, lost, eaten>>

\* The factory raised, or the caller was cancelled in it: the slot goes back to
\* the object the caller holds, and the key is dropped if that drained it.
BuildFails(c) ==
    /\ pc[c] = "building"
    /\ LET g == mine[c] IN
        /\ total' = [total EXCEPT ![g] = @ - 1]
        /\ DropIfDrained(g, total[g] - 1)
        /\ \E W \in Notified(g, 1) : Move(c, "out", W)
    /\ mine' = [mine EXCEPT ![c] = 0]
    /\ UNCHANGED <<created, idle, closing, held, toClose, clientVars, lost, eaten>>

-----------------------------------------------------------------------------
(* release, which looks the key up again.  Its branch for a key that is gone *)
(* has no action: LeaseFindsItsObject shows that no caller reaches it.        *)

\* The operation succeeded on a key that stays open: the client goes back, and
\* is stamped if this is its first release.
GiveBack(c) ==
    /\ pc[c] = "leased"
    /\ current # 0
    /\ ~closing[current]
    /\ idle' = [idle EXCEPT ![current] = @ \cup {held[c]}]
    /\ age' = [age EXCEPT ![held[c]] = IF @ = -1 THEN 0 ELSE @]
    /\ \E W \in Notified(current, 1) : Move(c, "out", W)
    /\ mine' = [mine EXCEPT ![c] = 0]
    /\ held' = [held EXCEPT ![c] = NoClient]
    /\ UNCHANGED <<current, created, total, closing, toClose, live, lost, eaten>>

\* The operation failed or was cancelled, or the key is closing: the slot is
\* given back first and the client closed after.
Discard(c) ==
    /\ pc[c] = "leased"
    /\ current # 0
    /\ total' = [total EXCEPT ![current] = @ - 1]
    /\ DropIfDrained(current, total[current] - 1)
    /\ \E W \in Notified(current, 1) : Move(c, "closing", W)
    /\ toClose' = [toClose EXCEPT ![c] = {held[c]}]
    /\ mine' = [mine EXCEPT ![c] = 0]
    /\ held' = [held EXCEPT ![c] = NoClient]
    /\ UNCHANGED <<created, idle, closing, clientVars, lost, eaten>>

\* _close_client after the release.
CloseClient(c) ==
    /\ pc[c] = "closing"
    /\ \E k \in toClose[c] : Dispose(k)
    /\ toClose' = [toClose EXCEPT ![c] = {}]
    /\ Move(c, "out", {})
    /\ UNCHANGED <<stateVars, mine, held, lost, eaten>>

\* _close_client catches Exception only.
CancelClose(c) ==
    /\ c \in Cancellable
    /\ pc[c] = "closing"
    /\ toClose' = [toClose EXCEPT ![c] = {}]
    /\ Move(c, "out", {})
    /\ UNCHANGED <<stateVars, mine, held, clientVars, lost, eaten>>

-----------------------------------------------------------------------------
(* close_key *)

BugCloseKeyDropsBusyKey ==
    /\ current # 0
    /\ created < MaxStates
    /\ toClose[Closer] = {}
    /\ closing' = [closing EXCEPT ![current] = TRUE]
    /\ idle' = [idle EXCEPT ![current] = {}]
    /\ total' = [total EXCEPT ![current] = @ - Cardinality(idle[current])]
    /\ current' = 0
    /\ pc' = [c \in Callers |-> IF c \in Waiting(current) THEN "woken" ELSE pc[c]]
    /\ toClose' = [toClose EXCEPT ![Closer] = idle[current]]
    /\ UNCHANGED <<created, mine, held, clientVars, lost, eaten>>

CloseKey ==
    /\ current # 0
    /\ created < MaxStates
    /\ toClose[Closer] = {}
    /\ closing' = [closing EXCEPT ![current] = TRUE]
    /\ idle' = [idle EXCEPT ![current] = {}]
    /\ LET left == total[current] - Cardinality(idle[current]) IN
        /\ total' = [total EXCEPT ![current] = left]
        /\ current' = IF left = 0 THEN 0 ELSE current
    /\ pc' = [c \in Callers |-> IF c \in Waiting(current) THEN "woken" ELSE pc[c]]
    /\ toClose' = [toClose EXCEPT ![Closer] = idle[current]]
    /\ UNCHANGED <<created, mine, held, clientVars, lost, eaten>>

\* _close_many
CloseIdle ==
    /\ \E k \in toClose[Closer] :
        /\ Dispose(k)
        /\ toClose' = [toClose EXCEPT ![Closer] = @ \ {k}]
    /\ UNCHANGED <<stateVars, pc, mine, held, lost, eaten>>

CancelCloseIdle ==
    /\ Closer \in Cancellable
    /\ toClose[Closer] # {}
    /\ toClose' = [toClose EXCEPT ![Closer] = {}]
    /\ UNCHANGED <<stateVars, pc, mine, held, clientVars, lost, eaten>>

\* The clock, as far as ages are told apart.
Older(a) == IF a < MaxAge THEN a + 1 ELSE a

Tick ==
    /\ MaxAge > 0
    /\ age' = [k \in Clients |-> IF k \in live /\ age[k] >= 0 THEN Older(age[k]) ELSE age[k]]
    /\ UNCHANGED <<stateVars, pc, mine, held, toClose, live, lost, eaten>>

-----------------------------------------------------------------------------
Acquire(c) == \E g \in Objects : Refuse(c, g) \/ Reuse(c, g) \/ Claim(c, g) \/ Wait(c, g)

Release(c) == GiveBack(c) \/ Discard(c)

\* What a caller does without being cancelled, once it has started.
Continue(c) ==
    \/ pc[c] = "woken" /\ Acquire(c)
    \/ Retire(c) \/ Build(c) \/ BuildFails(c) \/ Release(c) \/ CloseClient(c)

Cancel(c) == CancelWait(c) \/ CancelRetire(c) \/ CancelClose(c)

Next ==
    \/ \E c \in Callers : Acquire(c) \/ Continue(c) \/ Cancel(c)
    \/ CloseKey \/ CloseIdle \/ CancelCloseIdle
    \/ Tick

\* Ready tasks run, factories, operations and closes end (the transports carry
\* timeouts).  Nothing is assumed of who calls, who closes a key, or when.
Fairness ==
    /\ \A c \in Callers : WF_vars(Continue(c))
    /\ WF_vars(CloseIdle)

Spec == Init /\ [][Next]_vars
FairSpec == Spec /\ Fairness

-----------------------------------------------------------------------------
(* Properties *)

Holding == {"retiring", "building", "leased"}
Holders(g) == {c \in Callers : pc[c] \in Holding /\ mine[c] = g}

\* A slot in total is an idle client, a caller that was granted one and has not
\* given it back, or one that a cancellation lost (CancelRetire); no path
\* through expiry, reuse, build, failure, release and close_key counts one twice
\* or drops one.
SlotsAccounted ==
    \A g \in Objects :
        total[g] = Cardinality(idle[g]) + Cardinality(Holders(g)) + lost[g]

\* release looks the key up again while _acquire kept its object: a caller that
\* holds a slot always finds the object that granted it, however often the key
\* was closed and reopened in between, so no other object's slot is given back
\* and release never meets a key that is gone.
LeaseFindsItsObject ==
    \A c \in Callers : pc[c] \in Holding => current = mine[c]

\* A client is in one place: idle, or held by one caller, or being closed by one
\* task; nobody uses a client somebody else uses or closes.
ClientsExclusive ==
    /\ \A c \in Callers : held[c] # NoClient =>
        /\ \A d \in Callers \ {c} : held[d] # held[c]
        /\ \A g \in Objects : held[c] \notin idle[g]
        /\ \A t \in Tasks : held[c] \notin toClose[t]
    /\ \A t \in Tasks : \A k \in toClose[t] :
        /\ \A g \in Objects : k \notin idle[g]
        /\ \A u \in Tasks \ {t} : k \notin toClose[u]

\* The clients and slots of an object that nobody has.
Free(g) == Cardinality(idle[g]) + MaxClients - total[g]

\* No lost wakeup: while somebody waits un-notified, what is free is at most what
\* woken callers that have not run yet will ask for, but for the notifications
\* that cancelled waiters took along.  Expiry, reuse, a failed build, a release
\* and close_key notify enough, and nobody sleeps on a closing key.
NoLostWakeup ==
    \A g \in Objects : Waiting(g) # {} =>
        /\ ~closing[g]
        /\ Free(g) <= Cardinality(Woken(g)) + eaten[g]

\* Every client that a task took out of the pool gets closed, unless the task is
\* cancelled itself, whatever the others do.
RemovedGetsClosed ==
    \A k \in Clients :
        (\E t \in Tasks \ Cancellable : k \in toClose[t]) ~> k \notin live

\* The pool implements the abstract lease: whoever is inside `async with acquire`
\* has a client of its own, and at most max_clients_per_upstream are inside.
Lease == INSTANCE ClientLease WITH using <- held
ImplementsLease == Lease!Spec

\* "Slots freed - wake anyone blocked on capacity", whoever is cancelled: nobody
\* sleeps beside something free that no woken caller is on its way to.
EveryFreedSlotWakes ==
    \A g \in Objects : Waiting(g) # {} => Free(g) <= Cardinality(Woken(g))

\* No slot is lost: "without letting its teardown break the acquire path".
NoSlotLost == \A g \in Objects : lost[g] = 0
=============================================================================
