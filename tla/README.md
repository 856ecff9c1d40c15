# Vyuu MCP gateway: specifications and proofs

The gateway (`src/src/vyuu_gateway`, Python, asyncio and a thread pool) sits between MCP clients and
the MCP servers of a tenant. It decides who may call which tool, calls the upstream server through a
pool of clients and a circuit breaker, and writes an audit event for every call. This directory holds
TLA+ models of the parts where the order of steps matters, the TLC runs that check them and the
theorems that TLAPS proves about them. Paths below are relative to `src/src/vyuu_gateway`.

## Inventory

| Component | State | Operations | What is hard | Correct means |
|---|---|---|---|---|
| circuit breaker (`upstream/circuit_breaker.py`) | state, failure and success counts, probe flag, time of opening | before_call, record_success, record_failure | results arrive late, in any order, or never | counts and flag belong to the present period; rejection ends |
| client pool (`upstream/pool.py`) | per key: idle clients, `total`, `closing`, a condition; leased clients | acquire, release, close_key, expiry | a cancellation at each await, waiters that lose a race, keys closed with leases out | slots add up, a client has one user, wakeups are not lost, a closing key drains |
| pooled client (`upstream/pool.py`) | the two above | `_with_client` | a half-open probe that queues behind old calls | the circuit admits again |
| access requests, JIT, grants (`registry/access_requests_service.py`, `jit_service.py`, `users_service.py`) | rows of requests and grants, JIT settings of a server and of a tool | submit, JIT request, approve, decline, withdraw, issue, revoke, configure | each endpoint reads, checks and commits, without row locks | temporary elevations stay temporary; one decision, one grant |
| audit delivery (`audit/emitter.py`, `audit/spool.py`) | bounded queue, worker, spool file | emit_nowait, start, stop, worker, replay_to | full buffers, a producer that fails before or after the broker took the event, replay beside appends or cancelled, crash | where every accepted event is; what durable means |
| tool call (`tool_calls/lifecycle.py`, `api/inflight_gate.py`, `audit/persistent.py`) | semaphore per tenant; call state | gate, handle_tool_call, audit failure modes | concurrent calls and other tenants share the spool's room; a call may fail before it is sent; cancellation; early returns | the event tells what happened; few strict calls go unaudited; slots come back |
| sessions (`sessions/`) | sessions by id with an expiry | create, get, delete | expiry during a call | no other tenant's session; refused when ended |
| capability sync and scheduler (`capabilities/`) | active capabilities and health columns of a server | sync, seed, cycles | several syncs around one await, in several replicas; a deletion under way | one active set; evidence of health is kept |
| upstream OAuth tokens (`upstream/oauth*.py`, `mcp/outbound.py`) | cached token or the user's row, per-user locks, invalidated set | fetch, invalidate, refresh, retry after a 401, connect, disconnect | late 401s, rotation of refresh tokens, a user who disconnects during a refresh | one refresh at a time; the retry uses another token; no token comes back |
| client registration (`api/oauth_authcode.py`, `upstream/oauth_dcr.py`) | the row of the gateway's client at an authorization server, the users' token rows | initiate, callback, invalidation | every step awaits the authorization server between reading the row and writing it | no token of a dead client; given up for a refusal only |
| SIEM exporter (`siem/`, `api/siem.py`) | bounded queue and counters per target, caches of target and token | emit, deliver with retries, flush, stop, settings changes | threads and loop, stop with a batch in flight, look-ups across a change | loss is bounded and counted; a change takes effect |
| upstream provider (`upstream/provider.py`) | memo of pooled clients and token providers | get_client, forget_server | callers that keep a forgotten client | nothing of a removed server stays open |
| health prober (`upstream/health.py`) | health columns of the server | check_server | cut off by wait_for; holds the row across it | the row says what was found |
| virtual servers and resolver (`virtual_servers/`) | allowlist, rename map, gates by exposed name | create, update, delete, synthesis of names | allowlists replaced together; names that depend on other servers | one request's allowlist; names apart; a gate keeps its tool |
| users, SCIM, IdP sync (`idp/`, `scim/`) | users with link, `disabled_at`, `soft_deleted_at`; what a poll has listed and loaded; a sweep's list | push (POST, PUT, PATCH, DELETE), poll, sign-in, sweep, disconnect | rows loaded long before they are written, a listing that fails or is old, deletion by an old list, several replicas | nobody active is swept; an outage deactivates nobody; the rows follow the directory |
| retention (`audit/retention.py`) | audit tables | prune | batches beside writers | |
| the rest: inbound API, user interfaces, identity and policy, sign-in, graph, risk, telemetry, secrets, schema and start-up | | | I/O, rendering, pure decisions, cryptography | |

How they interact: `api/inbound_mcp.py` goes through the inflight gate into
`ToolCallLifecycle.handle_tool_call`, which asks the session registry, resolver, grants and policy,
gets a `PooledOutboundMcpClient` from the provider (breaker, then pool, then the upstream) and hands an
event to an audit emitter. The health prober, the capability scheduler and the server API use the same
pooled clients under `asyncio.wait_for`, which is how calls get cancelled. The access-request endpoints
share only the database with the rest. A pooled client asks its token provider for a token on every
call and once more after a 401; Connect (initiate and callback) writes the rows that the provider reads.
The poller and SCIM requests decide which users exist and are enabled, and the sweeper removes them; every
sign-in and API key looks at that row. Syncs write the capabilities from which the resolver makes the tools of a virtual server, whose names
the gates of JIT and scopes refer to. Every audit event, admin action and log record also goes to the
SIEM exporter.

## Modules

| Module | Models | State and actions |
|---|---|---|
| `CircuitBreaker` | `_CircuitBreaker` and its callers | `circuit`, `failures`, `successes`, `probing` are the object's fields; `elapsed` is the clock since the opening. `Begin`, `Reject` = before_call; `Succeed`, `Fail` = the two records; `Cancel` = a call that reports nothing. |
| `UpstreamPool` | `UpstreamClientPool` for one key | A `_PoolState` object is an index; `current` is the entry of `_states`. Each block under the condition is one action (`Refuse`, `Reuse`, `Claim`, `Wait`, `GiveBack`, `Discard`, `CloseKey`), each await a place (`pc`), with its cancellation (`CancelWait`, `CancelRetire`, `CancelClose`, `BuildFails`). |
| `ClientLease` | what `acquire` promises its caller | `Take`, `Return`: the abstract specification `UpstreamPool` implements with `using <- held`. |
| `PooledClient` | `PooledOutboundMcpClient._with_client` | `UpstreamPool` extended, `CircuitBreaker` as an instance; steps between two awaits are joined. |
| `AccessRequests` | one user, one virtual server, one elevated tool | A worker is an endpoint with a session of its own: load, check and commit are separate actions. Direct administration (`IssueGrant`, `RevokeGrant`, `ConfigureJit`, ...) is one statement and one action. |
| `AuditDelivery` | `AsyncAuditEmitter` with its `DiskSpool` | `queue`, `unfinished`, `worker`, `inHand`, `spool`; emit, take, produce, fail, stop, replay, crash. A produce that raises, is cancelled or dies may have reached the broker (`Raises`). `lost` is a history variable that names how an accepted event got out of reach; `repeats` counts what may deliver an event again. |
| `ToolCall` | inflight gate, `handle_tool_call`, emitters | The session look-up and `call_tool` are its two awaits; the latter is at "leasing" while circuit, pool and client decide (`NotReached` is a failure there) and at "upstream" once the request is sent (`Reach`). The rest of each call is a step up to the next await. What the gates of the lifecycle decide is free. The emitter is the process's: `OthersEmit` is an event of another tenant or of another part. |
| `AccessRaces` | `AccessRequests` and a history | `raced`: the requests whose decisions overlapped. It is what separates the interleavings that spoil a request from those that must not. |
| `SiemExporter` | one target queue of `SiemExporter`, `DatabaseTargetResolver`, the endpoints of `api/siem.py` | Look-up (`Hit`, `Load`, `Store`) and `Push` are steps of any thread; the worker's `TakeBatch`, token, send, `Retry` lie between its awaits; a settings change commits (`Configure`, `StoreToken`) and then invalidates. `place` and `raced` are history. |
| `ClientRegistration` | initiate, callback and refused refresh of one dynamically registered server | `flow` is a Connect attempt from click to upsert, `refresh` a user's refresh; `lock` is the row lock that `InitiateRejected` keeps across its await, `stuck` a loop that waits for it. |
| `OAuthTokens` | the three token providers and `StreamableHttpMcpClient.call_tool` | One replica's memory is `flagged`, `cache`, `lock`; `row` is shared. Grants are numbered; `live` and `renewable` are the servers' view. `upset` is history: somebody outside the lock overtook a refresh. |
| `ServerCatalog` | `sync_server_capabilities`, `seed_server_capabilities`, `check_server`, register and delete of one server | A job loads the row, awaits, reads the active rows, commits; `Written` is what the ORM does: a column is written when its value differs from what was loaded. `found` and `overtaken` are history: the last verdict, and the jobs under way when a row they had loaded changed. |
| `VirtualServer` | `update_virtual_server`, `delete_virtual_server` and `synthesize_tools` | An edit is a transaction with its snapshot (`gone`); `Exposed` is the resolver's naming, a recursive function over the joined rows (`Rows`), each of which sees the names before it (`Before`); `gates` are the names of `jit_tools`, each with the tool it was then. A name is a sequence of parts, so a tool whose own name looks like a prefixed one is given that name by a rename map. |
| `Directory` | `scim/users.py` with its endpoints, `idp/workspace_polling.py`, `idp/sweeper.py`, `idp/service.py`, an operator's create, disable and disconnect | `user` are the rows of one tenant; a request is `Load` and `Commit`; a poll reads page by page (`ReadPage`), then goes through what its session loaded (`Provision`, `Reconcile`, `Reload` of an expired object); a sweep is `Scan` and `HardDelete`. `staff` is the directory's view. A row's `link` is the directory's id, or the subject of a sign-in that is another one (a SAML NameID): `SignIn` has either. `inactive`, `mixed`, `restored`, `barred` (disabled by an operator) are history. |
| `MC*` | instances | Constants that a `.cfg` cannot write, and symmetry sets. |
| `*_proofs` | theorems | See below. |

Operators whose name starts with `Bug` are plausible mistakes in the definition that follows them. No
specification uses them; with one put in place of that definition TLC finds the matching property
violated, which shows that the property says something about the code.

## Runs

All runs end in under five minutes with two TLC workers. An invariant that accounts for the state as a
whole (`Accounted`, `ExportAccounted`, `AllowlistIsOneRequest`, `SlotsAccounted`) has the module's type invariant (`TypeOK`, `AuditTypeOK`, ...)
as a conjunct or is checked in a model where that is a theorem.

| Run | Shows |
|---|---|
| `breaker` | Four callers, one of them cancellable. The probe flag stays right (`ProbeFlagCurrent`), late results do not push recovery back or close an open circuit (`RecoveryNotDelayed`), only a cancelled probe leaves a flag nobody takes down (`OnlyCancelOrphansProbe`), and rejection ends but for that (`RejectionIsTemporary`). |
| `pool` | Three callers on two slots, three clients, one caller and the task of close_key cancellable, a key that is closed with leases out and opened again, on the condition of Python 3.12 (the image the Dockerfile builds), which does not pass on the wakeup of a cancelled waiter. `SlotsAccounted`, `LeaseFindsItsObject`; `NoLostWakeup`: whoever sleeps beside something free does so because a cancelled waiter ate that wakeup; `ImplementsLease` is the refinement; `RemovedGetsClosed` is the liveness. |
| `client` | Breaker over pool with one slot, two of three callers cancellable, expiry, close and reopening, on the same condition: `RejectionEnds` says that a probe waiting for a slot still gets the circuit to admit calls again, unless a cancellation left a probe flag, a lost slot, or a probe asleep beside a free slot. |
| `access` | Two workers, one request, two grants. `DecidedOnce` and `GrantMatchesDecision` hold of every request whose own decisions did not overlap, whatever is submitted, granted, revoked and configured beside it. With one worker busy durations are one tick or two, and an operator may raise and lower the ceiling between request, check and commit: `JitIsTemporary`, no elevation is longer than what was asked for. |
| `audit` | Queue of one, spool of two, four events, one crash (also in the middle of rewriting the file), stop, replay, its cancellation, a producer that fails with the event at the broker or without, a disk that fails under the worker: `Accounted`, `DeliveredOnce`, `DurableKept`, `EventSettles`. `Accounted` also has what stop waits for; `DeliveredOnce` allows a delivery more for each produce that failed too late, each cancelled replay and each crash. |
| `tool_call` | Three calls, two at a time, beside others' events, every failure mode with every emitter, a spool with room for one long event or two short ones: `SlotsReturned`; `EventMatchesCall`, also for calls that fail before they are sent; `StrictExposureBounded`: at most as many strict calls as the limit find the spool full after the upstream was called. |
| `siem` | Three events, a queue of two, batches of two, two attempts, one token change and any switching of the target. `ExportAccounted`: counters, queue and batch account for every event, but for those that stop abandons. `SettingsTakeEffect`: once a change is invalidated no cache holds the old target or token, unless a look-up was reading across it. `FlushMeansSettled`: flush returns True only with nothing queued or in flight. `ExportSettles`: what is queued is sent, dropped or abandoned by stop. |
| `registration` | Two users, two Connects each, the identity evicted any time. `TokensOfThisClient`: a stored token is of the registered client, unless its code was being exchanged at a drop. `IdentityNotSwapped`: never one working identity for another in one step. |
| `tokens` | Two calls in one replica or two, three grants, one revocation of each kind, connect and disconnect. `RetryUsesAnotherToken`, `RefreshTokenKept` (no refresh token is used twice within a replica), `DisconnectedStays`, `CallsEnd`. |
| `catalog` | Two syncs, a seed, two probes, a deletion. `OneSnapshot`: only transactions that overlap leave more than one list active, and the next job sets it right. `DeletedIsGone`. `LastVerdictStands`: the health columns are the last committed verdict, unless another job changed them between that job's load and commit; then they may mix (`HealthyWithoutError`, below). |
| `vserver` | Two edits of three tools of two servers, two of one name, with rename maps that collide on purpose. `NamesUnique`, `AllowlistIsOneRequest` (unless edits overlap), `GateKeepsItsTool` (the name of a gated tool becomes another's only when the gated one is not exposed). |
| `directory` | Two people, two requests, a poller, a sweeper, three changes; the directory pushes or is polled, and sign-ins store its id or another subject. `PollNeedsEvidence`: of the rows linked by its id a poll deactivates only those of people who were not active at some moment of that poll, whatever pages fail. `ActiveKept`: the sweeper deletes nobody active, but for rows with two writers' columns or restored after its scan. `DirectoryFollowed`: polling ends with the rows like the directory, but for people who keep signing in by another subject; whether a row an operator disabled works again is left open. |

Bounds. The thresholds 3/2/3 of the breaker let a count be in the middle, at its end and past it. Two slots and
three callers give a waiter, a racing newcomer and a holder; two pool objects give one key closed and opened
again; three client identities, one more than the slots, leave one being closed. `client` has one slot less, and
with it two clients. In `access`, one request of a user and two grants: two decisions of that request, a direct
grant and a self-service elevation are all that can meet in it. Durations and a ceiling of one and two ticks
tell an approver's shorter duration and a lowered ceiling from what was asked for; they concern one worker
beside the operator, who acts between any two of its steps, so the constraint `AloneOrShort` has everything last
one tick, and the server private, while two workers are busy. A queue of one and a spool of two, with four
events, fill both and leave one to refuse; two events in the spool let a replay fail between them; two repeats
are a produce and a replay of one event, or one event twice. The constraint `InOrder` has the events, which are
alike, accepted in one order. Three calls under a limit of two give a call turned away, two that share the last
room of the spool, and one after them; events of one and two units in a spool of two leave room that is too
little.

Three events fill a queue of two and leave one to refuse or to be pushed into the queue behind a batch; two
attempts are a retry and a last failure. Four Connects, two of each user, give two registrations under
way, a code exchanged across a drop, and a reconnection after it. Three grants are a first consent, a
refresh and a reconnection, or two refreshes of two calls; a second replica is what breaks the single
flight of the first. Two syncs and a seed overlap in pairs with a third job to clean up; two probes and a
sync give a health write between another's load and commit. Two tools of one name, a third that can be
renamed onto either the name or its prefixed form, and up to two rows of each (`ServerCatalog` says when
they arise) exercise every branch of the naming; a counter after the suffix needs the second row. In
`directory` the second person is what expires the session under the first one's row; three changes are two
requests beside an operator, a change of staff or an outage. The constraint `OnePolled` lets two requests overlap
where the directory pushes, and one be beside a poll; more requests, pollers and sweepers are covered by the theorems
about the module. Constraints cut only steps to which no fairness applies.
Every other bound is a constant: `MaxStates`, `Clients`, `MaxAge` (ages saturate), `MaxRequests`, `MaxGrants`,
`MaxDuration`, `MaxCrashes`, `MaxRepeats`, `Events`, `Calls`, `MaxChanges`, `Flows`, `MaxRevoked`, `Syncs`, `Seeds`,
`Probes`, `Edits`; job and flow sets bound the runs of each operation, not their overlap.

Deadlock is checked except where the modelled work comes to an end: `audit` (all events accepted and
settled, emitter stopped), `tool_call` (all calls answered), `registration`, `tokens`, `catalog`,
`vserver` and `directory` (every flow, call, job, edit and change is made once). What must not stop there, `tokens` says by
`CallsEnd`; `siem` has deadlock checked.

### Fairness

Weak fairness only, on what an event loop and its timeouts justify: a ready task runs; a factory, an
upstream operation, a close or a produce ends (transports carry timeouts); time passes. `breaker` and
`client` also assume that somebody goes on wanting to call, since a breaker moves only when asked. No
fairness on cancellation, on crashes, on close_key, on stop or on replay: nothing in the source has to call
`replay_to`, or `start` again when the worker is dead. In `audit` fairness on `Work` as a whole leaves the producer free to fail every time, and so does
fairness on `Work` in `siem` with the collector: retries end because attempts are counted. `siem` also has
each emit finish, start happen, an endpoint that has committed go on to invalidate, and TTLs run out. `tokens` has each call's next
step taken: its requests carry timeouts, and an asyncio lock is handed on in order. `directory` has
pollers go on (`_run` starts a cycle after every interval, whatever the last one raised) and requests
answered; an outage is one of the bounded changes, so the directory answers in the end. Nothing is assumed of
users, operators, sweepers, revocations or stop. `access`, `tool_call`,
`registration`, `catalog` and `vserver` are safety only.

## Proofs

TLAPS proves the following for all values of the constants under the stated assumptions on them
(`ConfigAssumption`, `PoolAssumption`, `ClientAssumption`, `AccessAssumption`, `AuditAssumption`,
`ToolCallAssumption`, `SiemAssumption`, `RegistrationAssumption`, `TokensAssumption`, `CatalogAssumption`,
`VserverAssumption`, `DirectoryAssumption`, `NoneAssumption`: positive limits, finite sets of callers, calls
and events, distinct sentinel values, disjoint kinds of jobs, tools and names made of strings). Every
invariant and every action property that a run checks is a theorem; liveness is not.

- `CircuitBreaker_proofs`. The inductive invariant is `TypeOK /\ ClosedBelowThreshold /\
  ProbeFlagCurrent`. `ProbeFlagCurrent` alone is not inductive: `RecordSuccess` needs the range of the
  success count. `LateResultsDoNotDelay` and `ProbeOrphanedByCancelOnly` are action properties that
  follow step by step; `ProbeFlagIsOwned` says that without cancellation the flag always has a running
  probe, so the wedge of `CircuitAdmitsAgain` (below) has no other cause in the breaker.
- `PooledClient_proofs`. For the pool the inductive invariant adds to the four safety properties three parts:
  `ObjectsInv` (objects are created in order, every one before the current is closed, those to come are
  untouched, a closing one has no idle client and stays under the key only while a slot is out),
  `CallersInv` (the place of a caller determines what it refers to) and `LiveInv` (idle, held and
  to-be-closed clients are alive). `SlotsAccounted` needs `LeaseFindsItsObject`, since a release that
  found another object would count down there; that needs `SlotsAccounted` in turn, since a key is
  dropped only at `total = 0`: neither is inductive without the other. A new client is new because of
  `LiveInv`. `PoolImplementsLease` is the refinement: initial states map to initial states, every step to
  `Take`, `Return` or a stutter, with a cardinality argument that users never exceed the limit.
  `WakeupsAreKept` (`NoLostWakeup`) holds for either condition: the count of what is free grows in a step by
  no more than the waiters that the step notifies, less the one wakeup that a woken caller uses up or, cancelled, eats.
  For the composition `CallsInv` relates the two components: the breaker counts a call as running exactly while
  the pool has its caller. By it each step of `PooledClient` is a step of the pool (`ClientImplementsPool`, so
  that the pool's theorems hold behind the breaker) and, but for a start that the pool refuses at once, a step of
  the breaker, whose invariant is inductive for that one too (`ClientProbeFlagIsCurrent`,
  `ClientOrphansByCancelOnly`). `RejectionHasAProbe` says that where no caller can be cancelled the
  exceptions of `RejectionEnds` never come true: the probe flag is owned, no slot is lost, no wakeup eaten.
- `AccessRequests_proofs`. `TypeOK /\ TimesOK /\ ForExists /\ JitIsTemporary` is inductive: `TimesOK`
  carries what a worker has checked up to its commit, and stays true whatever other workers commit in
  between because the duration a request asked for never changes. So `JitIsTemporary` survives the races that break
  `DecidedOnce` without its exception, and the stacking of elevations (below). On `IInv` rests `RaceInv`, about
  the history of `AccessRaces`: overlaps are remembered, a request that one worker alone has loaded is still pending
  (`OnPending`), and a request names a grant that exists, which keeps a new grant's index apart from those in
  use. `OnPending` gives `RequestsAreDecidedOnce`; `GrantsMatchDecisions` needs all of it.
- `Audit_proofs`, `ToolCall`. The inductive invariant is `TypeOK /\ SlotsReturned /\ PlaceInv /\
  EventMatchesCall /\ ExposureInv`. `StrictExposureBounded` does not carry itself: a
  call that has passed the preflight may still find the spool full. `ExposureInv` counts these too: while
  the spool has room nobody is exposed; once it is full, whoever filled it, the exposed calls and those past the
  preflight were all inside together when the last room was taken, hence at most `Limit`, by
  `SlotsReturned`, and the preflight lets no other in. `PlaceInv` says what a call cannot have yet where it stands.
- `Audit_proofs`, `AuditDelivery`. `AuditInv` places every event: once in the queue, in the worker's hand or in
  the file (`PlacesInv`), with what has become of it (`EventsInv`) and what `join` waits for (`WorkerInv`).
  `DeliveredOnce` is not inductive while a replay runs: `ReplayInv` says that what is before its position has
  been delivered, and that everything from its position on
  was delivered at most once for each crash and each repeat, as everything in the file was before the replay began;
  a replay that fails cuts the file to what it has read and not got through.
- `Audit_proofs`, `SiemExporter`. `QueueInv` says that queue and batch hold what they are said to hold, each
  event once; `CountInv` that the counters are the numbers of events sent and dropped; `FreshInv` that
  whoever has read settings or a token and not yet stored it has read the current ones, unless raced.
  `Goes` and its lemmas follow a set of events from one place to another, for all actions alike.
- `Catalog_proofs`, `ServerCatalog`. The inductive invariant adds to `OneSnapshot` and `DeletedIsGone` that jobs
  which write together have met (`WritersMeet`) and that a job which writes alone has read every row that is
  still active (`LoneWriterSawAll`): so its commit leaves nobody else's rows. `LastVerdictsStand`
  needs `LoadedStands`: a job that nobody has overtaken finds in the row what it loaded, so that the columns it does
  not write, because they are equal to its verdict, are its verdict.
- `Catalog_proofs`, `VirtualServer`. `AllowlistIsOneRequest` becomes inductive as `OneSnapshot` does: open edits are
  marked (`OpenMeet`), and one alone has deleted every row (`LoneEditSawAll`). The names take induction over the rows,
  which is done without an induction rule: `Least` (a set of numbers has a least one, from the library's theorem that
  < is well-founded) picks the first row for which a claim would fail. With it `Exposed` is shown to be defined
  (`NamingExists`), and to give a row that shares no name what it wants
  (`UnsharedIsDesired`), while a row that does gets a name its tool has a claim to (`SharedIsClaimed`).
  That `MakeUnique` finds a free name is the pigeonhole principle; `NamesAreUnique` follows. `GatesDue` carries,
  through any syncs, that a gate is a name due to its tool, and `ClaimsApart` that no other tool gets a claim to it.
  The attempt to prove it showed what `Apart` has to exclude: also the names that the server's id makes of a prefixed
  one, and not only the prefixed names; TLC's instance has none that differ in this.
- `ClientRegistration_proofs`. The control part says who holds the lock (`LockHeld`), what a row and a
  flow can look like (`RegistrationShape`, `FlowShape`), that a client a flow registered is in use only
  after that (`ClientsKnown`), that a refused client stays refused (`RefusalsStand`: clients are only ever
  added under new names) and that token rows are identified by flows that are over (`RowsOfThePast`), so
  that no row made later is taken for one a refresh has loaded. On it rests the current part, which
  holds until a refusal is misplaced: what is being exchanged, refreshed or stored is of the registered
  client, or was overtaken by a drop, or is about our document and will be refused (`ExchangesCurrent`,
  `RefreshesCurrent`, `TokensCurrent`, `UnderTombstone`). `GivenUpOnlyForARefusal` needs `RefusalsStand`,
  since the answer came some steps before.
- `OAuthTokens_proofs`. `SingleFlight` (`OneRequestAtATime`) comes first. `TokensOfThePast` and
  `GrantIsFresh` keep a new grant apart from all tokens in anybody's hands, and `RefusedIsOut` says that
  after a 401 the refused token is flagged or no longer the stored one, which gives
  `RetryUsesAnotherToken`. `OneRenewal` says that, while nothing was overtaken or lost, one refresh runs at a
  time, of the row that is there, and that either the row's refresh token or the one granted for it is
  good; `RefreshTokenKept` follows.
- `Directory_proofs`. `IInv` adds to `TypeOK` three parts. `LoadedIsThere`: a row that a request or a poll
  has loaded is there or known to be gone. `Marked`: a row that is not disabled and has a `soft_deleted_at`
  is in `mixed`. `Picked`: who is on a sweeper's list is there, and disabled or in `mixed` or `restored`. `ActiveKept`
  follows. The hard step is a commit of columns that differ from what was loaded, over a row that others
  have changed. For `OutagesAreNoTerminations`, `EInv` adds `Evidence` (a person listed as anything but active, or not found in
  the listing, was not active at some moment of this poll) and `LeftOver` (an active person whose row bears the id and
  is left for the second loop is in the listing), so that `Verdict` never deactivates such a row without.

Only model-checked: liveness (`RejectionIsTemporary`, `RejectionEnds`, `RemovedGetsClosed`, `EventSettles`,
`ExportSettles`, `CallsEnd`, `DirectoryFollowed`), which is out of the prover's reach. Proved and not run, because the
run of the module has deeper ones: the type invariants of the modules, `ClosedBelowThreshold`,
`ClientsExclusive`, `CallsInv`, `SingleFlight`, `ProbeFlagOwned`, `GivenUpForARefusal`.

## What the code does differently from what is said of it

The findings of `PROJECT.json` quote what each of the following contradicts.
The modules also define properties that state what is said of the code and that TLC finds violated when
one is added to the `.cfg` of its module's run:

| Property | Module, run | How it fails |
|---|---|---|
| `CircuitAdmitsAgain` | `PooledClient`, `client` | a cancelled half-open probe, a cancelled retirement that lost the slot, or a probe whose wakeup was eaten leaves the circuit rejecting for ever |
| `NoSlotLost` | `UpstreamPool`, `pool` | a caller cancelled while it closes expired clients keeps its slot counted for ever |
| `EveryFreedSlotWakes` | `UpstreamPool`, `pool` | before Python 3.13 (`CondRenotifies = FALSE`) a notified caller that is cancelled takes the notification with it: a waiter sleeps on beside a free slot until the next release, and when it is the half-open probe there may be none |
| `NothingWaitsForEver` | `AuditDelivery`, `audit` | an `OSError` of the spool ends the worker; emit goes on accepting and stop waits for ever |
| `ReplayKeepsEvents` | `AuditDelivery`, `audit` | an event spooled while a replay awaits the producer is overwritten at its end |
| `StrictNeverUnaudited` | `ToolCall`, `tool_call` | the preflight asks for some room, the event needs its own length |
| `StrictAnswersAreKept` | `ToolCall`, `tool_call` | the store reports an event as durable whose insert failed, and strict mode answers |
| `UnsentIsNotCalled` | `ToolCall`, `tool_call` | a call that the open circuit or the pool stopped is recorded as error, not as not_called |
| `RejectionRemembered` | `ClientRegistration`, `registration` | a second refusal under the tombstone deletes it |
| `AcceptedIsKept` | `ClientRegistration`, `registration` | a late refusal of the old client drops the new registration and all tokens |
| `LoopRuns` | `ClientRegistration`, `registration` | the tombstone's row lock is held across the registration; whoever writes the row stops the event loop |
| `ConnectedWorks` | `OAuthTokens`, `tokens` | the flag of a late 401 outlives a reconnection when no refresh token is issued |
| `GoodTokenKept` | `OAuthTokens`, `tokens` | a 401 of the old token flags the fresh one; N calls make N refreshes |
| `SyncMeansHealthy` | `ServerCatalog`, `catalog` | a column that equals what was loaded is not written, so a probe's "down" survives a later sync |
| `HealthyWithoutError` | `ServerCatalog`, `catalog` | columns of overlapping writers mix |
| `RestoredIsKept` | `Directory`, `directory` | a PUT that restores a user leaves `soft_deleted_at`, and a sweeper deletes whom a PATCH restored after its scan |
| `LeaversAreOut` | `Directory`, `directory` | rows of a directory that was disconnected are nobody's after it is connected again |
| `EveryPollNeedsEvidence` | `Directory`, `directory` | a SAML sign-in links the row by its NameID; the poller takes it for somebody who has left |
| `BarredStaysOut` | `Directory`, `directory` | a user whom an operator disabled works again after the next poll |

Others are the exceptions that a passing property names: decisions that overlap (`raced` in `AccessRaces`: both
are written), transactions that overlap (`met` in `ServerCatalog`: two active lists, so the resolver exposes
tools twice; `overlapped` in `VirtualServer`: the union of two allowlists, or a conflict reported as a duplicate
name), a document's refusal that marks another client (`misplaced`), a look-up across a settings change
(`raced` in `SiemExporter`), events that stop abandons uncounted (place "lost", and the queue it leaves).
Two first Connects both register, and the one that commits second fails. A gated
tool is exposed under another name, without its gate, as soon as another server offers a tool of its name;
`GateKeepsItsTool` says only that no other tool inherits the gate meanwhile. Without a property:

- In `SiemExporter` a failed look-up is cached like a tenant without a target (`targets.py:194`), so a
  database error silences export for a TTL; queued events go to whatever target the last emit found.
- Somebody who signs in by SAML where the directory is polled is deactivated by the next poll, swept after the
  grace period, and created anew by the sign-in after that: `DirectoryFollowed` excepts these people.
- A PUT with active=false starts no grace period (`scim/users.py:159`); an error of the ORM in one directory's
  poll ends the cycle for the others (`workspace_polling.py:414`).
- Two probes may be in flight in half-open: the late success of a call admitted before the outage takes
  the probe flag down (`circuit_breaker.py:133`; `tests/upstream/test_circuit_breaker.py:92` expects one).
- A slot is given back before its client is closed, so live clients can exceed
  `max_clients_per_upstream` for the time of a close (`pool.py:162`; `PLATFORM.md:651`).
- A client's age counts from its first release and not from its build (`pool.py:149`; comment at line 62).
- Approving a tool elevation does not look at the tool's ceiling again
  (`access_requests_service.py:331`; docstring at 311).
- Two self-service JIT requests that pass the test for an active grant together leave two live
  elevations (`jit_service.py:287`; the comment above it: "Elevating again would stack a second grant").
  Each is bounded on its own (`JitIsTemporary`).
- In strict mode with the disk emitter, calls that passed the preflight together may find the spool
  full; these are no more than the tenant's limit (`StrictExposureBounded`), unlike the calls of
  `StrictNeverUnaudited`, which no number bounds. With the queue emitter the preflight always passes and
  a queued event is never durable, so strict mode calls the upstream and withholds the answer.
- An event whose produce raised after the broker had taken it is spooled, and replayed once more
  (`emitter.py:95`); a replay that is cancelled leaves what it has delivered in the file (`spool.py:45`).
  Both are the repeats of `DeliveredOnce`.
- A cancelled tool call leaves no audit event (`lifecycle.py:530`).
- A crash while `_replace` rewrites the spool loses the rest of the file (`spool.py:59`);
  `CrashInReplace` in `AuditDelivery`, excepted by name in `DurableKept`.
- The comment at `inflight_gate.py:117` allows for one call too many; `asyncio.Semaphore` does not
  suspend when it is not locked, so none is (`SlotsReturned`).

## Not modelled

I/O errors of the spool's disk but under the worker (in `emit_nowait` they reach the caller; in `_replace` they may
truncate the file), a torn last line, listing and filtering,
groups and memberships, API keys, a tenant with a directory that pushes beside one that is polled, audit rows of administrators, how a client is built, wording and
formatting. Identity, policy and argument checks are free verdicts. Two concurrent `replay_to`. The
order of the pool's idle list and of the condition's waiters is left open, so what is shown holds for
any order. OAuth discovery, PKCE, state tokens and sealing; static client credentials (they have no
registration to lose). The scheduler's choice of the servers that are due and its concurrency limit. The
row of a virtual server but for allowlist, rename map and gates; the reaping of allowlist rows when an upstream server is
deleted. The provider's memo of pooled clients is three lines above the pool and would say no more than
they do. The user interfaces (`api/operator_ui.py` and `api/portal_ui.py`, a third of the source) render
HTML and keep no state; the session registries are maps under fresh keys, whose only concurrent effect, a session
that ends during a call, is in `ToolCall`; retention is a loop of single SQL deletes by age; the rest of the components without a module is listed with the reason in `PROJECT.json`.

## Plan

The most important path, a tool call through breaker and pool with its audit event, and the grants
behind it, came first; then what a call depends on: tokens, client registrations, the catalog of a
server, the virtual server's names, the SIEM export, and the users a directory provisions. In order:

1. Groups and memberships as a directory pushes them, beside the grants they carry.
2. Proofs: an abstract specification of at-least-once delivery that `AuditDelivery` implements, and of one key's
   catalog that `ServerCatalog` implements.
   Runs are few and one for each question: new modules bring one passing run each.
