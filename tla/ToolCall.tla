------------------------------- MODULE ToolCall -------------------------------
(***************************************************************************)
(* A tool call of one tenant: the inflight gate in front of the gateway    *)
(* (src/vyuu_gateway/api/inflight_gate.py) and ToolCallLifecycle           *)
(* (src/vyuu_gateway/tool_calls/lifecycle.py), which decides, calls the    *)
(* upstream, emits the audit event and, by the audit failure mode, answers *)
(* or withholds the answer.                                                *)
(*                                                                         *)
(* handle_tool_call awaits the session registry and the upstream client,   *)
(* which waits for its lease and then for the upstream.  Between two       *)
(* awaits it runs without a suspension, so each stretch is one action.     *)
(* The emitter is one per process: other tenants' events and other audit   *)
(* events take room in its queue and its spool at any time.                *)
(*                                                                         *)
(* Identity, resolution, scope, elevation, arguments and policy are one    *)
(* verdict each, chosen freely: the collaborators are injected.  The       *)
(* spool's max_bytes and an event's length are in units.                   *)
(***************************************************************************)
EXTENDS Integers, FiniteSets

CONSTANTS
    Calls,
    Modes,          \* of AuditFailureMode
    Emitters,       \* the kinds of audit emitter that may be injected
    Limit,          \* per_tenant_limit
    SpoolSize,      \* max_bytes of the spool of the disk or the queue emitter
    Sizes,          \* how long an event's line in the spool may be
    QueueSize       \* max_queue_size of the queue emitter

ASSUME ToolCallAssumption ==
    /\ IsFiniteSet(Calls)
    /\ Modes \subseteq {"strict", "continuity", "monitor"}
    /\ Emitters \subseteq {"disk", "queue", "store"}
    /\ Limit \in Nat \ {0}
    /\ SpoolSize \in Nat
    /\ Sizes \subseteq Nat \ {0}
    /\ QueueSize \in Nat \ {0}

VARIABLES
    mode,           \* _audit_failure_mode
    emitter,        \* _audit_emitter: DiskSpoolAuditEmitter, AsyncAuditEmitter
                    \* with an overflow spool, or PostgresToolCallEventStore
    session,        \* is the session in the registry?
    free,           \* the value of the tenant's semaphore
    pc,             \* where each call stands
    found,          \* what the registry answered
    reached,        \* the calls that were sent to the upstream
    outcome,        \* the status of each call's result
    event,          \* its audit event
    graph,          \* the calls that emitted a graph event
    spooled,        \* the length of the spool file
    queued          \* how many events are in the queue

audit == <<event, graph, spooled, queued>>
vars == <<mode, emitter, session, free, pc, found, reached, outcome, event,
          graph, spooled, queued>>

\* "leasing": in call_tool, before anything is sent.
Inside == {"lookup", "answered", "leasing", "upstream"}
InsideCalls == {c \in Calls : pc[c] \in Inside}

\* The checks of handle_tool_call after the session's, in their order.
Gates == {"identity", "resolve", "tool", "scope", "elevation", "arguments", "policy"}

\* place is where the emitter put the event; "claimed" is the store's failed
\* insert: the event is nowhere.  A rejected event either met a full spool or did
\* not fit into what was left ("too_large").
Places == {"spool", "queue", "row", "claimed", "full", "too_large"}
Event == [decision : {"allow", "deny"},
          upstream : {"not_called", "ok", "error", "timeout"},
          place : Places]
NoEvent == [decision |-> "none"]

\* What the emitter reports as durable (EmitResult.durable), and what is.
Reported == {"spool", "row", "claimed"}
Kept == {"spool", "row"}

TypeOK ==
    /\ mode \in Modes
    /\ emitter \in Emitters
    /\ session \in BOOLEAN
    /\ free \in 0..Limit
    /\ pc \in [Calls -> Inside \cup {"new", "done"}]
    /\ found \in [Calls -> BOOLEAN]
    /\ reached \subseteq Calls
    /\ outcome \in [Calls -> {"none", "over_limit", "session_not_found", "denied",
                              "input_required_denied", "upstream_timeout", "upstream_error",
                              "allowed", "audit_unavailable", "cancelled"}]
    /\ event \in [Calls -> Event \cup {NoEvent}]
    /\ graph \subseteq Calls
    /\ spooled \in 0..SpoolSize
    /\ queued \in 0..QueueSize

Init ==
    /\ mode \in Modes
    /\ emitter \in Emitters
    /\ session = TRUE
    /\ free = Limit
    /\ pc = [c \in Calls |-> "new"]
    /\ found = [c \in Calls |-> FALSE]
    /\ reached = {}
    /\ outcome = [c \in Calls |-> "none"]
    /\ event = [c \in Calls |-> NoEvent]
    /\ graph = {}
    /\ spooled = 0
    /\ queued = 0

-----------------------------------------------------------------------------
(* The inflight gate, PerTenantInflightGate.__call__.  An operator whose name *)
(* starts with Bug is a plausible mistake in the definition after it; no      *)
(* specification uses it.                                                     *)

\* locked(): the 503.
TurnAway(c) ==
    /\ pc[c] = "new"
    /\ free = 0
    /\ pc' = [pc EXCEPT ![c] = "done"]
    /\ outcome' = [outcome EXCEPT ![c] = "over_limit"]
    /\ UNCHANGED <<mode, emitter, session, free, found, reached, audit>>

\* acquire() does not suspend when the semaphore is not locked.  The call looks
\* its session up, or comes with one (request.session).
Enter(c) ==
    /\ pc[c] = "new"
    /\ free > 0
    /\ free' = free - 1
    /\ \/ /\ pc' = [pc EXCEPT ![c] = "lookup"]
          /\ UNCHANGED found
       \/ /\ pc' = [pc EXCEPT ![c] = "answered"]
          /\ found' = [found EXCEPT ![c] = TRUE]
    /\ UNCHANGED <<mode, emitter, session, reached, outcome, audit>>

\* The result goes out and the gate's finally returns the slot.
Leave(c, status) ==
    /\ pc' = [pc EXCEPT ![c] = "done"]
    /\ outcome' = [outcome EXCEPT ![c] = status]
    /\ free' = free + 1

-----------------------------------------------------------------------------
(* The audit emitters: where an event may go, and what is left of their room *)

\* DiskSpool.append
Appended(place, size) ==
    place = (IF spooled + size <= SpoolSize THEN "spool"
             ELSE IF spooled = SpoolSize THEN "full" ELSE "too_large")

Place(place, size) ==
    \/ emitter = "disk" /\ Appended(place, size)
    \/ emitter = "queue" /\ queued < QueueSize /\ place = "queue"
    \/ emitter = "queue" /\ queued = QueueSize /\ Appended(place, size)
    \/ emitter = "store" /\ place \in {"row", "claimed"}

\* An event goes to a place.
Put(place) ==
    /\ \E size \in Sizes :
        /\ Place(place, size)
        /\ spooled' = IF place = "spool" THEN spooled + size ELSE spooled
    /\ queued' = IF place = "queue" THEN queued + 1 ELSE queued

\* _emit_audit, then _emit_graph_event, which wants a validated principal.
Emit(c, decision, upstream, place, principal) ==
    /\ Put(place)
    /\ event' = [event EXCEPT ![c] = [decision |-> decision, upstream |-> upstream,
                                      place |-> place]]
    /\ graph' = IF principal THEN graph \cup {c} ELSE graph

\* can_durably_accept_now; the store has no such method, and the queue emitter
\* only asks whether it has a spool.
BugCanDurablyAccept == emitter # "store"

CanDurablyAccept ==
    \/ emitter = "disk" /\ spooled < SpoolSize
    \/ emitter = "queue"

\* _audit_failure_result: strict mode answers only with an event that the emitter
\* reports as durable.
Withheld(place) == mode = "strict" /\ place \notin Reported

-----------------------------------------------------------------------------
(* handle_tool_call *)

\* The registry answers; its task runs on later.
Answer(c) ==
    /\ pc[c] = "lookup"
    /\ found' = [found EXCEPT ![c] = session]
    /\ pc' = [pc EXCEPT ![c] = "answered"]
    /\ UNCHANGED <<mode, emitter, session, free, reached, outcome, audit>>

\* _denied_result
Refuse(c, status, principal) ==
    /\ \E place \in Places :
        /\ Emit(c, "deny", "not_called", place, principal)
        /\ Leave(c, IF Withheld(place) THEN "audit_unavailable" ELSE status)
    /\ UNCHANGED <<mode, emitter, session, found, reached>>

NoSession(c) ==
    /\ pc[c] = "answered"
    /\ ~found[c]
    /\ Refuse(c, "session_not_found", FALSE)

Deny(c) ==
    /\ pc[c] = "answered"
    /\ found[c]
    /\ \E g \in Gates : Refuse(c, "denied", g # "identity")

\* All gates are passed; strict mode asks the emitter first.
PreflightFails(c) ==
    /\ pc[c] = "answered"
    /\ found[c]
    /\ mode = "strict"
    /\ ~CanDurablyAccept
    /\ Leave(c, "audit_unavailable")
    /\ UNCHANGED <<mode, emitter, session, found, reached, audit>>

CallUpstream(c) ==
    /\ pc[c] = "answered"
    /\ found[c]
    /\ mode = "strict" => CanDurablyAccept
    /\ pc' = [pc EXCEPT ![c] = "leasing"]
    /\ UNCHANGED <<mode, emitter, session, free, found, reached, outcome, audit>>

\* The circuit admits the call, a client is leased, and the request is sent.
Reach(c) ==
    /\ pc[c] = "leasing"
    /\ pc' = [pc EXCEPT ![c] = "upstream"]
    /\ reached' = reached \cup {c}
    /\ UNCHANGED <<mode, emitter, session, free, found, outcome, audit>>

\* What the upstream's end becomes: the event's decision and upstream status, and
\* the result's status.  A refusal of an input-required round is a denial.
Failures == {<<"allow", "error", "upstream_error">>, <<"allow", "timeout", "upstream_timeout">>}
Ends == Failures \cup
    {<<"allow", "ok", "allowed">>, <<"deny", "error", "input_required_denied">>}

\* _emit_audit and _audit_failure_result at the end of a call.
EndsWith(c, end) ==
    /\ \E place \in Places :
        /\ Emit(c, end[1], end[2], place, TRUE)
        /\ Leave(c, IF Withheld(place) THEN "audit_unavailable" ELSE end[3])
    /\ UNCHANGED <<mode, emitter, session, found, reached>>

\* The circuit is open, the pool is closed, or the client cannot be built:
\* call_tool raises before anything is sent.
NotReached(c) ==
    /\ pc[c] = "leasing"
    /\ \E end \in Failures : EndsWith(c, end)

BugFinishTimeout(c) ==
    /\ pc[c] = "upstream"
    /\ \E end \in Ends :
        EndsWith(c, <<end[1], IF end[2] = "timeout" THEN "not_called" ELSE end[2], end[3]>>)

Finish(c) ==
    /\ pc[c] = "upstream"
    /\ \E end \in Ends : EndsWith(c, end)

BugCancelKeepsSlot(c) ==
    /\ pc[c] \in Inside
    /\ pc' = [pc EXCEPT ![c] = "done"]
    /\ outcome' = [outcome EXCEPT ![c] = "cancelled"]
    /\ UNCHANGED <<mode, emitter, session, free, found, reached, audit>>

\* The task is cancelled at one of the awaits: no handler of handle_tool_call
\* catches CancelledError, so nothing is emitted.
CancelCall(c) ==
    /\ pc[c] \in Inside
    /\ Leave(c, "cancelled")
    /\ UNCHANGED <<mode, emitter, session, found, reached, audit>>

-----------------------------------------------------------------------------
\* The session is deleted by its client or expires.
EndSession ==
    /\ session
    /\ session' = FALSE
    /\ UNCHANGED <<mode, emitter, free, pc, found, reached, outcome, audit>>

\* An event that is no call's of this tenant.
OthersEmit ==
    /\ \E place \in {"spool", "queue"} : Put(place)
    /\ UNCHANGED <<mode, emitter, session, free, pc, found, reached, outcome, event, graph>>

\* The queue's worker delivers an event, spools it, or drops it.
Drain ==
    /\ queued > 0
    /\ queued' = queued - 1
    /\ \E size \in Sizes \cup {0} :
        /\ spooled + size <= SpoolSize
        /\ spooled' = spooled + size
    /\ UNCHANGED <<mode, emitter, session, free, pc, found, reached, outcome, event, graph>>

Run(c) ==
    \/ Answer(c) \/ NoSession(c) \/ Deny(c) \/ PreflightFails(c)
    \/ CallUpstream(c) \/ Reach(c) \/ NotReached(c) \/ Finish(c)

Next ==
    \/ \E c \in Calls : TurnAway(c) \/ Enter(c) \/ Run(c) \/ CancelCall(c)
    \/ EndSession \/ OthersEmit \/ Drain

Spec == Init /\ [][Next]_vars

-----------------------------------------------------------------------------
(* Properties *)

\* The semaphore counts the calls inside, through every early return, failure and
\* cancellation: no path keeps a slot, none returns one twice, and the limit holds.
SlotsReturned == free = Limit - Cardinality(InsideCalls)

\* The audit trail tells what happened.  A finished call has one event unless it
\* was turned away, refused by the preflight or cancelled.  What says "not_called"
\* was not sent to the upstream, through every refusal and failure; what was sent
\* is denied only for its input-required round, and only what was sent is "ok" or
\* denied after the gates; a graph event has an audit event beside it.
EventMatchesCall ==
    \A c \in Calls :
        /\ pc[c] # "done" => event[c] = NoEvent
        /\ outcome[c] \notin {"none", "over_limit", "audit_unavailable", "cancelled"}
            => event[c] # NoEvent
        /\ outcome[c] = "audit_unavailable" /\ c \in reached => event[c] # NoEvent
        /\ outcome[c] = "allowed" => event[c].decision = "allow" /\ event[c].upstream = "ok"
        /\ event[c] # NoEvent /\ c \in reached =>
            /\ event[c].upstream # "not_called"
            /\ event[c].decision = "deny" => event[c].upstream = "error"
        /\ event[c] # NoEvent /\ c \notin reached =>
            /\ event[c].upstream # "ok"
            /\ event[c].decision = "deny" => event[c].upstream = "not_called"
        /\ c \in graph => event[c] # NoEvent

\* Strict mode with the disk emitter: the preflight looks at the room that is left
\* but does not reserve it, so calls that passed it together may find the spool full
\* after they reached the upstream, whoever filled it.  At most Limit calls of a
\* tenant ever do, however long the process runs: they were all inside when the last
\* room was taken, and nobody passes the preflight afterwards.  An event that does
\* not fit into some room is not counted: StrictNeverUnaudited.
StrictExposureBounded ==
    mode = "strict" /\ emitter = "disk" =>
        Cardinality({c \in reached : event[c] # NoEvent /\ event[c].place = "full"}) <= Limit

\* "In strict audit mode, audit unavailability blocks allowed upstream calls before
\* upstream execution": with the disk emitter a call that reached the upstream gets
\* a durable event.
StrictNeverUnaudited ==
    mode = "strict" /\ emitter = "disk" =>
        \A c \in reached : event[c] # NoEvent => event[c].place \in Kept

\* The store's "EmitResult.durable reflects 'we have a copy'": in strict mode a
\* caller learns a result only when its event is kept.
StrictAnswersAreKept ==
    mode = "strict" => \A c \in Calls :
        outcome[c] \notin {"none", "over_limit", "audit_unavailable", "cancelled"}
            => event[c].place \in Kept

\* "Circuit breaker open: emit with upstream_status=not_called": the event of a call
\* that was not sent says so.
UnsentIsNotCalled ==
    \A c \in Calls :
        event[c] # NoEvent /\ c \notin reached => event[c].upstream = "not_called"

=============================================================================
