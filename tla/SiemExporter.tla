---------------------------- MODULE SiemExporter ----------------------------
(***************************************************************************)
(* Export of events to a tenant's SIEM target: the look-up of the target   *)
(* with its cache, the bounded queue, the worker that delivers batches,    *)
(* and the settings an operator changes meanwhile.                         *)
(* src/vyuu_gateway/siem/exporter.py, siem/targets.py, siem/hec.py and     *)
(* api/siem.py.                                                            *)
(*                                                                         *)
(* One target queue.  emit_nowait runs on any thread, so its look-up and   *)
(* its push are steps of their own; the worker is a task of the event loop *)
(* and its steps are what lies between two awaits; endpoints run on other  *)
(* threads.  The worker's wait for its wake event also ends after the      *)
(* flush interval, so it may look at the queue at any time.                *)
(***************************************************************************)
EXTENDS Integers, Sequences, FiniteSets

CONSTANTS
    Exported,       \* the events that are emitted
    Targets,        \* the collectors an operator may configure
    MaxItems,       \* max_queue_size
    BatchMax,       \* batch_max_events
    MaxAttempts,    \* max_attempts
    MaxChanges      \* bound on the settings changes

None == "none"      \* no row, or one that is switched off
Absent == "absent"  \* not in the cache
Failed == "failed"  \* what a failed look-up leaves in the cache; acts as None
NoToken == 0

ASSUME SiemAssumption ==
    /\ IsFiniteSet(Exported)
    /\ Targets \cap {None, Absent, Failed} = {}
    /\ MaxItems \in Nat \ {0}
    /\ BatchMax \in Nat \ {0}
    /\ MaxAttempts \in Nat \ {0}
    /\ MaxChanges \in Nat

VARIABLES
    row,            \* the row of tenant_siem_targets
    secret,         \* the version of the token in the secret store
    unsettled,      \* a settings change is committed and not yet invalidated?
    raced,          \* history: had something read the old settings at an invalidate?
    cache,          \* DatabaseTargetResolver._cache
    token,          \* SiemExporter._tokens
    made,           \* has a first push made the _TargetQueue?
    items,          \* _TargetQueue.items
    sent,           \* stats.sent_events
    dropped,        \* stats.dropped_events
    inFlight,       \* _TargetQueue.in_flight
    phase,          \* of the exporter: "new", "running", "stopped"
    task,           \* the worker task
    flushed,        \* has flush() returned True?
    place,          \* history: where each event is
    aim             \* what the emit under way of each event has read from the database

settings == <<row, secret, unsettled, raced>>
stats == <<sent, dropped>>
exporterVars == <<settings, cache, token, made, items, stats, inFlight, phase, task,
          flushed, place, aim>>

Versions == 1..(MaxChanges + 1)
Found == Targets \cup {None, Failed}

Worker == [at : {"none", "idle", "token", "fetched", "sending"}, batch : Seq(Exported),
           token : {NoToken} \cup Versions, attempt : 1..MaxAttempts]
NoWorker == [at |-> "none", batch |-> << >>, token |-> NoToken, attempt |-> 1]
Idle == [NoWorker EXCEPT !.at = "idle"]

\* "lost" is an event whose batch was under way at stop.
EventPlaces == {"new", "loaded", "found", "nowhere", "queued", "refused",
           "drained", "sent", "failed", "lost"}
At(ps) == {e \in Exported : place[e] \in ps}

ExporterTypeOK ==
    /\ row \in Targets \cup {None}
    /\ secret \in Versions
    /\ unsettled \in BOOLEAN
    /\ raced \in BOOLEAN
    /\ cache \in Found \cup {Absent}
    /\ token \in {NoToken} \cup Versions
    /\ made \in BOOLEAN
    /\ items \in Seq(Exported)
    /\ Len(items) <= MaxItems
    /\ sent \in Nat
    /\ dropped \in Nat
    /\ inFlight \in Nat
    /\ phase \in {"new", "running", "stopped"}
    /\ task \in Worker
    /\ flushed \in BOOLEAN
    /\ place \in [Exported -> EventPlaces]
    /\ aim \in [Exported -> Found]

ExporterInit ==
    /\ row \in Targets \cup {None}
    /\ secret = 1
    /\ unsettled = FALSE
    /\ raced = FALSE
    /\ cache = Absent
    /\ token = NoToken
    /\ made = FALSE
    /\ items = << >>
    /\ sent = 0
    /\ dropped = 0
    /\ inFlight = 0
    /\ phase = "new"
    /\ task = NoWorker
    /\ flushed = FALSE
    /\ place = [e \in Exported |-> "new"]
    /\ aim = [e \in Exported |-> None]

Moves(es, p) == place' = [e \in Exported |-> IF e \in es THEN p ELSE place[e]]
Elements(s) == {s[i] : i \in 1..Len(s)}

-----------------------------------------------------------------------------
(* emit_nowait *)

\* Where an emit goes on that found t: an event nobody wants is forgotten.
After(t) == IF t \in Targets THEN "found" ELSE "nowhere"

\* _tenant_target with a cached answer.
Hit(e) ==
    /\ place[e] = "new"
    /\ cache # Absent
    /\ Moves({e}, After(cache))
    /\ UNCHANGED <<settings, cache, token, made, items, stats, inFlight, phase, task, flushed, aim>>

\* _load, which answers None when the database does not.
Load(e) ==
    /\ place[e] = "new"
    /\ cache = Absent
    /\ \E t \in {row, Failed} : aim' = [aim EXCEPT ![e] = t]
    /\ Moves({e}, "loaded")
    /\ UNCHANGED <<settings, cache, token, made, items, stats, inFlight, phase, task, flushed>>

\* The answer is cached, whatever happened since it was read.
Store(e) ==
    /\ place[e] = "loaded"
    /\ cache' = aim[e]
    /\ aim' = [aim EXCEPT ![e] = None]
    /\ Moves({e}, After(aim[e]))
    /\ UNCHANGED <<settings, token, made, items, stats, inFlight, phase, task, flushed>>

BugPushUncounted(e) ==
    /\ place[e] = "found"
    /\ made' = TRUE
    /\ IF Len(items) >= MaxItems
         THEN /\ Moves({e}, "refused")
              /\ UNCHANGED <<items, dropped>>
         ELSE /\ items' = Append(items, e)
              /\ Moves({e}, "queued")
              /\ UNCHANGED dropped
    /\ UNCHANGED <<settings, cache, token, sent, inFlight, phase, task, flushed, aim>>

\* _queue_for and push.  A full queue drops the newest event.
Push(e) ==
    /\ place[e] = "found"
    /\ made' = TRUE
    /\ IF Len(items) >= MaxItems
         THEN /\ dropped' = dropped + 1
              /\ Moves({e}, "refused")
              /\ UNCHANGED items
         ELSE /\ items' = Append(items, e)
              /\ Moves({e}, "queued")
              /\ UNCHANGED dropped
    /\ UNCHANGED <<settings, cache, token, sent, inFlight, phase, task, flushed, aim>>

-----------------------------------------------------------------------------
(* The worker *)

StartExporter ==
    /\ phase = "new"
    /\ phase' = "running"
    /\ UNCHANGED <<settings, cache, token, made, items, stats, inFlight, task, flushed, place, aim>>

\* Scheduled by start for a queue that exists, else by the push that makes it.
EnsureWorker ==
    /\ phase = "running"
    /\ made
    /\ task.at = "none"
    /\ task' = Idle
    /\ UNCHANGED <<settings, cache, token, made, items, stats, inFlight, phase, flushed, place, aim>>

BugDrainUnannounced ==
    LET n == IF Len(items) < BatchMax THEN Len(items) ELSE BatchMax
        batch == SubSeq(items, 1, n)
    IN  /\ task.at = "idle"
        /\ items # << >>
        /\ items' = SubSeq(items, n + 1, Len(items))
        /\ task' = [at |-> "token", batch |-> batch, token |-> NoToken, attempt |-> 1]
        /\ Moves(Elements(batch), "drained")
        /\ UNCHANGED <<settings, cache, token, made, stats, inFlight, phase, flushed, aim>>

\* _run up to the first await of _deliver: a batch is taken off the queue.
TakeBatch ==
    LET n == IF Len(items) < BatchMax THEN Len(items) ELSE BatchMax
        batch == SubSeq(items, 1, n)
    IN  /\ task.at = "idle"
        /\ items # << >>
        /\ items' = SubSeq(items, n + 1, Len(items))
        /\ inFlight' = n
        /\ task' = [at |-> "token", batch |-> batch, token |-> NoToken, attempt |-> 1]
        /\ Moves(Elements(batch), "drained")
        /\ UNCHANGED <<settings, cache, token, made, stats, phase, flushed, aim>>

\* _token: a cached one, or else the one the secret store has while it is asked;
\* that one is cached when the answer arrives.
UseToken ==
    /\ task.at = "token"
    /\ token # NoToken
    /\ task' = [task EXCEPT !.at = "sending", !.token = token]
    /\ UNCHANGED <<settings, cache, token, made, items, stats, inFlight, phase, flushed, place, aim>>

FetchToken ==
    /\ task.at = "token"
    /\ token = NoToken
    /\ task' = [task EXCEPT !.at = "fetched", !.token = secret]
    /\ UNCHANGED <<settings, cache, token, made, items, stats, inFlight, phase, flushed, place, aim>>

TokenArrives ==
    /\ task.at = "fetched"
    /\ token' = task.token
    /\ task' = [task EXCEPT !.at = "sending"]
    /\ UNCHANGED <<settings, cache, made, items, stats, inFlight, phase, flushed, place, aim>>

\* The batch is done with, and the worker looks at the queue again.
BatchEnds(p) ==
    /\ task' = Idle
    /\ inFlight' = 0
    /\ Moves(Elements(task.batch), p)
    /\ UNCHANGED <<settings, cache, token, made, items, phase, flushed, aim>>

Accepted ==
    /\ task.at = "sending"
    /\ sent' = sent + Len(task.batch)
    /\ UNCHANGED dropped
    /\ BatchEnds("sent")

\* _record_failure: there is no token, or the collector refuses for good, or for
\* the last time.
GivesUp ==
    /\ task.at \in {"token", "sending"}
    /\ task.at = "token" => token = NoToken
    /\ dropped' = dropped + Len(task.batch)
    /\ UNCHANGED sent
    /\ BatchEnds("failed")

BugRetryForever ==
    /\ task.at = "sending"
    /\ task' = [task EXCEPT !.attempt = IF @ < MaxAttempts THEN @ + 1 ELSE 1]
    /\ UNCHANGED <<settings, cache, token, made, items, stats, inFlight, phase, flushed, place, aim>>

\* A retryable answer or a timeout: the same batch again, after the backoff.
Retry ==
    /\ task.at = "sending"
    /\ task.attempt < MaxAttempts
    /\ task' = [task EXCEPT !.attempt = @ + 1]
    /\ UNCHANGED <<settings, cache, token, made, items, stats, inFlight, phase, flushed, place, aim>>

\* The shutdown flushes, for two seconds at most, and then stops.
Flush ==
    /\ phase = "running"
    /\ ~flushed
    /\ items = << >>
    /\ inFlight = 0
    /\ flushed' = TRUE
    /\ UNCHANGED <<settings, cache, token, made, items, stats, inFlight, phase, task, place, aim>>

\* stop cancels the worker where it is; the batch under way is neither sent on
\* nor counted.
StopExporter ==
    /\ phase = "running"
    /\ phase' = "stopped"
    /\ task' = NoWorker
    /\ inFlight' = 0
    /\ Moves(Elements(task.batch), "lost")
    /\ UNCHANGED <<settings, cache, token, made, items, stats, flushed, aim>>

-----------------------------------------------------------------------------
(* Settings *)

\* The commit of set_siem_config_endpoint or clear_siem_config_endpoint.
Configure ==
    /\ ~unsettled
    /\ row' \in (Targets \cup {None}) \ {row}
    /\ unsettled' = TRUE
    /\ UNCHANGED <<secret, raced, cache, token, made, items, stats, inFlight, phase, task, flushed, place, aim>>

\* The store.put of set_siem_token_endpoint.
StoreToken ==
    /\ ~unsettled
    /\ row # None
    /\ secret <= MaxChanges
    /\ secret' = secret + 1
    /\ unsettled' = TRUE
    /\ UNCHANGED <<row, raced, cache, token, made, items, stats, inFlight, phase, task, flushed, place, aim>>

\* Somebody has read the old settings and has not stored them yet.
Racing ==
    \/ \E e \in At({"loaded"}) : aim[e] \notin {row, Failed}
    \/ task.at = "fetched" /\ task.token # secret

BugInvalidateTarget ==
    /\ unsettled
    /\ unsettled' = FALSE
    /\ raced' = (raced \/ Racing)
    /\ cache' = Absent
    /\ UNCHANGED <<row, secret, token, made, items, stats, inFlight, phase, task, flushed, place, aim>>

\* SiemExporter.invalidate, at the end of either endpoint.
Invalidate ==
    /\ unsettled
    /\ unsettled' = FALSE
    /\ raced' = (raced \/ Racing)
    /\ cache' = Absent
    /\ token' = NoToken
    /\ UNCHANGED <<row, secret, made, items, stats, inFlight, phase, task, flushed, place, aim>>

\* A cached answer, negative ones included, reaches its TTL.
ExpireTarget ==
    /\ cache # Absent
    /\ cache' = Absent
    /\ UNCHANGED <<settings, token, made, items, stats, inFlight, phase, task, flushed, place, aim>>

ExpireToken ==
    /\ token # NoToken
    /\ token' = NoToken
    /\ UNCHANGED <<settings, cache, made, items, stats, inFlight, phase, task, flushed, place, aim>>

-----------------------------------------------------------------------------
EmitNowait(e) == Hit(e) \/ Load(e) \/ Store(e) \/ Push(e)

TaskRuns ==
    EnsureWorker \/ TakeBatch \/ UseToken \/ FetchToken \/ TokenArrives
    \/ Accepted \/ GivesUp \/ Retry

ExporterNext ==
    \/ \E e \in Exported : EmitNowait(e)
    \/ TaskRuns
    \/ StartExporter \/ Flush \/ StopExporter
    \/ Configure \/ StoreToken \/ Invalidate
    \/ ExpireTarget \/ ExpireToken

\* Emitting threads, the event loop and the operator's endpoints run on; requests
\* to the collector and the secret store end (their clients have timeouts); time
\* passes.  Nothing makes an operator change settings or the process stop.
ExporterFairness ==
    /\ \A e \in Exported : WF_exporterVars(EmitNowait(e))
    /\ WF_exporterVars(StartExporter)
    /\ WF_exporterVars(TaskRuns)
    /\ WF_exporterVars(Invalidate)
    /\ WF_exporterVars(ExpireTarget)
    /\ WF_exporterVars(ExpireToken)

ExporterSpec == ExporterInit /\ [][ExporterNext]_exporterVars /\ ExporterFairness

-----------------------------------------------------------------------------
(* Properties *)

\* "Loss is bounded and visible": until the exporter is stopped, every event
\* that reached the queue is in it, in the batch under way, or in exactly one of
\* the two counters, each once; what stop leaves uncounted is the batch it
\* cancelled and the queue.
ExportAccounted ==
    /\ ExporterTypeOK
    /\ sent = Cardinality(At({"sent"}))
    /\ dropped = Cardinality(At({"refused", "failed"}))
    /\ Elements(items) = At({"queued"})
    /\ Elements(task.batch) = At({"drained"})
    /\ Cardinality(At({"queued"})) = Len(items)
    /\ Cardinality(At({"drained"})) = Len(task.batch)
    /\ At({"lost"}) # {} => phase = "stopped"

\* "flushed means delivered or dropped, not merely dequeued": at the moment that
\* flush returns True no event is in the queue or with the worker.
FlushMeansSettled ==
    [][flushed' /\ ~flushed => At({"queued", "drained"}) = {}]_exporterVars

\* "A settings change calls invalidate() so the console does not have to tell
\* operators to wait a minute": when it has returned, neither cache holds an old
\* answer, unless a look-up or a token fetch had read the old one and was still
\* to store it.
SettingsTakeEffect ==
    ~unsettled /\ ~raced =>
        /\ cache \in {Absent, Failed, row}
        /\ token \in {NoToken, secret}

\* Delivery is attempted a bounded number of times: an event that is in the queue
\* gets sent or counted as dropped, whatever the collector and the secret store
\* answer, unless the exporter is stopped first.
ExportSettles ==
    \A e \in Exported :
        place[e] \in {"queued", "drained"} ~> place[e] \in {"sent", "failed"} \/ phase = "stopped"
=============================================================================
