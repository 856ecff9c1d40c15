---------------------------- MODULE AuditDelivery ----------------------------
(***************************************************************************)
(* Delivery of audit events by AsyncAuditEmitter                           *)
(* (src/vyuu_gateway/audit/emitter.py) with a DiskSpool                    *)
(* (src/vyuu_gateway/audit/spool.py): emit_nowait fills a bounded queue,   *)
(* one worker task takes events out and awaits the producer, what does not *)
(* fit or fails goes to the spool file, and replay_to reads the file back. *)
(*                                                                         *)
(* Everything runs on one event loop; the awaits are queue.get, produce    *)
(* (of the worker and of a replay) and queue.join.  The spool's max_bytes  *)
(* is a number of events.  A crash takes the memory and leaves the file.   *)
(*                                                                         *)
(* The producer is Kafka's send_and_wait: one that raises (a timeout, a    *)
(* lost connection), is cancelled or dies with the process may have handed *)
(* the event to the broker all the same.                                   *)
(***************************************************************************)
EXTENDS Integers, Sequences, FiniteSets

CONSTANTS
    Events,
    Nothing,
    MaxQueue,       \* max_queue_size
    MaxSpool,       \* the spool's max_bytes
    MayStop,        \* may stop() be called?
    MayReplay,      \* may replay_to() be called?
    DiskMayFail,    \* may writing the spool file raise an OSError?
    MaxCrashes,     \* bound on crashes
    MaxRepeats      \* bound on repeats

ASSUME AuditAssumption ==
    /\ MaxQueue \in Nat \ {0}
    /\ MaxSpool \in Nat
    /\ MayStop \in BOOLEAN /\ MayReplay \in BOOLEAN /\ DiskMayFail \in BOOLEAN
    /\ MaxCrashes \in Nat /\ MaxRepeats \in Nat
    /\ IsFiniteSet(Events)
    /\ Nothing \notin Events

VARIABLES
    queue,          \* _queue
    unfinished,     \* _queue._unfinished_tasks
    worker,         \* the worker task; dead when it ended with an exception
    inHand,         \* the event it awaits the producer with
    degraded,       \* _degraded
    spool,          \* the events in the spool file
    stopper,        \* where stop() stands
    readUpTo,       \* how much of the file a running replay_to read, or 0
    next,           \* the position of the event it produces
    accepted,       \* events emit_nowait accepted
    durable,        \* ... and reported as durable
    deliveries,     \* how often each event reached the broker
    lost,           \* how an accepted event got out of reach, or "no"
    crashes,
    repeats         \* produces that failed although the broker took the event,
                    \* and cancelled replays

memory == <<queue, unfinished, worker, inHand, degraded>>
history == <<accepted, durable, crashes>>
broker == <<deliveries, repeats>>
replayVars == <<readUpTo, next>>
auditVars == <<queue, unfinished, worker, inHand, degraded, spool, stopper,
          readUpTo, next, accepted, durable, deliveries, lost, crashes, repeats>>

AuditTypeOK ==
    /\ queue \in Seq(Events) /\ Len(queue) <= MaxQueue
    /\ unfinished \in 0..(MaxQueue + 1)
    /\ worker \in {"none", "waiting", "producing", "dead"}
    /\ inHand \in Events \cup {Nothing}
    /\ degraded \in BOOLEAN
    /\ spool \in Seq(Events) /\ Len(spool) <= MaxSpool
    /\ stopper \in {"out", "joining", "joined", "stopped"}
    /\ readUpTo \in 0..Len(spool)
    /\ next \in 0..readUpTo
    /\ durable \subseteq accepted /\ accepted \subseteq Events
    /\ deliveries \in [Events -> 0..(MaxCrashes + MaxRepeats + 2)]
    /\ lost \in [Events -> {"no", "spool_full", "disk", "overwritten", "truncated",
                          "cancelled", "crashed"}]
    /\ crashes \in 0..MaxCrashes
    /\ repeats \in 0..MaxRepeats

AuditInit ==
    /\ queue = << >>
    /\ unfinished = 0
    /\ worker = "none"
    /\ inHand = Nothing
    /\ degraded = FALSE
    /\ spool = << >>
    /\ stopper = "out"
    /\ readUpTo = 0
    /\ next = 0
    /\ accepted = {}
    /\ durable = {}
    /\ deliveries = [e \in Events |-> 0]
    /\ lost = [e \in Events |-> "no"]
    /\ crashes = 0
    /\ repeats = 0

InSeq(s) == {s[i] : i \in 1..Len(s)}

\* The broker takes the events in D (counted up to one more than DeliveredOnce
\* allows); those in E are out of reach, unless the broker has them.
Reaches(D) ==
    deliveries' = [e \in Events |->
        IF e \in D /\ deliveries[e] < MaxCrashes + MaxRepeats + 2
          THEN deliveries[e] + 1 ELSE deliveries[e]]
Lose(E, why) ==
    lost' = [e \in Events |-> IF e \in E /\ deliveries'[e] = 0 THEN why ELSE lost[e]]

\* A produce of e raises: the broker has not taken the event, or it has and only
\* its answer was lost.
Raises(e) ==
    \/ UNCHANGED broker
    \/ /\ repeats < MaxRepeats
       /\ Reaches({e})
       /\ repeats' = repeats + 1

-----------------------------------------------------------------------------
(* emit_nowait: an event is emitted until it is accepted.  An operator whose    *)
(* name starts with Bug is a plausible mistake in the definition after it; no   *)
(* specification uses it.                                                       *)

New(e) == e \notin accepted

BugQueuedIsDurable(e) ==
    /\ New(e)
    /\ Len(queue) < MaxQueue
    /\ queue' = Append(queue, e)
    /\ unfinished' = unfinished + 1
    /\ accepted' = accepted \cup {e}
    /\ durable' = durable \cup {e}
    /\ UNCHANGED <<worker, inHand, degraded, spool, stopper, replayVars,
                   broker, lost, crashes>>

EmitQueued(e) ==
    /\ New(e)
    /\ Len(queue) < MaxQueue
    /\ queue' = Append(queue, e)
    /\ unfinished' = unfinished + 1
    /\ accepted' = accepted \cup {e}
    /\ UNCHANGED <<worker, inHand, degraded, spool, stopper, replayVars, durable,
                   broker, lost, crashes>>

EmitSpooled(e) ==
    /\ New(e)
    /\ Len(queue) = MaxQueue
    /\ Len(spool) < MaxSpool
    /\ spool' = Append(spool, e)
    /\ degraded' = TRUE
    /\ accepted' = accepted \cup {e}
    /\ durable' = durable \cup {e}
    /\ UNCHANGED <<queue, unfinished, worker, inHand, stopper, replayVars,
                   broker, lost, crashes>>

\* Refused; the caller may emit it again.
EmitRefused(e) ==
    /\ New(e)
    /\ Len(queue) = MaxQueue
    /\ Len(spool) = MaxSpool
    /\ degraded' = TRUE
    /\ UNCHANGED <<queue, unfinished, worker, inHand, spool, stopper, replayVars,
                   history, broker, lost>>

-----------------------------------------------------------------------------
(* start and the worker, _run *)

Start ==
    /\ worker \in {"none", "dead"}
    /\ stopper = "out"
    /\ worker' = "waiting"
    /\ UNCHANGED <<queue, unfinished, inHand, degraded, spool, stopper,
                   replayVars, history, broker, lost>>

Take ==
    /\ worker = "waiting"
    /\ queue # << >>
    /\ inHand' = Head(queue)
    /\ queue' = Tail(queue)
    /\ worker' = "producing"
    /\ UNCHANGED <<unfinished, degraded, spool, stopper, replayVars, history,
                   broker, lost>>

\* task_done; at zero it sets the event that join waits for.
TaskDone ==
    /\ inHand' = Nothing
    /\ unfinished' = unfinished - 1
    /\ stopper' = IF stopper = "joining" /\ unfinished = 1 THEN "joined" ELSE stopper
    /\ UNCHANGED queue

Done == TaskDone /\ worker' = "waiting"

Produced ==
    /\ worker = "producing"
    /\ Reaches({inHand})
    /\ degraded' = FALSE
    /\ Done
    /\ UNCHANGED <<spool, replayVars, history, lost, repeats>>

BugFailureNotSpooled ==
    /\ worker = "producing"
    /\ degraded' = TRUE
    /\ Done
    /\ UNCHANGED <<spool, replayVars, history, broker, lost>>

\* The producer raised: the event goes to the spool, or nowhere when that is full
\* ("audit_spool_full" is logged).
ProduceFails ==
    /\ worker = "producing"
    /\ Raises(inHand)
    /\ IF Len(spool) < MaxSpool
         THEN spool' = Append(spool, inHand) /\ UNCHANGED lost
         ELSE Lose({inHand}, "spool_full") /\ UNCHANGED spool
    /\ degraded' = TRUE
    /\ Done
    /\ UNCHANGED <<replayVars, history>>

\* An OSError of the append is no AuditSpoolFullError: the finally calls task_done,
\* and the exception ends the task, which nobody awaits.
SpoolBreaks ==
    /\ DiskMayFail
    /\ worker = "producing"
    /\ Raises(inHand)
    /\ Lose({inHand}, "disk")
    /\ degraded' = TRUE
    /\ TaskDone
    /\ worker' = "dead"
    /\ UNCHANGED <<spool, replayVars, history>>

-----------------------------------------------------------------------------
(* stop: wait for the queue to be worked off, then cancel the worker; awaiting a *)
(* dead one raises its exception again, after which stop() is over as well        *)

Stop ==
    /\ MayStop
    /\ stopper = "out"
    /\ worker # "none"
    /\ IF unfinished = 0
         THEN stopper' = "stopped" /\ worker' = IF worker = "dead" THEN "dead" ELSE "none"
         ELSE stopper' = "joining" /\ UNCHANGED worker
    /\ UNCHANGED <<queue, unfinished, inHand, degraded, spool, replayVars, history,
                   broker, lost>>

\* What a task awaits the producer with.
InHand == {inHand} \cap Events
Replayed == IF readUpTo = 0 THEN {} ELSE {spool[next]}

\* join woke up: the queue was empty at some moment, and may not be by now.  A
\* worker that awaits the producer then drops its event, which is no Exception's
\* to spool (its finally still calls task_done).
CancelWorker ==
    /\ stopper = "joined"
    /\ \E D \in SUBSET InHand : Reaches(D)
    /\ stopper' = "stopped"
    /\ worker' = IF worker = "dead" THEN "dead" ELSE "none"
    /\ inHand' = Nothing
    /\ unfinished' = IF worker = "producing" THEN unfinished - 1 ELSE unfinished
    /\ Lose(InHand, "cancelled")
    /\ UNCHANGED <<queue, degraded, spool, replayVars, history, repeats>>

-----------------------------------------------------------------------------
(* replay_to: reads the whole file, produces the events one by one, and then *)
(* writes back the events it read and did not get through.  The file only     *)
(* grows in the meantime, so what was read is its first readUpTo events.      *)

Replay ==
    /\ MayReplay
    /\ readUpTo = 0
    /\ spool # << >>
    /\ readUpTo' = Len(spool)
    /\ next' = 1
    /\ UNCHANGED <<memory, spool, stopper, history, broker, lost>>

\* _replace: what the file gained while the replay ran is overwritten.
Replace(rest) ==
    /\ spool' = rest
    /\ Lose(InSeq(SubSeq(spool, readUpTo + 1, Len(spool))), "overwritten")
    /\ readUpTo' = 0
    /\ next' = 0

ReplayOne ==
    /\ readUpTo # 0
    /\ Reaches({spool[next]})
    /\ IF next < readUpTo
         THEN next' = next + 1 /\ UNCHANGED <<readUpTo, spool, lost>>
         ELSE Replace(<< >>)
    /\ UNCHANGED <<memory, stopper, history, repeats>>

BugReplayFailKeepsAll ==
    /\ readUpTo # 0
    /\ readUpTo' = 0
    /\ next' = 0
    /\ UNCHANGED <<memory, spool, stopper, history, broker, lost>>

ReplayFails ==
    /\ readUpTo # 0
    /\ Raises(spool[next])
    /\ Replace(SubSeq(spool, next, readUpTo))
    /\ UNCHANGED <<memory, stopper, history>>

\* A CancelledError passes `except Exception`: the file stays as it is, with the
\* events that the replay got through.
CancelReplay ==
    /\ readUpTo # 0
    /\ repeats < MaxRepeats
    /\ repeats' = repeats + 1
    /\ \E D \in SUBSET Replayed : Reaches(D)
    /\ readUpTo' = 0
    /\ next' = 0
    /\ UNCHANGED <<memory, spool, stopper, history, lost>>

-----------------------------------------------------------------------------
\* The process ends and is started again.
Restart ==
    /\ crashes < MaxCrashes
    /\ crashes' = crashes + 1
    /\ queue' = << >>
    /\ unfinished' = 0
    /\ worker' = "none"
    /\ inHand' = Nothing
    /\ degraded' = FALSE
    /\ stopper' = "out"
    /\ readUpTo' = 0
    /\ next' = 0
    /\ \E D \in SUBSET (InHand \cup Replayed) : Reaches(D)
    /\ UNCHANGED <<accepted, durable, repeats>>

InMemory == InSeq(queue) \cup InHand

Crash ==
    /\ Restart
    /\ Lose(InMemory, "crashed")
    /\ UNCHANGED spool

\* The process ends while _replace writes the rest back after a failed produce:
\* write_text has emptied the file and has not written yet.
CrashInReplace ==
    /\ readUpTo # 0
    /\ Restart
    /\ spool' = << >>
    /\ LET gone == InSeq(SubSeq(spool, next, Len(spool)))
       IN  lost' = [e \in Events |-> IF deliveries'[e] > 0 THEN lost[e]
                                    ELSE IF e \in InMemory THEN "crashed"
                                    ELSE IF e \in gone THEN "truncated" ELSE lost[e]]

EmitEvent(e) == EmitQueued(e) \/ EmitSpooled(e) \/ EmitRefused(e)
Work == Take \/ Produced \/ ProduceFails \/ SpoolBreaks

AuditNext ==
    \/ \E e \in Events : EmitEvent(e)
    \/ Start \/ Work
    \/ Stop \/ CancelWorker
    \/ Replay \/ ReplayOne \/ ReplayFails \/ CancelReplay
    \/ Crash \/ CrashInReplace

AuditSpec == AuditInit /\ [][AuditNext]_auditVars

\* The emitter is started, its tasks run and the producer's awaits end.  Nobody
\* has to call replay_to, or start() for a dead worker: nothing in src/ does.
AuditFairness == WF_auditVars(worker = "none" /\ Start) /\ WF_auditVars(Work) /\ WF_auditVars(CancelWorker)

FairAuditSpec == AuditSpec /\ AuditFairness

-----------------------------------------------------------------------------
(* Properties *)

InReach == InMemory \cup InSeq(spool)
           \cup {e \in Events : deliveries[e] > 0}

\* An accepted event is in the queue, in the worker's hand, in the spool or with
\* the broker, unless it got lost in one of the six ways the code has for it;
\* no interleaving of emit, worker, replay, stop and crash drops one otherwise.  And
\* what queue.join counts is what has still to be done, through every failure and
\* cancellation: stop neither returns early nor waits for nothing.
Accounted ==
    /\ AuditTypeOK
    /\ \A e \in accepted : lost[e] = "no" <=> e \in InReach
    /\ unfinished = Len(queue) + (IF worker = "producing" THEN 1 ELSE 0)

\* The broker gets an event once more only for a produce that failed although the
\* broker had taken it, a cancelled replay or a crash, and once for each of them: a
\* replay that fails halfway writes back exactly the events that did not get
\* through, and worker and replay never hold the same event.
DeliveredOnce == \A e \in Events : deliveries[e] <= 1 + crashes + repeats

\* An event that was reported as durable survives a full spool, a cancelled worker
\* and a crash; only a replay can lose it, by what it writes back or by dying there.
DurableKept == \A e \in durable : lost[e] \in {"no", "overwritten", "truncated"}

\* An accepted event gets to the broker or to the spool, or its loss is one of the
\* six; only after stop(), or behind a worker that the disk has ended, it may stay in
\* the queue.
EventSettles ==
    \A e \in Events : e \in accepted ~>
        \/ deliveries[e] > 0 \/ e \in InSeq(spool) \/ lost[e] # "no"
        \/ stopper = "stopped" \/ worker = "dead"

\* "events buffer locally (disk-backed queue) and replay on recovery": no replay
\* loses an event that is in the spool.
ReplayKeepsEvents == \A e \in Events : lost[e] # "overwritten"

\* "No silent drops": an accepted event does not wait for ever behind a dead worker,
\* and neither does stop().
NothingWaitsForEver ==
    \A e \in Events :
        e \in InSeq(queue) ~> e \notin InSeq(queue) \/ stopper = "stopped"
=============================================================================
