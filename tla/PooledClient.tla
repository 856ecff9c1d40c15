---------------------------- MODULE PooledClient ----------------------------
(***************************************************************************)
(* A call through PooledOutboundMcpClient (src/vyuu_gateway/upstream/      *)
(* pool.py, _with_client): before_call, a lease of the pool around the     *)
(* upstream operation, then record_success or record_failure.  The pool is *)
(* UpstreamPool, extended here, and the breaker CircuitBreaker, an         *)
(* instance; steps that run without a suspension in between are joined.    *)
(***************************************************************************)
EXTENDS UpstreamPool

CONSTANTS FailureThreshold, RecoveryTimeout, SuccessThreshold

VARIABLES
    circuit, failures, successes, probing, elapsed, \* the breaker
    call,       \* how the breaker admitted the caller's call
    verdict     \* what a call that is closing its client will report

B == INSTANCE CircuitBreaker

\* The breaker's thresholds, as UpstreamPool names the limits of the pool.
ASSUME ClientAssumption == B!ConfigAssumption

breakerVars == <<circuit, failures, successes, probing, elapsed>>
clientCallVars == <<vars, breakerVars, call, verdict>>

ClientInit ==
    /\ Init
    /\ B!Init
    /\ verdict = [c \in Callers |-> "none"]

-----------------------------------------------------------------------------
(* The end of a call *)

CallEnds(c) ==
    /\ call' = [call EXCEPT ![c] = "none"]
    /\ verdict' = [verdict EXCEPT ![c] = "none"]

\* `except Exception` records a failure; a CancelledError passes by unrecorded.
Record(v) ==
    \/ v = "success" /\ B!RecordSuccess
    \/ v = "failure" /\ B!RecordFailure
    \/ v = "cancelled" /\ UNCHANGED breakerVars

EndsWith(c, v) ==
    /\ v = "cancelled" => c \in Cancellable
    /\ Record(v)
    /\ CallEnds(c)

-----------------------------------------------------------------------------
(* The start of a call: the breaker first, the pool only when it admits *)

Start(c) ==
    /\ pc[c] = "out"
    /\ B!Begin(c)
    /\ \E g \in Objects : Reuse(c, g) \/ Claim(c, g) \/ Wait(c, g)
    /\ UNCHANGED verdict

\* Admitted by the breaker and refused by a closing pool, in one go: before_call
\* then record_failure.
StartRefused(c) ==
    /\ pc[c] = "out"
    /\ \E g \in Objects : Refuse(c, g)
    /\ \/ circuit = "closed" /\ B!RecordFailure
       \/ ~B!Rejects /\ circuit # "closed" /\ B!Open /\ UNCHANGED failures
    /\ UNCHANGED <<call, verdict>>

\* CircuitBreakerOpenError: the pool is not asked.
Reject(c) ==
    /\ pc[c] = "out"
    /\ B!Reject(c)
    /\ UNCHANGED <<vars, verdict>>

-----------------------------------------------------------------------------
(* Inside the lease *)

Resume(c) ==
    /\ pc[c] = "woken"
    /\ \/ /\ \E g \in Objects : Reuse(c, g) \/ Claim(c, g) \/ Wait(c, g)
          /\ UNCHANGED <<breakerVars, call, verdict>>
       \/ /\ \E g \in Objects : Refuse(c, g)
          /\ EndsWith(c, "failure")

Advance(c) ==
    /\ Retire(c) \/ Build(c)
    /\ UNCHANGED <<breakerVars, call, verdict>>

FactoryEnds(c) ==
    /\ BuildFails(c)
    /\ EndsWith(c, "failure") \/ EndsWith(c, "cancelled")

OperationSucceeds(c) ==
    \/ GiveBack(c) /\ EndsWith(c, "success")
    \/ /\ Discard(c)            \* the key is closing
       /\ closing[current]
       /\ verdict' = [verdict EXCEPT ![c] = "success"]
       /\ UNCHANGED <<breakerVars, call>>

OperationFails(c) ==
    /\ Discard(c)
    /\ \E v \in {"failure", "cancelled"} :
        /\ v = "cancelled" => c \in Cancellable
        /\ verdict' = [verdict EXCEPT ![c] = v]
    /\ UNCHANGED <<breakerVars, call>>

FinishClose(c) == CloseClient(c) /\ EndsWith(c, verdict[c])

CallCancelled(c) == Cancel(c) /\ EndsWith(c, "cancelled")

\* close_key and the clocks
PoolTask ==
    /\ CloseKey \/ CloseIdle \/ CancelCloseIdle \/ Tick
    /\ UNCHANGED <<breakerVars, call, verdict>>

BreakerTick == B!ClockTick /\ UNCHANGED <<vars, call, verdict>>

-----------------------------------------------------------------------------
Proceed(c) ==
    \/ Resume(c) \/ Advance(c) \/ FactoryEnds(c)
    \/ OperationSucceeds(c) \/ OperationFails(c) \/ FinishClose(c)

ClientNext ==
    \/ \E c \in Callers :
        Start(c) \/ StartRefused(c) \/ Reject(c) \/ Proceed(c) \/ CallCancelled(c)
    \/ PoolTask
    \/ BreakerTick

ClientSpec == ClientInit /\ [][ClientNext]_clientCallVars

\* As in the two components: ready tasks run, awaited work ends, time passes.
ClientFairness ==
    /\ \A c \in Callers : WF_clientCallVars(Proceed(c))
    /\ WF_clientCallVars(CloseIdle /\ PoolTask)
    /\ WF_clientCallVars(BreakerTick)
    /\ WF_clientCallVars(\E c \in Callers : Start(c))

FairClientSpec == ClientSpec /\ ClientFairness

-----------------------------------------------------------------------------
(* Properties *)

\* A cancelled waiter took a notification along that somebody still sleeps for.
SleepsOn == \E g \in Objects :
    eaten[g] > 0 /\ Waiting(g) # {} /\ Free(g) > Cardinality(Woken(g))

\* A half-open circuit whose probe waits for a pool slot rejects everybody else;
\* the calls that hold the slots end, the waiting probe is woken, and the circuit
\* admits again.  Only what a cancellation left behind prevents it: a probe that
\* does not report, a slot that is not given back, a notification taken along.
RejectionEnds ==
    B!Rejects ~> \/ ~B!Rejects \/ ~B!ProbeFlagOwned
                 \/ ~NoSlotLost \/ SleepsOn

\* "temporarily rejected": the circuit admits again, whatever happens.
CircuitAdmitsAgain == B!Rejects ~> ~B!Rejects
=============================================================================
