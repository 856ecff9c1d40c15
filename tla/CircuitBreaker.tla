--------------------------- MODULE CircuitBreaker ---------------------------
(***************************************************************************)
(* The breaker of one upstream (tenant, server, transport):                *)
(* src/vyuu_gateway/upstream/circuit_breaker.py, class _CircuitBreaker.    *)
(*                                                                         *)
(* Its lock is never held across a suspension, so before_call,             *)
(* record_success and record_failure are atomic.  A call is admitted by    *)
(* before_call and ends in record_success, in record_failure or, when its  *)
(* task is cancelled, in neither: PooledOutboundMcpClient._with_client     *)
(* catches Exception, which asyncio.CancelledError is not.                 *)
(*                                                                         *)
(* The clock is kept as the time since the circuit opened, saturated at    *)
(* RecoveryTimeout: nothing tells later instants apart.                    *)
(***************************************************************************)
EXTENDS Integers, FiniteSets

CONSTANTS
    Callers,            \* tasks that call this upstream
    Cancellable,        \* the tasks that may be cancelled while admitted
    FailureThreshold,
    RecoveryTimeout,    \* in clock ticks
    SuccessThreshold    \* half_open_success_threshold

ASSUME ConfigAssumption ==
    /\ FailureThreshold \in Nat \ {0}
    /\ RecoveryTimeout \in Nat \ {0}
    /\ SuccessThreshold \in Nat \ {0}
    /\ Cancellable \subseteq Callers

VARIABLES
    circuit,    \* _state
    failures,   \* _consecutive_failures
    successes,  \* _half_open_successes
    probing,    \* _half_open_probe_in_flight
    elapsed,    \* clock() - _opened_at, saturated
    call        \* the callers' view: not in a call, or how it was admitted

breakerVars == <<circuit, failures, successes, probing, elapsed>>
vars == <<circuit, failures, successes, probing, elapsed, call>>

CallState == {"none", "normal", "probe"}

\* The counters stay within their thresholds: whoever reaches one resets it.
TypeOK ==
    /\ circuit \in {"closed", "open", "half_open"}
    /\ failures \in 0..FailureThreshold
    /\ successes \in 0..(SuccessThreshold - 1)
    /\ probing \in BOOLEAN
    /\ elapsed \in 0..RecoveryTimeout
    /\ call \in [Callers -> CallState]

BreakerInit ==
    /\ circuit = "closed"
    /\ failures = 0
    /\ successes = 0
    /\ probing = FALSE
    /\ elapsed = 0

Init ==
    /\ BreakerInit
    /\ call = [c \in Callers |-> "none"]

-----------------------------------------------------------------------------
(* _open and _close.  An operator whose name starts with Bug is a plausible  *)
(* mistake in the definition after it; no specification uses it.             *)

BugOpenKeepsProbeFlag ==
    /\ circuit' = "open"
    /\ elapsed' = 0
    /\ successes' = 0
    /\ UNCHANGED probing

Open ==
    /\ circuit' = "open"
    /\ elapsed' = 0
    /\ successes' = 0
    /\ probing' = FALSE

Close ==
    /\ circuit' = "closed"
    /\ failures' = 0
    /\ successes' = 0
    /\ probing' = FALSE
    /\ elapsed' = 0

-----------------------------------------------------------------------------
(* before_call: the three ways in, and the condition under which it raises *)

Recovered == circuit = "open" /\ elapsed = RecoveryTimeout

Rejects ==
    \/ circuit = "open" /\ ~Recovered
    \/ circuit = "half_open" /\ probing

AdmitNormal ==
    /\ circuit = "closed"
    /\ UNCHANGED breakerVars

\* The first call after the recovery timeout half-opens the circuit and is
\* its probe; a later call is a probe when the previous one has reported.
AdmitProbe ==
    /\ Recovered \/ (circuit = "half_open" /\ ~probing)
    /\ circuit' = "half_open"
    /\ successes' = IF Recovered THEN 0 ELSE successes
    /\ probing' = TRUE
    /\ UNCHANGED <<failures, elapsed>>

BugSuccessKeepsProbeFlag ==
    \/ /\ circuit = "half_open"
       /\ IF successes + 1 >= SuccessThreshold
            THEN Close
            ELSE /\ successes' = successes + 1
                 /\ UNCHANGED <<circuit, failures, probing, elapsed>>
    \/ /\ circuit = "closed"
       /\ failures' = 0
       /\ UNCHANGED <<circuit, successes, probing, elapsed>>
    \/ /\ circuit = "open"
       /\ UNCHANGED breakerVars

RecordSuccess ==
    \/ /\ circuit = "half_open"
       /\ successes + 1 >= SuccessThreshold
       /\ Close
    \/ /\ circuit = "half_open"
       /\ successes + 1 < SuccessThreshold
       /\ probing' = FALSE
       /\ successes' = successes + 1
       /\ UNCHANGED <<circuit, failures, elapsed>>
    \/ /\ circuit = "closed"
       /\ failures' = 0
       /\ UNCHANGED <<circuit, successes, probing, elapsed>>
    \/ /\ circuit = "open"
       /\ UNCHANGED breakerVars

BugLateFailureReopens ==
    \/ /\ circuit \in {"half_open", "open"}
       /\ Open
       /\ UNCHANGED failures
    \/ /\ circuit = "closed"
       /\ failures' = failures + 1
       /\ IF failures + 1 >= FailureThreshold
            THEN Open
            ELSE UNCHANGED <<circuit, successes, probing, elapsed>>

RecordFailure ==
    \/ /\ circuit = "half_open"
       /\ Open
       /\ UNCHANGED failures
    \/ /\ circuit = "closed"
       /\ failures' = failures + 1
       /\ IF failures + 1 >= FailureThreshold
            THEN Open
            ELSE UNCHANGED <<circuit, successes, probing, elapsed>>
    \/ /\ circuit = "open"
       /\ UNCHANGED breakerVars

BugClockNeverRecovers ==
    /\ circuit = "open"
    /\ elapsed + 1 < RecoveryTimeout
    /\ elapsed' = elapsed + 1
    /\ UNCHANGED <<circuit, failures, successes, probing>>

ClockTick ==
    /\ circuit = "open"
    /\ elapsed < RecoveryTimeout
    /\ elapsed' = elapsed + 1
    /\ UNCHANGED <<circuit, failures, successes, probing>>

-----------------------------------------------------------------------------
(* The callers *)

Begin(c) ==
    /\ call[c] = "none"
    /\ \/ AdmitNormal /\ call' = [call EXCEPT ![c] = "normal"]
       \/ AdmitProbe /\ call' = [call EXCEPT ![c] = "probe"]

\* before_call raises CircuitBreakerOpenError.
Reject(c) ==
    /\ call[c] = "none"
    /\ Rejects
    /\ UNCHANGED vars

Succeed(c) ==
    /\ call[c] # "none"
    /\ RecordSuccess
    /\ call' = [call EXCEPT ![c] = "none"]

Fail(c) ==
    /\ call[c] # "none"
    /\ RecordFailure
    /\ call' = [call EXCEPT ![c] = "none"]

\* A cancelled call reports nothing.
Cancel(c) ==
    /\ c \in Cancellable
    /\ call[c] # "none"
    /\ call' = [call EXCEPT ![c] = "none"]
    /\ UNCHANGED breakerVars

Tick == ClockTick /\ UNCHANGED call

Next ==
    \/ Tick
    \/ \E c \in Callers :
        Begin(c) \/ Reject(c) \/ Succeed(c) \/ Fail(c) \/ Cancel(c)

\* Time passes, an upstream call ends, and there is always somebody who wants
\* to call: a breaker only moves when it is asked.
Fairness ==
    /\ WF_vars(Tick)
    /\ WF_vars(\E c \in Callers : Begin(c))
    /\ \A c \in Callers : WF_vars(Succeed(c) \/ Fail(c))

Spec == Init /\ [][Next]_vars
FairSpec == Spec /\ Fairness

-----------------------------------------------------------------------------
(* Properties *)

\* A closed circuit has seen fewer consecutive failures than the threshold
\* (record_failure opens it on the one that reaches it), whatever mixture of
\* calls admitted before and after an outage reports in the meantime.
ClosedBelowThreshold == circuit = "closed" => failures < FailureThreshold

\* The probe flag is never left over from an earlier half-open period: outside
\* half-open it is down, and a half-open circuit that is not being probed has
\* had a success and still waits for another (record_success), so before_call
\* admits the next probe.
ProbeFlagCurrent ==
    /\ probing => circuit = "half_open"
    /\ circuit = "half_open" => probing \/ successes \in 1..(SuccessThreshold - 1)

\* The flag that makes before_call reject stands for a call that is still running
\* and will report.  Only the cancellation of a probe leaves a flag that nobody
\* takes down (the code has no handler for it): no result, late or in time, no
\* reopening and no clock does.
ProbeFlagOwned == probing => \E c \in Callers : call[c] = "probe"

ProbeCancelled ==
    \E c \in Cancellable :
        call[c] = "probe" /\ call'[c] = "none" /\ UNCHANGED breakerVars

OnlyCancelOrphansProbe ==
    [][ProbeFlagOwned => ProbeFlagOwned' \/ ProbeCancelled]_vars

\* Results that arrive late, from calls admitted before the circuit opened, do
\* not push the recovery back: an open circuit only gets closer to its probe,
\* and it leaves "open" only through a probe, never straight to "closed".
RecoveryNotDelayed ==
    [][circuit = "open" =>
        \/ circuit' = "open" /\ elapsed' >= elapsed
        \/ circuit' = "half_open" /\ elapsed = RecoveryTimeout]_vars

\* "The upstream circuit is open and calls are temporarily rejected": whenever
\* the breaker rejects, it will admit again, unless a probe was cancelled.
RejectionIsTemporary == Rejects ~> ~Rejects \/ ~ProbeFlagOwned
=============================================================================
