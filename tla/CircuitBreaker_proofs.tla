------------------------ MODULE CircuitBreaker_proofs ------------------------
(* Theorems about CircuitBreaker, for any set of callers and any thresholds. *)
EXTENDS CircuitBreaker, TLAPS

\* ProbeFlagCurrent and ClosedBelowThreshold are what TypeOK needs to be
\* inductive: a counter only grows in the state that bounds it.
IInv == TypeOK /\ ClosedBelowThreshold /\ ProbeFlagCurrent

\* TypeOK without the Boolean, which the provers handle apart from arithmetic.
Counters ==
    /\ circuit \in {"closed", "open", "half_open"}
    /\ failures \in 0..FailureThreshold
    /\ successes \in 0..(SuccessThreshold - 1)
    /\ elapsed \in 0..RecoveryTimeout
    /\ call \in [Callers -> CallState]

LEMMA IInvParts ==
  IInv <=> Counters /\ probing \in BOOLEAN /\ ClosedBelowThreshold /\ ProbeFlagCurrent
  BY DEF IInv, TypeOK, Counters

LEMMA InitIInv == Init => IInv
<1> SUFFICES ASSUME Init PROVE IInv
  OBVIOUS
<1>1. probing \in BOOLEAN
  BY DEF Init, BreakerInit
<1>2. Counters /\ ClosedBelowThreshold /\ ProbeFlagCurrent
  BY ConfigAssumption
  DEF ConfigAssumption, Init, BreakerInit, Counters, ClosedBelowThreshold,
      ProbeFlagCurrent, CallState
<1>3. QED
  BY <1>1, <1>2, IInvParts

\* Every operation of the breaker keeps the invariant, whoever calls it and
\* whatever the circuit's state is when the result arrives.
LEMMA StepIInv == IInv /\ [Next]_vars => IInv'
<1> SUFFICES ASSUME IInv, [Next]_vars PROVE IInv'
  OBVIOUS
<1>0. Counters /\ probing \in BOOLEAN /\ ClosedBelowThreshold /\ ProbeFlagCurrent
  BY IInvParts
<1>1. probing' \in BOOLEAN
  BY <1>0
  DEF Next, Tick, ClockTick, Begin, AdmitNormal, AdmitProbe, Reject, Succeed, Fail,
      Cancel, RecordSuccess, RecordFailure, Open, Close, breakerVars, vars
<1>2. Counters' /\ ClosedBelowThreshold' /\ ProbeFlagCurrent'
  <2> USE ConfigAssumption, <1>0
      DEF ConfigAssumption, Counters, ClosedBelowThreshold, ProbeFlagCurrent, CallState
  <2>1. CASE Tick
    BY <2>1 DEF Tick, ClockTick
  <2>2. ASSUME NEW c \in Callers, Begin(c)
       PROVE  Counters' /\ ClosedBelowThreshold' /\ ProbeFlagCurrent'
    BY <2>2 DEF Begin, AdmitNormal, AdmitProbe, Recovered, breakerVars
  <2>3. ASSUME NEW c \in Callers, Reject(c)
       PROVE  Counters' /\ ClosedBelowThreshold' /\ ProbeFlagCurrent'
    BY <2>3 DEF Reject, vars
  <2>4. ASSUME NEW c \in Callers, Succeed(c)
       PROVE  Counters' /\ ClosedBelowThreshold' /\ ProbeFlagCurrent'
    BY <2>4 DEF Succeed, RecordSuccess, Close, breakerVars
  <2>5. ASSUME NEW c \in Callers, Fail(c)
       PROVE  Counters' /\ ClosedBelowThreshold' /\ ProbeFlagCurrent'
    BY <2>5 DEF Fail, RecordFailure, Open, breakerVars
  <2>6. ASSUME NEW c \in Callers, Cancel(c)
       PROVE  Counters' /\ ClosedBelowThreshold' /\ ProbeFlagCurrent'
    BY <2>6 DEF Cancel, breakerVars
  <2>7. CASE UNCHANGED vars
    BY <2>7 DEF vars
  <2>8. QED
    BY <2>1, <2>2, <2>3, <2>4, <2>5, <2>6, <2>7 DEF Next
<1>3. QED
  <2>1. (Counters /\ probing \in BOOLEAN /\ ClosedBelowThreshold /\ ProbeFlagCurrent)' => IInv'
    BY DEF IInv, TypeOK, Counters
  <2>2. QED
    BY <1>1, <1>2, <2>1

LEMMA InvariantHolds == Spec => []IInv
  BY InitIInv, StepIInv, PTL DEF Spec

\* The types and the bounds of the two counters.
THEOREM TypeCorrect == Spec => []TypeOK
  BY InvariantHolds, PTL DEF IInv

\* A closed circuit has seen fewer consecutive failures than the threshold,
\* with any number of late results from before an outage.
THEOREM ClosedBelow == Spec => []ClosedBelowThreshold
  BY InvariantHolds, PTL DEF IInv

\* The probe flag is up only in half-open, and a half-open circuit without it
\* admits the next probe.
THEOREM ProbeFlagIsCurrent == Spec => []ProbeFlagCurrent
  BY InvariantHolds, PTL DEF IInv

\* In an open circuit a step of the breaker brings the recovery closer, or is
\* the probe that is due.
LEMMA LateResultStep ==
  ASSUME IInv, Next, circuit = "open"
  PROVE  \/ circuit' = "open" /\ elapsed' >= elapsed
         \/ circuit' = "half_open" /\ elapsed = RecoveryTimeout
<1> USE ConfigAssumption DEF ConfigAssumption, IInv, TypeOK
<1>1. CASE Tick
  BY <1>1 DEF Tick, ClockTick
<1>2. ASSUME NEW c \in Callers, Begin(c) \/ Reject(c) PROVE
          \/ circuit' = "open" /\ elapsed' >= elapsed
          \/ circuit' = "half_open" /\ elapsed = RecoveryTimeout
  BY <1>2 DEF Begin, Reject, AdmitNormal, AdmitProbe, Recovered, vars
<1>3. ASSUME NEW c \in Callers, Succeed(c) \/ Fail(c) \/ Cancel(c) PROVE
          \/ circuit' = "open" /\ elapsed' >= elapsed
          \/ circuit' = "half_open" /\ elapsed = RecoveryTimeout
  BY <1>3
  DEF Succeed, Fail, Cancel, RecordSuccess, RecordFailure, breakerVars
<1>4. QED
  BY <1>1, <1>2, <1>3 DEF Next

\* No late result delays the recovery of an open circuit or skips its probe.
THEOREM LateResultsDoNotDelay == Spec => RecoveryNotDelayed
<1>1. IInv /\ [Next]_vars =>
        [circuit = "open" =>
            \/ circuit' = "open" /\ elapsed' >= elapsed
            \/ circuit' = "half_open" /\ elapsed = RecoveryTimeout]_vars
  BY LateResultStep
<1>2. QED
  BY <1>1, InvariantHolds, PTL DEF Spec, RecoveryNotDelayed

\* A step of the breaker takes the probe's owner away only with the flag, or by
\* cancelling the probe.
LEMMA OwnedStep ==
  ASSUME IInv, ProbeFlagOwned, [Next]_vars, ~ProbeCancelled
  PROVE  ProbeFlagOwned'
<1> USE DEF IInv, TypeOK, ProbeFlagCurrent, ProbeFlagOwned
<1>1. CASE Tick
  BY <1>1 DEF Tick, ClockTick
<1>2. ASSUME NEW c \in Callers, Begin(c) PROVE ProbeFlagOwned'
  <2>1. CASE AdmitNormal /\ call' = [call EXCEPT ![c] = "normal"]
    BY <1>2, <2>1 DEF AdmitNormal, breakerVars, Begin
  <2>2. CASE AdmitProbe /\ call' = [call EXCEPT ![c] = "probe"]
    BY <2>2 DEF AdmitProbe
  <2>3. QED
    BY <1>2, <2>1, <2>2 DEF Begin
<1>3. ASSUME NEW c \in Callers, Reject(c) PROVE ProbeFlagOwned'
  BY <1>3 DEF Reject, vars
<1>4. ASSUME NEW c \in Callers, Succeed(c) PROVE ProbeFlagOwned'
  BY <1>4 DEF Succeed, RecordSuccess, Close, breakerVars
<1>5. ASSUME NEW c \in Callers, Fail(c) PROVE ProbeFlagOwned'
  BY <1>5 DEF Fail, RecordFailure, Open, breakerVars
<1>6. ASSUME NEW c \in Callers, Cancel(c) PROVE ProbeFlagOwned'
  <2>1. call[c] # "probe"
    BY <1>6 DEF Cancel, ProbeCancelled
  <2>2. QED
    BY <1>6, <2>1 DEF Cancel, breakerVars
<1>7. CASE UNCHANGED vars
  BY <1>7 DEF vars
<1>8. QED
  BY <1>1, <1>2, <1>3, <1>4, <1>5, <1>6, <1>7 DEF Next

\* Only the cancellation of a probe leaves the flag up with nobody to take it
\* down; holds with any set of cancellable callers.
THEOREM ProbeOrphanedByCancelOnly == Spec => OnlyCancelOrphansProbe
<1>1. IInv /\ [Next]_vars =>
        [ProbeFlagOwned => ProbeFlagOwned' \/ ProbeCancelled]_vars
  BY OwnedStep
<1>2. QED
  BY <1>1, InvariantHolds, PTL DEF Spec, OnlyCancelOrphansProbe

\* When no call is cancelled, the flag that makes before_call reject always
\* belongs to a call that is still running and will take it down.
THEOREM ProbeFlagIsOwned ==
  ASSUME Cancellable = {}
  PROVE  Spec => []ProbeFlagOwned
<1>1. Init => ProbeFlagOwned
  BY DEF Init, BreakerInit, ProbeFlagOwned
<1>2. IInv /\ ProbeFlagOwned /\ [Next]_vars => ProbeFlagOwned'
  BY OwnedStep DEF ProbeCancelled
<1>3. QED
  BY <1>1, <1>2, InvariantHolds, PTL DEF Spec

-----------------------------------------------------------------------------
(* For a client that is admitted and fails in one step (PooledClient) *)

FailedAtOnce ==
    /\ \/ circuit = "closed" /\ RecordFailure
       \/ circuit # "closed" /\ Open /\ UNCHANGED failures
    /\ UNCHANGED call

LEMMA FailedAtOnceIInv == IInv /\ FailedAtOnce => IInv'
<1> SUFFICES ASSUME IInv, FailedAtOnce PROVE IInv'
  OBVIOUS
<1>0. Counters /\ probing \in BOOLEAN /\ ClosedBelowThreshold /\ ProbeFlagCurrent
  BY IInvParts
<1>1. probing' \in BOOLEAN
  BY <1>0 DEF FailedAtOnce, RecordFailure, Open, breakerVars
<1>2. Counters' /\ ClosedBelowThreshold' /\ ProbeFlagCurrent'
  <2> USE ConfigAssumption, <1>0
      DEF ConfigAssumption, Counters, ClosedBelowThreshold, ProbeFlagCurrent
  <2>1. CASE circuit = "closed" /\ RecordFailure /\ UNCHANGED call
    BY <2>1 DEF RecordFailure, Open, breakerVars
  <2>2. CASE circuit # "closed" /\ Open /\ UNCHANGED <<failures, call>>
    BY <2>2 DEF Open
  <2>3. QED
    BY <2>1, <2>2 DEF FailedAtOnce
<1>3. QED
  <2>1. (Counters /\ probing \in BOOLEAN /\ ClosedBelowThreshold /\ ProbeFlagCurrent)' => IInv'
    BY DEF IInv, TypeOK, Counters
  <2>2. QED
    BY <1>1, <1>2, <2>1

LEMMA FailedAtOnceOwned == ProbeFlagOwned /\ FailedAtOnce => ProbeFlagOwned'
  BY DEF FailedAtOnce, RecordFailure, Open, ProbeFlagOwned, breakerVars
=============================================================================
