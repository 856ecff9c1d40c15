\* Four callers, one of which may be cancelled; two successes close the circuit.
SPECIFICATION FairSpec
CONSTANTS
    c1 = c1
    c2 = c2
    c3 = c3
    c4 = c4
    Callers = {c1, c2, c3, c4}
    Cancellable = {c4}
    FailureThreshold = 3
    RecoveryTimeout = 2
    SuccessThreshold = 3
INVARIANT ProbeFlagCurrent
PROPERTIES
    RecoveryNotDelayed
    OnlyCancelOrphansProbe
    RejectionIsTemporary
