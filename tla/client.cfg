\* Three callers on one slot, two of them cancellable, with the TTL, a key that is
\* closed and opened again, and a condition that does not pass on what a cancelled
\* waiter was notified of.
SPECIFICATION FairClientSpec
CONSTANTS
    a = a
    b = b
    c = c
    k1 = k1
    k2 = k2
    Callers = {a, b, c}
    Closer = Closer
    Cancellable = {a, b}
    Clients = {k1, k2}
    NoClient = NoClient
    MaxClients = 1
    MaxAge = 1
    MaxStates = 2
    CondRenotifies = FALSE
    FailureThreshold = 1
    RecoveryTimeout = 1
    SuccessThreshold = 1
PROPERTY RejectionEnds
