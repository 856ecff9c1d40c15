\* Three callers on two slots; one of them and the task of close_key may be
\* cancelled at every await; the key is closed with leases out, drains and is
\* opened again.  The condition does not pass on what a cancelled waiter was
\* notified of (Python 3.12).
SPECIFICATION FairSpec
CONSTANTS
    a = a
    b = b
    c = c
    k1 = k1
    k2 = k2
    k3 = k3
    Callers = {a, b, c}
    Closer = Closer
    Cancellable = {a, Closer}
    Clients = {k1, k2, k3}
    NoClient = NoClient
    MaxClients = 2
    MaxAge = 1
    MaxStates = 2
    CondRenotifies = FALSE
INVARIANTS
    SlotsAccounted
    LeaseFindsItsObject
    NoLostWakeup
PROPERTIES
    ImplementsLease
    RemovedGetsClosed
