\* A queue and a spool that fill up; stop, replay and one crash at any moment; the
\* producer may fail for ever, with the event at the broker or without, and so may
\* the disk.
SPECIFICATION FairAuditSpec
CONSTANTS
    e1 = e1
    e2 = e2
    e3 = e3
    e4 = e4
    Events = {e1, e2, e3, e4}
    Nothing = Nothing
    MaxQueue = 1
    MaxSpool = 2
    MayStop = TRUE
    MayReplay = TRUE
    DiskMayFail = TRUE
    MaxCrashes = 1
    MaxRepeats = 2
CONSTRAINT InOrder
CHECK_DEADLOCK FALSE
INVARIANTS
    Accounted
    DeliveredOnce
    DurableKept
PROPERTY EventSettles
