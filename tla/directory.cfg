\* Two people, a poller and a sweeper, two requests; three changes: requests, joiners
\* and leavers, outages, an operator.
SPECIFICATION FairSpec
CONSTANTS
    None = None
    ann = ann
    bob = bob
    r1 = r1
    r2 = r2
    w1 = w1
    s1 = s1
    Persons = {ann, bob}
    Requests = {r1, r2}
    Pollers = {w1}
    Sweepers = {s1}
    MaxChanges = 3
CONSTRAINT OnePolled
CHECK_DEADLOCK FALSE
PROPERTIES
    PollNeedsEvidence
    ActiveKept
    DirectoryFollowed
