\* Two calls, in one replica or in two; three grants, one revocation of each kind.
SPECIFICATION Spec
CONSTANTS
    None = None
    c1 = c1
    c2 = c2
    ra = ra
    rb = rb
    Calls = {c1, c2}
    Replicas = {ra, rb}
    MaxGrants = 3
    MaxRevoked = 1
CHECK_DEADLOCK FALSE
INVARIANTS
    RetryUsesAnotherToken
    RefreshTokenKept
PROPERTIES
    DisconnectedStays
    CallsEnd
