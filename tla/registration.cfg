\* Two users, four attempts to connect.
SPECIFICATION Spec
CONSTANTS
    None = None
    Cimd = Cimd
    f1 = f1
    f2 = f2
    f3 = f3
    f4 = f4
    u1 = u1
    u2 = u2
    Users = {u1, u2}
    Flows = {f1, f2, f3, f4}
    UserOf <- Whose
CHECK_DEADLOCK FALSE
INVARIANT TokensOfThisClient
PROPERTY IdentityNotSwapped
