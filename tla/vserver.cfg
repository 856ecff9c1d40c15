\* Three tools of two servers, two edits.
SPECIFICATION VserverSpec
CONSTANTS
    Absent = Absent
    e1 = e1
    e2 = e2
    Edits = {e1, e2}
    Order <- ToolOrder
    Prefix <- ServerPrefix
    Allowlists <- Wanted
    RenameMaps <- Maps
CHECK_DEADLOCK FALSE
INVARIANTS
    NamesUnique
    AllowlistIsOneRequest
    GateKeepsItsTool
