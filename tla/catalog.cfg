\* Two syncs, a seed and two probes of one server with two tools.
SPECIFICATION Spec
CONSTANTS
    None = None
    s1 = s1
    s2 = s2
    seed = seed
    p1 = p1
    p2 = p2
    get = get
    find = find
    Tools = {get, find}
    Syncs = {s1, s2}
    Seeds = {seed}
    Probes = {p1, p2}
SYMMETRY CatalogSymmetry
CHECK_DEADLOCK FALSE
INVARIANTS
    OneSnapshot
    DeletedIsGone
    LastVerdictStands
