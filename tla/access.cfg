\* Two endpoints are served at a time, over one request and two grants, of one tick;
\* one beside an operator who raises and lowers the ceiling, with durations of two.
SPECIFICATION RSpec
CONSTANTS
    w1 = w1
    w2 = w2
    Workers = {w1, w2}
    Policies <- LongOrAuto
    ToolCeilings = {2}
    MaxDuration = 2
    MaxRequests = 1
    MaxGrants = 2
SYMMETRY AccessSymmetry
CONSTRAINT AloneOrShort
INVARIANTS
    GrantMatchesDecision
    JitIsTemporary
PROPERTY DecidedOnce
