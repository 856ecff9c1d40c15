\* Three calls, two at a time; every mode with every emitter.
SPECIFICATION Spec
CONSTANTS
    c1 = c1
    c2 = c2
    c3 = c3
    Calls = {c1, c2, c3}
    Modes <- AllModes
    Emitters <- AllEmitters
    Limit = 2
    SpoolSize = 2
    Sizes = {1, 2}
    QueueSize = 1
CHECK_DEADLOCK FALSE
INVARIANTS
    SlotsReturned
    EventMatchesCall
    StrictExposureBounded
