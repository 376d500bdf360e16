CONSTANTS
    Sends = {s1, s2}
    Buffers = {b1, b2}
    MaxSize = 3
SYMMETRY Symmetry
SPECIFICATION Spec
CHECK_DEADLOCK FALSE
INVARIANTS
    ResponseIsolated
    ReadsWithinLimit
    OutcomeExact
    ResourcesReturned
