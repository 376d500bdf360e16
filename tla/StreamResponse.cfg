CONSTANTS
    Closers = {g1, g2, g3}
    MaxCalls = 2
SPECIFICATION FairSpec
CHECK_DEADLOCK FALSE
INVARIANTS
    CloseAgrees
PROPERTIES
    CloseReturns
