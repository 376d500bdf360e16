CONSTANTS
    MaxFields = 2
    NumParts = 2
    MaxChunks = 2
    MaxLimit = 16
    Bodies <- MCBodies
    Length <- MCLength
SPECIFICATION FairSpec
CHECK_DEADLOCK FALSE
INVARIANTS
    EOFIsComplete
    BufferedExact
    StopsReadingParts
PROPERTIES
    BothEnd
