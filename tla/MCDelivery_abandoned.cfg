CONSTANTS
    MaxRetry = 1
    MaxCalls = 1
    Statuses <- MCStatuses
    TransportErrors <- MCTransportErrors
    BodySwaps = {"keep", "replace", "clear"}
SPECIFICATION Spec
CHECK_DEADLOCK FALSE
INVARIANTS
    OriginalBodyNotAbandoned
