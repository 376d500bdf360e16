CONSTANTS
    MaxRetry = 2
    MaxCalls = 2
    Statuses <- MCStatuses
    TransportErrors <- MCTransportErrors
    BodySwaps = {"keep", "replace", "clear"}
SPECIFICATION Spec
CHECK_DEADLOCK FALSE
INVARIANTS
    ResponseBodyOwnership
    NoResponseBodyLeaks
    DeliveredBodyIsLive
    DerivedContextReleased
    UndeliveredBodyClosed
PROPERTIES
    NeverResendsBody
    CancellationIsFinal
    ImplementsContract
