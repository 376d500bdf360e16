CONSTANTS
    MaxRetry = 2
    MaxCalls = 1
    Statuses <- MCStatuses
    TransportErrors <- MCTransportErrors
    BodySwaps = {"keep"}
SPECIFICATION FairSpec
CHECK_DEADLOCK FALSE
PROPERTIES
    ImplementsFairContract
    RequestBodiesEventuallyClosed
