CONSTANTS
    Clients = {c1, c2}
    Exports = {"e1"}
    Requests = {"r1"}
    Caller = "caller"
    Default = "default"
    Handshakes = {"h1"}
    DialParts = {"timeout"}
    Starts <- MCStarts
    MaxObjects = 8
    MaxWrites = 2
SPECIFICATION Spec
SYMMETRY Interchangeable
CHECK_DEADLOCK FALSE
INVARIANTS
    NothingShared
    HandshakeOwn
    HTTP2Offered
PROPERTIES
    ImplementsValues
