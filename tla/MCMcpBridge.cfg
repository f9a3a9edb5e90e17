SPECIFICATION FairSpec
CONSTANTS
    Request <- Requests
    MaxCrashes = 2
    MaxCuts = 1
    MaxTransports = 6
INVARIANTS
    NoStrayTransport
    BridgeOutlivesSessions
PROPERTIES
    ImplementsForwarding
    HandshakeFirst
    Recovers
CHECK_DEADLOCK FALSE
