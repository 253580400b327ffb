SPECIFICATION Spec
CONSTANTS
    Builds <- AllBuilds
    NoUuid = "bad"
    Discovery <- DiscoveryBuild
    ServerLists <- AllServers
    StubLists <- AllStubs
    Versions = {1, 2}
    ProtocolVersion = 1
CHECK_DEADLOCK FALSE
INVARIANT TypeOK
INVARIANT OffsetsAgree
INVARIANT StubReachesItsMethod
INVARIANT CliReachesNamedMethod
INVARIANT EventsReachSubscriber
