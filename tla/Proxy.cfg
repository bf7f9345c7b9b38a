CONSTANTS
    Clients = {"c1", "c2"}
    Domains = {"d1", "d2"}
    Protos = {"abridged", "intermediate"}
    Lengths = {0, 2}
    MaxPackets = 2
    MaxRecord = 2
    MaxMessages = 3
    Sockets = {"w1", "w2", "w3"}
    Refills = {"f1", "f2"}
    PoolSize = 2
    Requests = {"r1", "r2"}
    MaxStreams = 1
    Window = 3
    Batch = 2
    BodyUnits = 2
    MaxGen = 2
SPECIFICATION MCProxySpec
CHECK_DEADLOCK FALSE
INVARIANTS
    AttemptsOwned
    OneUpstream
    NothingLeft
    StreamsWhole
    SocketsOwned
    SleepsRightly
    WindowReturned
