CONSTANTS
    Threads = {t1, t2}
    Ports = {p1, p2}
    BadPort = BadPort
    ForeignPorts = {p1}
    JoinMayTimeOut = TRUE
    BootMayBeSlow = TRUE
    None = None
SPECIFICATION FairGSpec
INVARIANT
    Owned
PROPERTIES
    Answers
    OffLasts
