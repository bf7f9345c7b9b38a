CONSTANTS
    Threads = {t1, t2}
    Ports = {p1, p2}
    BadPort = BadPort
    ForeignPorts = {}
    JoinMayTimeOut = TRUE
    BootMayBeSlow = FALSE
    None = None
SPECIFICATION FairGSpec
PROPERTY
    OffForGood
