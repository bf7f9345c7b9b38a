CONSTANTS
    Threads = {t1, t2}
    Starters = {t1}
    Strategies = {sA, sB}
    Pids = {p1, p2}
    NoThread = NoThread
    NoPid = NoPid
    NoName = NoName
    DriverRetries = 1
    DebounceMisses = 2
    KillMayFail = FALSE
    MonitorKeepsUp = TRUE
    d1 = d1
    i1 = i1
    private = private
    Domains = Domains
    Addresses = Addresses
    Reports = {d1, i1, private}
    Lists = {Domains, Addresses}
    ListOf <- MCListOf
    NoReport = NoReport
    ReplaceBlocks = TRUE
    IoMayFail = TRUE
    DaemonMayDie = TRUE
    Restarts = 1
SPECIFICATION FollowersSpec
INVARIANTS
    StatusNamesEngine
    Accounted
PROPERTIES
    StatusFollows
    ReportsLand
