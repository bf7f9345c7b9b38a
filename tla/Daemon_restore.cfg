CONSTANTS
    Threads = {u1, boot, tester}
    Starters = {u1, boot, tester}
    Uis = {u1}
    Boot = boot
    Tester = tester
    Strategies = {sA}
    Pids = {p1, p2}
    NoThread = NoThread
    NoPid = NoPid
    NoName = NoName
    DriverRetries = 1
    DebounceMisses = 2
    KillMayFail = FALSE
    MonitorKeepsUp = FALSE
    JobSize = 1
    BootstrapMayFail = FALSE
SPECIFICATION DSpec
CHECK_DEADLOCK FALSE
PROPERTY
    RestoredEngineKept
