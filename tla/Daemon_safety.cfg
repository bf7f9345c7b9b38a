CONSTANTS
    Threads = {u1, u2, boot, tester}
    Starters = {u1, u2, boot, tester}
    Uis = {u1, u2}
    Boot = boot
    Tester = tester
    Strategies = {sA}
    Pids = {p1}
    NoThread = NoThread
    NoPid = NoPid
    NoName = NoName
    DriverRetries = 0
    DebounceMisses = 1
    KillMayFail = FALSE
    MonitorKeepsUp = FALSE
    JobSize = 1
    BootstrapMayFail = TRUE
SPECIFICATION DSpec
CHECK_DEADLOCK FALSE
SYMMETRY Symmetric
INVARIANTS
    StartsSerialised
    StopIsFinal
    TestsOwnEngine
    
