CONSTANTS
    Threads = {u1, boot, tester}
    Starters = {u1, boot, tester}
    Uis = {u1}
    Boot = boot
    Tester = tester
    Strategies = {sA}
    Pids = {p1}
    NoThread = NoThread
    NoPid = NoPid
    NoName = NoName
    DriverRetries = 0
    DebounceMisses = 1
    KillMayFail = FALSE
    MonitorKeepsUp = FALSE
    JobSize = 1
    BootstrapMayFail = FALSE
SPECIFICATION LiveSpec
CHECK_DEADLOCK FALSE
PROPERTIES
    CommandsAnswered
    JobsEnd
