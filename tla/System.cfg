CONSTANTS
    Threads = {t1, t2}
    Starters = {t1, t2}
    Strategies = {sA, sB}
    Pids = {p1, p2}
    NoThread = NoThread
    NoPid = NoPid
    NoName = NoName
    DriverRetries = 2
    DebounceMisses = 3
    KillMayFail = FALSE
    MonitorKeepsUp = FALSE
    Tester = daemon
    gui = gui
    daemon = daemon
    Actors = {gui, daemon}
    Versions = {9, 10}
    NameRank <- MCNameRank
    Keep = 1
    SkipLists = FALSE
    OneAtATime = TRUE
    PicksUnfinished = FALSE
    None = None
    Binaries = {"winws2.exe", "WinDivert.dll"}
    Scripts = {"zapret.lua"}
    MaxRelease = 3
    Updaters = {"u1", "u2"}
    Adapters = {"lan", "vpn"}
    Info <- MCInfo
    AdapterOrder <- MCOrder
    Retired = {"r1"}
    Providers <- MCProviders
    Custom <- MCCustom
    Ipv6 = TRUE
    Found <- MCFound
    Presets = {"max"}
    Services = {"ai"}
    HJobs = {"page"}
    HostsFound <- MCHostsFound
    DefaultHosts <- MCDefault
    MaxBlanks = 2
    MaxCatalog = 2
    MaxEdits = 1
SPECIFICATION SystemSpec
CHECK_DEADLOCK FALSE
INVARIANTS
    
    ListKept
    MixNoticed
    DoneIsNew
    
    
    ChoiceInStep
    OneEngine
    NoLostEngine
PROPERTY
    ImplementsSlot
