CONSTANTS
    Gui = Gui
    Daemon = Daemon
    g1 = g1
    d1 = d1
    Procs = {Gui, Daemon}
    Threads = {g1, d1}
    Home <- MCHome
    Objects = {o1, o2, o3}
    NoObject = NoObject
    Values = {0, 1}
    Default = 0
    OneAtATime = TRUE
    SavesApart = TRUE
    ReadMayFail = FALSE
    v1 = v1
    Tested = {s1}
    Releases = {v1, v2}
    Clicks = {k1}
    MaxTurns = 2
    CacheApart = TRUE
    CacheMayFail = FALSE
    Nobody = Nobody
    Folders = {"Tigo", "2Wings", "D"}
    Old = "Tigo"
    NewHome = "2Wings"
    Items = {"custom", "settings.json"}
    SettingsItem = "settings.json"
    FilesOf <- MCFilesOf
    Users = {Gui, Daemon}
    Mover = Gui
    MigrateAlone = TRUE
    MaxWrites = 2
    MaxCrashes = 1
SPECIFICATION SharedSpec
CHECK_DEADLOCK FALSE
INVARIANTS
    ResultsKept
    ShownUnlessLate
    StillThere
PROPERTIES
    NoClobber
    OwnChangeSaved
