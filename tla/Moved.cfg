CONSTANTS
    Folders = {"Tigo", "2Wings", "D"}
    Old = "Tigo"
    NewHome = "2Wings"
    Items = {"custom", "settings.json"}
    SettingsItem = "settings.json"
    FilesOf <- MCFilesOf
    Users = {g}
    Mover = g
    MigrateAlone = TRUE
    MaxWrites = 2
    MaxCrashes = 0
SPECIFICATION FolderSpec
CHECK_DEADLOCK FALSE
PROPERTY FoundAgain
