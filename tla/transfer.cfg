SPECIFICATION Spec
CONSTANTS
    Names = {"home", "sub", "f", "g", "new_folder", "."}
    Home <- MCHome
    Dirs <- MCDirs
    Files <- MCFiles
    LocalFile = "g"
    NewFolder = "new_folder"
    MaxCommands = 3
    MaxLogins = 2
INVARIANTS TypeOK PanelIsListing FollowsTheUser LandsWhereShown
PROPERTY BothEnd
CHECK_DEADLOCK FALSE
