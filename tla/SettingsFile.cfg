\* First run, edits, saves that are refused, cut off or killed, and restarts.
SPECIFICATION Spec
CONSTANTS
    PseudoFsTypes = {"proc", "tmpfs"}
    Folders <- MCFolders
    Intervals = {0, 30}
    RealPath <- MCRealPath
    HomeDir <- MCHomeDir
    Defaults <- MCDefaults
    MountTables <- MCMountTables
    FirstFiles <- MCFirstFiles
    CharOrder <- MCCharOrder
    MaxEdits = 2
    MaxFaults = 1
INVARIANTS
    SavedIsLoaded
    OpeningChangesNothing
    RootsCoverWhatIsChosen
    HomeIsPreselected
