\* Up to five changes of a small tree, handled in every order.
SPECIFICATION Spec
CONSTANTS
    None = None
    FilePaths <- Files
    DirPaths <- Dirs
    Start <- StartPopulated
    MaxChanges = 5
INVARIANTS
    NothingMissing
    DirectoriesWatched
    IndexIsExact
