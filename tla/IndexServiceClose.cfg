\* Trash and Delete against scans, and closing the window at any moment.
SPECIFICATION FairSpec
CONSTANTS
    r1 = r1
    r2 = r2
    p1 = p1
    p2 = p2
    NoFile = NoFile
    Roots = {r1, r2}
    Paths = {p1, p2}
    RootOf <- MCRootOf
    Limit <- LimitClose
INVARIANTS
    RemovedStaysRemoved
    ViewIsCurrent
PROPERTIES
    ShutdownEnds
    OperationsFinish
