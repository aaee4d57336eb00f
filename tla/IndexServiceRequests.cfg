\* Requests that supersede one another, and a helper that takes over and leaves.
SPECIFICATION Spec
CONSTANTS
    r1 = r1
    r2 = r2
    p1 = p1
    p2 = p2
    NoFile = NoFile
    Roots = {r1, r2}
    Paths = {p1, p2}
    RootOf <- MCRootOf
    Limit <- LimitRequests
SYMMETRY Swap
CONSTRAINT FourInAll
INVARIANTS
    LatestRequestWins
    ListedOnce
    MonitorFollowsRequests
    BusyMatchesWork
    CoalescedReloadIsPending
