\* Live changes, signals and failing writes; the clock may be set back once.
SPECIFICATION FairSpec
CONSTANTS
    m1 = m1
    m2 = m2
    Monitors = {m1, m2}
    MinInterval = 1
    Wrap = 100
    Forever = 8
    MaxDuration = 1
    MaxChanges = 2
    MaxSignals = 1
    MaxBack = 1
INVARIANTS
    ChangesStayPending
    IdleGap
PROPERTIES
    ChangesReachFile
    StopEnds
