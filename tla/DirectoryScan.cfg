\* Two threads, overlapping roots, and a file removed meanwhile.
SPECIFICATION FairSpec
CONSTANTS
    w1 = w1
    w2 = w2
    Workers = {w1, w2}
    Entries <- MCTree
    Kind <- MCKind
    Device <- MCDevice
    Selected <- Overlapping
    Excluded <- MCExcluded
    MaxVanish = 2
INVARIANTS
    NobodyLeavesEarly
PROPERTIES
    ScanPromise
    ScanReturns
