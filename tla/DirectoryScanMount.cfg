\* A selected mount below another selected root.
SPECIFICATION Spec
CONSTANTS
    w1 = w1
    w2 = w2
    Workers = {w1, w2}
    Entries <- MCTree
    Kind <- MCKind
    Device <- MCDevice
    Selected <- WithMount
    Excluded <- MCExcluded
    MaxVanish = 0
INVARIANTS
    SelectedMountsAreScanned
