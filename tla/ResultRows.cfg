\* The rows, refreshed and sorted at any time, under four inputs of the user.
SPECIFICATION Spec
CONSTANTS
    a = a
    b = b
    u = u
    name = name
    size = size
    None = None
    Garbled = Garbled
    Paths = {a, b, u}
    Undecodable = {u}
    Columns = {name, size}
    kSize = size
    Lists <- ResultLists
    MaxInputs = 5
INVARIANTS
    SelectionFollowsFiles
    GreyWhileOutstanding
    VerbsMatchBatches
    NoCallAfterDestroy
