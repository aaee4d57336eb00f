\* Typing, toggled options and index changes against the search threads.
SPECIFICATION FairSpec
CONSTANTS
    q1 = q1
    q2 = q2
    None = None
    Queries = {q1, q2}
    MaxInputs = 3
    MaxChanges = 1
INVARIANTS
    SettledIsCurrent
PROPERTIES
    NeverBackToOlder
    SettlesDown
    CloseEnds
