\* Two requests, two elevations, a helper that dies or saves live changes.
SPECIFICATION Spec
CONSTANTS
    LastVersion = 3
    RootsOf <- MCRootsOf
    None = None
    OldStatus <- MCOldStatus
    MaxAsks = 2
    MaxElevations = 2
    MaxExtras = 1
INVARIANTS
    RequestsAreServed
    ViewFollowsSettings
    ShownWasReported
PROPERTIES
    SessionSettles
CHECK_DEADLOCK FALSE
