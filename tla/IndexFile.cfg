\* Saves by the window and by the helper, loads, and one crash.
SPECIFICATION Spec
CONSTANTS
    Window = Window
    Helper = Helper
    MaxSaves = 3
    MaxCrashes = 1
\* When nobody saves any more and everything is read the system rests.
CHECK_DEADLOCK FALSE
INVARIANTS
    QuietIsCurrent
PROPERTIES
    SavePromise
