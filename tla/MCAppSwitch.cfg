SPECIFICATION FairSpec
CONSTANTS
    CAPACITY = 2
    PER_PACKAGE = 1
    MAX_WAKE_ATTEMPTS = 2
    MANIFEST_PENDING = 1
    Free = Free
    None = None
    Launcher = launcher
    Apps = {a, b}
    Receivers = {a}
    Directories <- MCDirectories
    Keys = {k1}
    Triggers = {1}
    Offsets = {0, 1}
    MaxTime = 1
    MaxCalls = 3
CHECK_DEADLOCK FALSE
INVARIANTS SwitchTrue
PROPERTIES AlarmsKept WorkEnds
