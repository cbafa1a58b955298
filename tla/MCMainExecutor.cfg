SPECIFICATION FairSpec
CONSTANTS
    UI = ui
    Callers = {c1}
    f1 = f1
    f2 = f2
    Futures = {f1, f2}
    Plain = {p1}
    None = None
    QUEUE_CAPACITY = 2
    SLOT_CAPACITY = 1
    Generations = 2
    KindsOf <- MCKindsOf
    Period = 1
    MaxDelay = 0
CHECK_DEADLOCK FALSE
INVARIANTS QueueMirrored EntriesTrue OverIsQuiet
PROPERTIES PostedRuns StopEndsLoop
