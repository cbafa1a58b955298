SPECIFICATION LiveSpec
CONSTANTS
    Tasks = {t1, t2}
    NoTask = NoTask
    LockCreated = TRUE
    MaxNesting = 3
INVARIANTS LockSafe GuardsNest
PROPERTIES ImplementsExclusion TakerGetsLock
