SPECIFICATION LiveSpec
CONSTANTS
    Main = main
    Children = {c1}
    Workers = {w1}
    NoTask = NoTask
    Keys = {1, 2}
    Disciplined = TRUE
    SpawnMayFail = TRUE
    MaxHold = 2
    MaxRuns = 1
CHECK_DEADLOCK FALSE
PROPERTIES StopDrains
