SPECIFICATION Spec
CONSTANTS
    Main = main
    Children = {c1, c2}
    Workers = {}
    NoTask = NoTask
    Keys = {1, 2}
    Disciplined = FALSE
    SpawnMayFail = FALSE
    MaxHold = 2
    MaxRuns = 2
SYMMETRY ChildSymmetry
CHECK_DEADLOCK FALSE
INVARIANTS TableTrue ScopesExclude LeavesClean
