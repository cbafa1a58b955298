SPECIFICATION Spec
CONSTANTS
    Tasks = {t1}
    Keys = {k1}
    None = None
    A = A
    B = B
    C = C
    Classes = {A, B, C}
    Super <- MCSuper
    WithClinit = {A, B}
    TryFirst = {}
    Catches = {{}, {"exception"}, {"error"}}
    Faults = {"fault", "alloc"}
    MAX_FRAME_DEPTH = 4
    MAX_UPCALL_DEPTH = 1
CHECK_DEADLOCK FALSE
INVARIANTS StackTrue InitOrder UnwindsAsSpecified
PROPERTIES FloorsKept
