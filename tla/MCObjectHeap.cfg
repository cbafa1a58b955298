SPECIFICATION Spec
CONSTANTS
    Tasks = {t1}
    MaxSlots = 2
    ArenaMax = 3
    Shapes <- MCShapes
    MaxSpan = 2
    SLICE_ENTRIES = 1
    MaxBufs = 2
    MaxElems = 1
    MaxMods = 1
    MaxUpcalls = 1
    LifoUpcalls = TRUE
    Cloned = {"object"}
    EmptyRefusals = FALSE
VIEW Relevant
INVARIANT HeapSound
PROPERTIES ImplementsJavaHeap SweepsExactly
CHECK_DEADLOCK FALSE
