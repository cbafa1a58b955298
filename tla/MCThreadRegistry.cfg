SPECIFICATION Spec
CONSTANTS
    Main = main
    Children = {c1, c2}
    NoTask = NoTask
    Objs = {o1, o2}
    NoObj = NoObj
    Keys = {k1}
    NoKey = NoKey
    Slots = {0, 1}
    MaxSeq = 2
SYMMETRY Symmetry
CHECK_DEADLOCK FALSE
INVARIANTS RegistryTrue ParksTrue
