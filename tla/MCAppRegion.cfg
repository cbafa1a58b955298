SPECIFICATION Spec
CONSTANTS
    Pkgs = {a, b}
    NoPkg = NoPkg
    NSectors = 6
    Sizes = {2, 3}
    Kinds = {"ok", "invalid"}
    Boards <- AllBoards
    StaleMax = 4
    MaxInstalls = 3
    MaxFlashes = 1
SYMMETRY Symmetry
CHECK_DEADLOCK FALSE
INVARIANTS DirectoryMatchesFlash AppsSurvive
PROPERTIES BootFlagKept
