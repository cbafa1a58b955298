SPECIFICATION LiveSpec
CONSTANTS
    Rounds = 2
    MaxChildren = 2
    Faults = {"app_exits", "timeout", "report_blocks"}
INVARIANTS FlashQuiet WakePending
PROPERTIES ParkEnds
