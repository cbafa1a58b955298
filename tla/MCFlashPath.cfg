SPECIFICATION FairSpec
CONSTANTS
    Submitters = {s1, s2, s3}
    fs = fs
    pdb = pdb
    None = None
    QUEUE_CAPACITY = 2
    MaxOps = 1
CHECK_DEADLOCK FALSE
INVARIANTS FlashAlone FramesLive
PROPERTIES ServiceSpec FlashProgress
