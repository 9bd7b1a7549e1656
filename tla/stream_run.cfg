SPECIFICATION FairSpec
CONSTANTS
    NCores = 3
    NLines = 7
    Iters = 4
INVARIANTS IInv EndsAfterLastRead ChecksumIsFixed
PROPERTIES Completes
CHECK_DEADLOCK FALSE
