SPECIFICATION Spec
CONSTANTS
    W = 8
    POLY <- Feedback
    PERIOD = 21
    LineBits = 1
    PageBits = 5
    Widths <- SmallWidths
    NCores = 3
    Requests <- SmallRequests
    Maps <- SmallMaps
    DefaultMap = "two"
    Regions <- SmallRegions
    HoleEnd = 128
    HoleSize = 32
INVARIANTS IInv StreamsDisjoint WholeAccess SameBankRow
CHECK_DEADLOCK FALSE
