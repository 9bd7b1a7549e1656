SPECIFICATION FairSpec
CONSTANTS
    AddressBits = 5
    PageLines = 4
    Requests <- SmallRequests
    Maps <- SmallMaps
    SelfChecks <- Vectors
    DefaultMap = "small"
    Regions <- SmallRegions
    HoleEnd = 8
    HoleSize = 2
    PairBudget = 2
    MaxTries = 3
INVARIANTS IInv PairsRelated PairsDistinct GivesUpAtBudget
PROPERTIES SearchEnds
CHECK_DEADLOCK FALSE
