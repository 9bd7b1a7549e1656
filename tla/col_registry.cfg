SPECIFICATION Spec
CONSTANTS
    W = 37
    Mappings <- Registered
    Highs <- BothEnds
    MaxBits = 4
    PageBits = 30
    Addresses <- Samples
INVARIANTS SelfCheck WidthsServed LinesApart
CHECK_DEADLOCK FALSE
