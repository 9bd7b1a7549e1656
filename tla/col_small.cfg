SPECIFICATION Spec
CONSTANTS
    W = 5
    Mappings <- SmallMappings
    Highs <- BothEnds
    MaxBits = 2
    PageBits = 3
    Addresses <- SmallAddresses
INVARIANTS IInv StepsStayInRow StopsOnlyWhenUnreachable Smallest
CHECK_DEADLOCK FALSE
