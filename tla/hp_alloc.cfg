SPECIFICATION FairSpec
CONSTANTS
    Page <- Pages5
    NoPage = NoPage
    NodeOf <- LastOnNode1
    PageClass <- Classified
    K <- TheirClasses
    PageBits = 30
    HoleEnd = 4
    HoleSize = 2
    Machine <- FourChannels
    NPages = 3
    Policy = "bind"
    PolicyNodes = {0}
    Faults <- AllFaults
INVARIANTS IInv BalancedInterleaves BestMix ChannelsEven
PROPERTIES RegionKept GrantsPages Terminates
