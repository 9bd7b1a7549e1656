SPECIFICATION Spec
CONSTANTS
    Page <- Pages4
    NoPage = NoPage
    NodeOf <- OneNode
    PageClass <- Classified
    K <- TheirClasses
    PageBits = 30
    HoleEnd = 4
    HoleSize = 2
    Machine <- FourChannels
    NPages = 2
    Policy = "default"
    PolicyNodes = {}
    Faults <- ProbeFaults
INVARIANTS UnusedPagesReturned
