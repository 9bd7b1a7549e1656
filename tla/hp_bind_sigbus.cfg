SPECIFICATION Spec
CONSTANTS
    Page <- Pages4
    NoPage = NoPage
    NodeOf <- TwoNodes
    PageClass <- Classified
    K <- TheirClasses
    PageBits = 30
    HoleEnd = 4
    HoleSize = 2
    Machine <- FourChannels
    NPages = 2
    Policy = "bind"
    PolicyNodes = {0}
    Faults <- NoFaults
PROPERTIES ProbeSurvives
