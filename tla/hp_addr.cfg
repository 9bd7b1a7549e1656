SPECIFICATION FairSpec
CONSTANTS
    Page <- Pages4
    NoPage = NoPage
    Faults <- AllFaults
INVARIANTS IInv
PROPERTIES Ends
