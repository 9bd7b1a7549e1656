SPECIFICATION Spec
CONSTANTS
    IsaFlags <- Avx2
    Widths = {0, 512}
    Edited <- SmallEdited
    MaxSaves = 3
    MaxMakes = 2
INVARIANTS IInv FollowsSources Settled
CHECK_DEADLOCK FALSE
