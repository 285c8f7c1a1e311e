SPECIFICATION Spec
CONSTANTS
    Topologies <- PlainAndMixed
    ForeignNodes <- Collision
    ForeignSlices <- NoSlice
    Environments <- Complete
    MaxApplies = 2
INVARIANTS
    ForeignUntouched
PROPERTIES
    FailureKeepsTree
CHECK_DEADLOCK FALSE
