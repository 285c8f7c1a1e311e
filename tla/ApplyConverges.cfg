SPECIFICATION Spec
CONSTANTS
    Topologies <- PlainAndMixed
    ForeignNodes <- RealNode
    ForeignSlices <- RealSlice
    Environments <- GateMayBeOff
    MaxApplies = 3
INVARIANTS
    TypeOK
    NoPartitionsWithoutCounters
    ForeignUntouched
PROPERTIES
    Converges
    DeletesOnlyWhenInPlace
    MakesNoOrphans
CHECK_DEADLOCK FALSE
