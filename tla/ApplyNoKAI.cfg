SPECIFICATION Spec
CONSTANTS
    Topologies <- OnlyMixed
    ForeignNodes <- RealNode
    ForeignSlices <- RealSlice
    Environments <- NoKAI
    MaxApplies = 1
PROPERTIES
    KAIIsOptional
CHECK_DEADLOCK FALSE
