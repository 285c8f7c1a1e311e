SPECIFICATION Spec
CONSTANTS
    Topologies <- OnlyMixed
    ForeignNodes <- RealNode
    ForeignSlices <- PluginSlice
    Environments <- Complete
    MaxApplies = 1
INVARIANTS
    OneDescriptionPerNode
CHECK_DEADLOCK FALSE
