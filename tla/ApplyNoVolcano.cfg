SPECIFICATION Spec
CONSTANTS
    Topologies <- OnlyMixed
    ForeignNodes <- RealNode
    ForeignSlices <- RealSlice
    Environments <- NoVolcano
    MaxApplies = 1
PROPERTIES
    VolcanoIsOptional
CHECK_DEADLOCK FALSE
