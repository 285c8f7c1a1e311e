SPECIFICATION Spec
CONSTANTS
    Nodes <- PairNodes
    Devices <- PairGPUs
    Replicas = 2
    Plans <- KillOrCordon
    MaxPods = 4
INVARIANTS
    NoCorpseCounted
PROPERTIES
    CasualtiesGo
CHECK_DEADLOCK FALSE
