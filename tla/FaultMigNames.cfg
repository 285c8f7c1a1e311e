SPECIFICATION Spec
CONSTANTS
    Nodes <- MigNodes
    Devices <- MigParts
    Replicas = 2
    Plans <- MigLevel
    MaxPods = 4
INVARIANTS
    CasualtiesWereHit
CHECK_DEADLOCK FALSE
