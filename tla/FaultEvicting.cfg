SPECIFICATION Spec
CONSTANTS
    Nodes <- WholeNodes
    Devices <- WholeGPUs
    Replicas = 2
    Plans <- EvictingPlans
    MaxPods = 6
INVARIANTS
    TypeOK
    CorpsesOnlyFromWindow
    CasualtiesWereHit
    RecordedFaultsAreComplete
PROPERTIES
    CasualtiesGo
    RecoveryIsReachable
CHECK_DEADLOCK FALSE
