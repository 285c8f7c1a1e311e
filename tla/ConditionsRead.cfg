SPECIFICATION CheckSpec
CONSTANTS
    MemorySlices = 8
    SMSlices = 7
    Profiles <- Shape
    Nodes = {1, 2}
    GPUs = {0, 1}
    Configs <- Mixed
    Foreign = Foreign
    MaxDevicesPerSlice = 8
    Workload = "train"
    Others = {"web"}
    MaxPods = 2
    Domain <- FirstOnly
    NoDomain = ""
    Assertions <- Asked
INVARIANTS
    PoolsAreComplete
    ReportDescribesCluster
    DevicesAreWhatWasHeld
    LossIsWithinBounds
CHECK_DEADLOCK FALSE
