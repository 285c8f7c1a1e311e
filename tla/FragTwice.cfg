SPECIFICATION Spec
CONSTANTS
    MemorySlices = 8
    SMSlices = 7
    Profiles <- Shape
    Nodes = {1, 2}
    GPUs = {0}
    Configs <- Twice
    Foreign = Foreign
    MaxDevicesPerSlice = 4
INVARIANTS
    PoolsAreComplete
