SPECIFICATION CheckSpec
CONSTANTS
    MemorySlices = 8
    SMSlices = 7
    Profiles <- Shape
    Nodes = {1, 2}
    GPUs = {0}
    Configs <- Mixed
    Foreign = Foreign
    MaxDevicesPerSlice = 4
    Workload = "train"
    Others = {}
    MaxPods = 2
    Domain <- FirstOnly
    NoDomain = ""
    Assertions <- AskedDomain
INVARIANTS
    NoDeviceEscapes
CHECK_DEADLOCK FALSE
