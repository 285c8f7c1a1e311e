SPECIFICATION CheckSpec
CONSTANTS
    MemorySlices = 8
    SMSlices = 7
    Profiles <- Shape
    Nodes = {1, 2}
    GPUs = {0}
    Configs <- BothMig
    Foreign = Foreign
    MaxDevicesPerSlice = 4
    Workload = "train"
    Others = {}
    MaxPods = 1
    Domain <- Apart
    NoDomain = ""
    Assertions <- AskedDomain
INVARIANTS
    DevicesAreWhatWasHeld
CHECK_DEADLOCK FALSE
