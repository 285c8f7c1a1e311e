SPECIFICATION Spec
CONSTANTS
    MemorySlices = 8
    SMSlices = 7
    Profiles <- DatacenterShape
    GPUs = {0}
    NoPartition = NoPartition
INVARIANTS
    TypeOK
    NoOverlap
    CountersMatchReport
    DefragmentationRecoversLost
PROPERTIES
    OwnershipSpec
