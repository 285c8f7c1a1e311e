SPECIFICATION SpecE
CONSTANTS
    Workloads <- Prefix
    Gangs <- LargeGang
    Replicas = 1
    VolcanoRuns <- NoRun
    NameContains <- Nested
    MaxRuns = 2
    MaxPods = 3
INVARIANTS
    ReasonIsOfWorkload
    Hermetic
CHECK_DEADLOCK FALSE
