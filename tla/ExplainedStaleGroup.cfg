SPECIFICATION SpecE
CONSTANTS
    Workloads <- Prefix
    Gangs <- LargeGang
    Replicas = 1
    VolcanoRuns <- EveryRun
    NameContains <- Nested
    MaxRuns = 2
    MaxPods = 2
INVARIANTS
    GroupsAreOwn
CHECK_DEADLOCK FALSE
