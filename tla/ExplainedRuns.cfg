SPECIFICATION SpecE
CONSTANTS
    Workloads <- Prefix
    Gangs <- LargeGang
    Replicas = 1
    VolcanoRuns <- OnlySecond
    NameContains <- Nested
    MaxRuns = 2
    MaxPods = 4
INVARIANTS
    LeftoversOnlyThroughGap
    SubmitNeverConflicts
    GroupComesFirst
    ReasonsAreAccountedFor
CHECK_DEADLOCK FALSE
