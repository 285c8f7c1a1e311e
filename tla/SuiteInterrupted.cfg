SPECIFICATION SpecS
CONSTANTS
    Workloads <- Both
    Gangs <- Gang
    Replicas = 1
    VolcanoRuns <- NoRun
    MaxRuns = 2
    MaxPods = 2
    Lists <- Two
    Faulty = {"a"}
INVARIANTS
    SuccessIsWhole
CHECK_DEADLOCK FALSE
