SPECIFICATION Spec
CONSTANTS
    Scenarios <- BehindOrRetiring
    DefaultWait = 3
    Poll = 2
    RetireWait = 3
    Lag = 1
    MaxErrors = 0
    MaxTime = 40
INVARIANTS
    RecoveredWithinBudget
PROPERTIES
    RetirementReleases
CHECK_DEADLOCK FALSE
