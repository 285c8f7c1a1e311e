SPECIFICATION Spec
CONSTANTS
    Scenarios <- Negative
    DefaultWait = 3
    Poll = 2
    RetireWait = 3
    Lag = 1
    MaxErrors = 0
    MaxTime = 40
INVARIANTS
    NegativesAreGivenTime
CHECK_DEADLOCK FALSE
