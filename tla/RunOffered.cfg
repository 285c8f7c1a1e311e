SPECIFICATION Spec
CONSTANTS
    Scenarios <- Offered
    DefaultWait = 2
    Poll = 1
    RetireWait = 2
    Lag = 1
    MaxErrors = 1
    MaxTime = 40
INVARIANTS
    TypeOK
    TimelineHappened
    VerdictsTakeTheirTime
PROPERTIES
    EveryRunEnds
    TruthIsSeen
CHECK_DEADLOCK FALSE
