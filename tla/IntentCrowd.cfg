SPECIFICATION IntentSpec
CONSTANTS
    MIGModels <- Cut
    Docs <- Made
    Scenarios <- Crowd
    Levels <- Asked
    Instances = 2
INVARIANTS
    PlacementHeld
CHECK_DEADLOCK FALSE
