SPECIFICATION IntentSpec
CONSTANTS
    MIGModels <- Cut
    Docs <- Made
    Scenarios <- FreeOrDomain
    Levels <- Asked
    Instances = 2
INVARIANTS
    LevelIsKnown
    ConfinedSomewhere
CHECK_DEADLOCK FALSE
