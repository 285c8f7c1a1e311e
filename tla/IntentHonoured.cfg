SPECIFICATION IntentSpec
CONSTANTS
    MIGModels <- Cut
    Docs <- MadeOrOwn
    Scenarios <- HonouredOrOwn
    Levels <- Asked
    Instances = 2
INVARIANTS
    TreeMatchesLabels
    EveryNodeInEveryLevel
    PeerCountsAreTrue
    GangIsWhole
    PlacementHeld
    DevicesAreOfTheKind
    ConfinedForGood
CHECK_DEADLOCK FALSE
