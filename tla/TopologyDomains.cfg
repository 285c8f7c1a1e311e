SPECIFICATION Spec
CONSTANTS
    MIGModels <- Cut
    Docs <- ClashingDomains
INVARIANTS
    TreeMatchesLabels
    DomainsAreUnique
CHECK_DEADLOCK FALSE
