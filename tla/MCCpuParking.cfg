CONSTANTS
    Parkable = {4, 5, 6}
    MinOnline = 1
    MaxFailures = 1
    Hotplug = TRUE
    RacyUnload = FALSE
SPECIFICATION FairSpec
INVARIANTS
    TypeOK
    PollingNeverStops
    TakenIsRemembered
    TakenWithinBudget
    UnloadIsClean
PROPERTY
    DisablingRestores
