CONSTANTS
    Parkable = {4, 5}
    MinOnline = 0
    MaxFailures = 0
    Hotplug = TRUE
    RacyUnload = FALSE
SPECIFICATION FairSpec
PROPERTY BusyUnparks
