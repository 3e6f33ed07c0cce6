CONSTANTS
    Parkable = {4, 5}
    MinOnline = 0
    MaxFailures = 0
    Hotplug = FALSE
    RacyUnload = TRUE
SPECIFICATION Spec
INVARIANT UnloadedAllOnline
CHECK_DEADLOCK FALSE
