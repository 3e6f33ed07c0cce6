CONSTANTS
    Parts = {"000", "001"}
    Builds = {b1, b2}
    Prebuilt = Prebuilt
    Damaged = Damaged
    None = None
    MaxFaults = 0
SPECIFICATION Spec
PROPERTY MarkerIsKept
