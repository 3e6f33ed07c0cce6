CONSTANTS
    MaxVersion = 3
    Bundles = {b1, b2}
    ChannelContract = b1
    Capacity = 8
    KernelRoom = 2
    UpdateFloor = 2
    SetupFloor = 1
    MaxEntries = 3
    MaxPromotions = 3
    MaxReboots = 4
SPECIFICATION Spec
INVARIANTS
    TypeOK
    EveryEntryProvisioned
    StagedKernelFits
    NoDowngradeUnraced
PROPERTIES
    FirmwareSurvives
    StagedIsKept
    KeepsPromise
