CONSTANTS
    MaxVersion = 2
    Bundles = {b1}
    ChannelContract = b1
    Capacity = 8
    KernelRoom = 2
    UpdateFloor = 2
    SetupFloor = 1
    MaxEntries = 3
    MaxPromotions = 2
    MaxReboots = 1
SPECIFICATION Spec
INVARIANT NoSilentDowngrade
