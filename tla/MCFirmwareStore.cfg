CONSTANTS
    Files = {f1, f2}
    Dirs = {d1, d2}
    Procs = {p1, p2}
    NoDir = NoDir
    NoProc = NoProc
    Capacity = 6
    MinFree = 2
    MaxFaults = 3
SPECIFICATION Spec
SYMMETRY Symmetry
INVARIANTS
    TypeOK
    DurableBundleWhole
    OptInFindsBundle
    OnlyVerifiedExposed
    SuccessIsDurable
    ResidueOnlyFromFaults
PROPERTIES
    PublishedForGood
    ImplementsPromise
