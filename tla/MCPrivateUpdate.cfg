CONSTANTS
    Procs = {p1, p2}
    Spaces = {w1, w2}
    Images = {release, other, seed}
    Signed = {release}
    SeedImage = seed
    Free = Free
    None = None
    Capacity = 4
    UpdateFloor = 3
    PrepareFloor = 2
    BaseSize = 1
    PrepareSize = 1
    MaxKills = 1
SPECIFICATION FairSpec
INVARIANTS
    TypeOK
    StagedIsVerified
    RoomKept
    OverlapOnlyByKill
PROPERTY
    LockIsReleased
