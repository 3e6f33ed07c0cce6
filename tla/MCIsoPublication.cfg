CONSTANTS
    Parts = {"000", "001"}
    Builds = {b1, b2}
    Prebuilt = Prebuilt
    Damaged = Damaged
    None = None
    MaxFaults = 2
SPECIFICATION FairSpec
INVARIANTS
    TypeOK
    PublishedIsoIsHeld
    LinkLeadsToIso
PROPERTIES
    NothingReplaced
    TransportIsRemoved
