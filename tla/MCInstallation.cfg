CONSTANTS
    Disks = {w, x, m}
    Labelled = {w, x}
    None = None
    MaxPlugs = 2
    MaxLines = 4
SPECIFICATION Spec
VIEW View
INVARIANTS
    TypeOK
    MediaRespected
    FstabSafe
