CONSTANTS
    Files = {f1}
    Dirs = {d1, d2}
    Procs = {p1, p2}
    NoDir = NoDir
    NoProc = NoProc
    Capacity = 2
    MinFree = 1
    MaxFaults = 3
SPECIFICATION FairSpec
INVARIANT HeadroomKept
PROPERTY BootCompletes
