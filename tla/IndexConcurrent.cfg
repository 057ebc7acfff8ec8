SPECIFICATION Spec
CONSTANTS
    Procs = {p1, p2}
    Paths = {v1, v2}
    Inodes = {i1, i2, i3}
    Digests = {d1, d2}
    NoProc = NoProc
    NoPath = NoPath
    NoInode = NoInode
    NoDigest = NoDigest
    NoEntry = NoEntry
    MaxClock = 1
    MtimeLag = 0
    UserWhileIndexing = TRUE
    InPlaceWrites = TRUE
    Faults = {"link", "rename", "unlink", "stat"}
    Crashes = TRUE
SYMMETRY Symmetry
INVARIANT TypeOK
INVARIANT IndexMapsAgree
INVARIANT IndexOnDisk
PROPERTY PruneSafe
