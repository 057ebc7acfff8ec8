SPECIFICATION Spec
CONSTANTS
    Procs = {p1}
    Paths = {v1, v2}
    Inodes = {i1, i2, i3}
    Digests = {d1, d2}
    NoProc = NoProc
    NoPath = NoPath
    NoInode = NoInode
    NoDigest = NoDigest
    NoEntry = NoEntry
    MaxClock = 2
    MtimeLag = 0
    UserWhileIndexing = TRUE
    InPlaceWrites = FALSE
    Faults = {}
    Crashes = FALSE
SYMMETRY Symmetry
INVARIANT NoSilentlyWrongDigest
