SPECIFICATION FairSpec
CONSTANTS
    Procs = {p1}
    Paths = {v1, v2}
    Inodes = {i1, i2}
    Digests = {d1, d2}
    NoProc = NoProc
    NoPath = NoPath
    NoInode = NoInode
    NoDigest = NoDigest
    NoEntry = NoEntry
    MaxClock = 1
    MtimeLag = 0
    UserWhileIndexing = TRUE
    InPlaceWrites = TRUE
    Faults = {}
    Crashes = FALSE
PROPERTY Terminates
