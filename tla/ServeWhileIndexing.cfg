SPECIFICATION ServeSpec
CONSTANTS
    Procs = {p1}
    Paths = {v1, v2}
    Inodes = {i1, i2}
    Digests = {d1, d2}
    NoProc = NoProc
    NoPath = NoPath
    NoInode = NoInode
    NoDigest = NoDigest
    NoEntry = NoEntry
    MaxClock = 1
    MtimeLag = 0
    UserWhileIndexing = FALSE
    InPlaceWrites = FALSE
    Faults = {"rename"}
    Crashes = TRUE
    Clients = {c1}
    NoTarget = NoTarget
    NoTag = NoTag
SYMMETRY Symmetry
INVARIANT ServeTypeOK
INVARIANT AnswersLinearizable
INVARIANT ErrorsNeedRemoval
INVARIANT TagNamesBytes
