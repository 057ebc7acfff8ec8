SPECIFICATION Spec
CONSTANTS
    Procs = {p1, p2}
    Paths = {v1, v2}
    Inodes = {i1, i2, i3}
    Digests = {d1, d2}
    NoProc = NoProc
    NoPath = NoPath
    NoInode = NoInode
    NoDigest = NoDigest
    NoEntry = NoEntry
    MaxClock = 2
    MtimeLag = 0
    UserWhileIndexing = FALSE
    InPlaceWrites = FALSE
    Faults = {"link", "rename", "unlink"}
    Crashes = TRUE
SYMMETRY Symmetry
INVARIANT StagedLinkIntact
INVARIANT RunConverges
INVARIANT PruneComplete
PROPERTY VisibleContentKept
