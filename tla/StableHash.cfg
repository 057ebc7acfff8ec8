SPECIFICATION FairSpec
CONSTANTS
    Inodes = {i1, i2}
    Absent = Absent
    Blocks = {b1, b2}
    MaxBlocks = 2
    MaxAttempts = 3
    MaxClock = 3
    Honest = TRUE
    Pending = Pending
    IoError = IoError
    Unstable = Unstable
INVARIANT TypeOK
INVARIANT UnstableOnlyWhenWritten
PROPERTY HashesOneInstant
PROPERTY LeavesOpenFile
