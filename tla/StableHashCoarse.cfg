SPECIFICATION Spec
CONSTANTS
    Inodes = {i1, i2}
    Absent = Absent
    Blocks = {b1, b2}
    MaxBlocks = 2
    MaxAttempts = 2
    MaxClock = 1
    Honest = FALSE
    Pending = Pending
    IoError = IoError
    Unstable = Unstable
PROPERTY AnswerIsSnapshot
