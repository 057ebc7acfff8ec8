SPECIFICATION RespondSpec
CONSTANTS
    Dirs <- MCDirs
    Regulars <- MCRegulars
    Objects <- MCObjects
    Absent = Absent
    AnyTag = AnyTag
    BadDate = BadDate
    MaxU64 = 9
    MaxRawRanges = 3
    MaxCoalescedRanges = 2
    Blank = Blank
    Junk = Junk
    Requests <- MCRequests
    Length = 5
    WriteLengths <- MCWriteLengths
    MaxWrites = 1
    TicksPerSecond = 2
    ChunkSize = 2
    NoFile = NoFile
INVARIANT RespondTypeOK
INVARIANT BodyExact
INVARIANT UnsatisfiableExact
INVARIANT UndisturbedComplete
INVARIANT ResumeOneVersion
INVARIANT RevalidationTrue
INVARIANT ListingLinksLive
PROPERTY Answered
