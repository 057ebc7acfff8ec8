SPECIFICATION LegacySpec
CONSTANTS
    p1 = p1
    p2 = p2
    r1 = r1
    r2 = r2
    s1 = s1
    s2 = s2
    x = x
    y = y
    pkg = pkg
    n = n
    label = label
    Ours = Ours
    Theirs = Theirs
    Latest = Latest
    Procs = {p1, p2}
    Roots = {r1, r2}
    Sources = {s1, s2}
    Atoms = {x, y}
    Packages = {pkg}
    Names = {n, s1, s2}
    Tags = {label}
    Values = {Ours, Theirs, Latest}
    Size = 2
    ExportDir = ExportDir
    Scenarios <- MCScenarios
    MaxFaults = 1
    MaxEdits = 1
    Hole = Hole
    Absent = Absent
    NoFile = NoFile
    NoValue = NoValue
    NoManifest = NoManifest
    Torn = Torn
    Added = Added
INVARIANT LegacyTypeOK
INVARIANT DamageNeedsCause
INVARIANT AgentBlobsWhole
INVARIANT RowsBackedByFiles
INVARIANT AgentReplies
INVARIANT RetrySucceeds
INVARIANT ImportComplete
INVARIANT VerifiedAnswers
INVARIANT RoundTrip
PROPERTY ImportKeepsValues
PROPERTY CommandsEnd
CHECK_DEADLOCK FALSE
