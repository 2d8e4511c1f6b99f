SPECIFICATION Spec
CONSTANTS
    NoFile = noFile
    NoDigest = noDigest
    NoJournal = noJournal
    Corrupt = corrupt
    MaxCommits = 2
    MaxRestores = 1
    MaxFailures = 1
    MaxDisasters = 0
    FaultAt = {"moveDb", "moveWal"}
    KillAt = {}
INVARIANTS
    PreviousSurvives
CHECK_DEADLOCK FALSE
