SPECIFICATION Spec
CONSTANTS
    NoFile = noFile
    NoDigest = noDigest
    NoJournal = noJournal
    Corrupt = corrupt
    MaxCommits = 2
    MaxRestores = 1
    MaxFailures = 2
    MaxDisasters = 0
    FaultAt = {}
    KillAt = {"backupComplete", "moveBackWal"}
INVARIANTS
    PreviousSurvives
CHECK_DEADLOCK FALSE
