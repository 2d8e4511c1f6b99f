SPECIFICATION StorageSpec
CONSTANTS
    NoFile = noFile
    NoDigest = noDigest
    NoJournal = noJournal
    Corrupt = corrupt
    MaxCommits = 2
    MaxRestores = 2
    MaxFailures = 2
    MaxDisasters = 1
    FaultAt = {"stage", "staged", "backupComplete", "swap", "swapped", "reopen", "complete"}
    KillAt = {"recover", "forwardDone", "open", "close", "stage", "staged", "verify", "rejected",
              "moveDb", "moveWal", "backupComplete", "swap", "swapped", "reopen", "complete", "catch",
              "catchMoveDb", "catchDigest"}
    Procs = {p1, p2}
    MaxSecrets = 5
    MaxProcStarts = 4
    Originals = {"c1", "c2"}
    Oversized = {"c2"}
    ArtRequests <- SomeArtRequests
    ShardOf <- SomeShardOf
    NoArtJob = noArtJob
    MaxStarts = 7
    MaxFaults = 2
    Entries = {"e1", "e2"}
    Contents = {"x", "y", "bad"}
    Broken = {"bad"}
    NoLegJob = noLegJob
    MaxEdits = 3
    MaxApplies = 3
    MaxKills = 2
    MaxOthers = 1
INVARIANTS
    PreviousSurvives
    RestoreRecoverable
    SealedOpens
    RecordedReadable
    ImportSound
PROPERTIES
    BegunCompletes
CHECK_DEADLOCK FALSE
CONSTRAINT FewTroubles
