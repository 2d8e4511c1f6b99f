SPECIFICATION WritesSpec
CONSTANTS
    Calls = {c1, c2}
    EventIds = {e1, e2, e3}
    Aggregates = {profile, campaign}
    Garbled = garbled
    NoSnapshot = noSnapshot
    MaxEvents = 3
    MaxDamage = 1
    ToolCalls <- SomeCalls
    OperatorCommands <- SomeCommands
    AgentRecords = {"r"}
    Granted = {"import", "mutate"}
    NoApproval = noApproval
    NoManifest = noManifest
    MaxInFlight = 2
    MaxFrames = 3
    MaxCommands = 1
    MaxGwFaults = 2
    MaxClock = 1
    SeedStores <- SomeStores
    Unsupported <- RefusedStores
    Passphrases = {"right", "wrong", "short"}
    TooShort = {"short"}
    NoSalt = noSalt
    NoDbId = noDbId
    NoOpening = noOpening
    MaxOpenings = 4
    MaxLaterEvents = 1
    Events = {a, b}
    RequestIds = {q1, q2}
    NoDigest = noDigest
    MaxHistory = 3
    MaxFaults = 1
    MaxTampering = 2
INVARIANTS
    OpeningSound
    StoreSound
    VerifyDecides
    SnapshotOnChain
    CheckpointsDecide
PROPERTIES
    ApprovedOnce
    NeverExtendsRolledBack
    EveryFrameAnswered
CHECK_DEADLOCK FALSE
