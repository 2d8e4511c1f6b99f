SPECIFICATION ProcessesSpec
CONSTANTS
    Daemons = {d1, d2}
    Tools = {t1, t2}
    NoFile = noFile
    Crashing = {d1, d2, t1}
    MaxCrashes = 2
    InitClients = {"i1", "i2"}
    ModesOf <- DemoAndProfile
    Files = {"f1", "f2"}
    Parsable = {"f1"}
    NoSession = noSession
    NoPlan = "none"
    MaxObFaults = 1
    MaxNow = 1
    MaxRetries = 3
    Documents <- SomeDocuments
    MaxBytes <- SizeLimit
    Characters = {"a", "_"}
    Texts <- SomeTexts
    Space = "_"
    MinLine = 3
    MaxCandidate = 4
    MaxCandidates = 3
    MaxParses = 1
INVARIANTS
    InstanceExclusive
    ServingIsReachable
    SessionSound
    PlanLossless
PROPERTIES
    DemoCompletes
    ParserReaped
CHECK_DEADLOCK FALSE
