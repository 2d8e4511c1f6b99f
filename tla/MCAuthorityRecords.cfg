SPECIFICATION RecordsSpec
CONSTANTS
    Clients = {k1, k2}
    RequestIds = {q1, q2, q3}
    Records = {campaign}
    ConfigRecord = config
    Ops = {"put", "domain-archive", "decision", "command", "config"}
    NoJob = noJob
    NoReceipt = noReceipt
    NoEvent = noEvent
    MaxVersion = 2
    MaxCalls = 3
    MaxLosses = 1
    MaxTickets = 5
    Postings <- SomePostings
    IdentityText <- NormalText
    IdentityUrl <- NormalUrl
    Adjacent <- AdjacentTitles
    MaxCandidates = 4
    Bundles <- SomeBundles
    EditedLabel <- Nurse
    MinimumScore <- ThreeQuarters
    MaxSets = 1
    MaxSnapshots = 3
SYMMETRY Symmetry
INVARIANTS
    AuthorityConsistent
    DistinctStaysApart
    MappingsResolve
PROPERTIES
    RetryNeverRefused
    KeepsPromise
CHECK_DEADLOCK FALSE
