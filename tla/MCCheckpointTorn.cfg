SPECIFICATION CheckpointSpec
CONSTANTS
    Events = {a}
    RequestIds = {q1}
    NoDigest = noDigest
    MaxHistory = 2
    MaxFaults = 1
    MaxTampering = 0
INVARIANTS
    LatestDigestRetained
CHECK_DEADLOCK FALSE
