SPECIFICATION ClientsSpec
CONSTANTS
    Clients = {k1, k2}
    RequestIds = {q1, q2}
    Records = {campaign}
    ConfigRecord = config
    Ops = {"put", "config"}
    NoJob = noJob
    NoReceipt = noReceipt
    NoEvent = noEvent
    MaxVersion = 1
    MaxCalls = 2
    MaxLosses = 2
    MaxTickets = 6
    IpcCallers = {"a", "b"}
    Stoppers = {"b"}
    Socks = {s1, s2, s3}
    NoSock = noSock
    NoPeer = noPeer
    MaxConnections = 1
    MaxPendingHandshakes = 2
    MaxQueuedFrames = 1
    MaxIpcFaults = 2
INVARIANTS
    CountersExact
PROPERTIES
    NoRequestStarves
    CallersServed
    StopObeyed
CHECK_DEADLOCK FALSE
