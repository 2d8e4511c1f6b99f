SPECIFICATION FairSpec
CONSTANTS
    ap = ap
    g1 = g1
    g2 = g2
    u1 = u1
    u2 = u2
    u3 = u3
    ha = ha
    hb = hb
    Requests = {r1, r2}
    Payloads <- MCPayloads
    Grants = {g1, g2}
    Urls = {u1, u2, u3}
    Approvers = {ap}
    IssuerOf <- MCIssuerOf
    Hosts = {ha, hb}
    ProviderUrls = {u1, u2, u3}
    HostOf <- MCHostOf
    Below <- MCBelow
    GrantHosts <- MCGrantHosts
    GrantFrom <- MCGrantFrom
    GrantUntil <- MCGrantUntil
    Budget <- MCBudget
    Provider = provider
    AllowCrossHost = FALSE
    MaxRedirects = 1
    MaxRequests = 2
    Window = 1
    MaxTime = 1
    MaxRuns = 2
    MaxCrashes = 1
INVARIANTS
    SpendingHeld
    RunSound
PROPERTY
    RunEnds
CHECK_DEADLOCK FALSE
