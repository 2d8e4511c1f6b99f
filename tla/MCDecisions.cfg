SPECIFICATION DecisionsSpec
CONSTANTS
    AttemptIds = {a1, a2}
    k1 = k1
    s1 = s1
    human = human
    robot = robot
    pairA = pairA
    Scopes = {s1}
    KeyIds = {k1}
    Approvers <- OneApprover
    Collectors <- OneCollector
    Observations <- SomeObservations
    Skew = 1
    Window = 2
    MaxTime = 2
    MaxVersion = 4
    None = none
    Packets <- SomePackets
    ApproverKeys = {"k1", "k2"}
    NoApprovalRef = noApprovalRef
    MaxPerDay = 1
    LegacyConfigs <- SomeLegacyConfigs
    Workers <- DefaultWorkers
    Humans = {"h"}
    MaxAutoSteps = 5
    MaxDay = 1
    Agents <- SomeAgents
    Drafts <- SomeDrafts
    Pasted <- OnePasted
    MaxWindow = 1
    MaxCaseDay = 1
    MaxChanges = 1
    MaxSigned = 1
    MaxEdits = 1
    Candidates = {1, 2, 3, 4}
    Offers <- SomeOffers
    MinimumScore = 5
    DailyLimit = 2
    Quota <- OneQuota
    Contacts = {"k1"}
    Requests = {1, 2, 3}
    Wishes <- SomeWishes
    Channels <- EmailOnly
    TouchWindow = 3
    MaxTouches = 2
    Spacing = 1
    MaxPlans = 2
    Dimensions = {"D01", "D17", "D03"}
    Caps <- TwoCaps
    CapBelow = 40
    Scores = {39, 40, 100}
    HighVerified = 3
    MediumVerified = 2
    MediumMissing = 1
    MaxRatings = 3
    ClosedConfirmationCount = 2
    MaxLiveAge = 1
    MaxNegativeAge = 1
    MaxFutureSkew = 0
    MaxTruthAge = 1
    MaxObservations = 3
    MaxEvidenceDay = 2
    MaxRecords = 2
    Fetched <- SomeFetched
    MandatoryInputs <- SomeMandatory
    OptionalInputs <- SomeOptional
    DecidedSets <- SomeDecided
    Originals <- SomeOriginals
    NoEntry = noEntry
    NoCredJob = noCredJob
    MaxClockSkew = 1
    MaxPlanWindow = 1
    MaxCredDay = 2
    MaxWorldSteps = 2
    MaxCredOps = 3
SYMMETRY Symmetry
INVARIANTS
    SubmissionsEarned
    AutomationEarned
    ActionableEarned
    QueueFair
    FatigueHeld
    EvidenceSound
    PassportSound
PROPERTIES
    RaisingNeverHurts
CHECK_DEADLOCK FALSE
CONSTRAINT FewChanges
