SPECIFICATION Checked
CONSTANTS
    Requests = {r1, r2}
    Versions = {v1, v2}
    Actors = {ann, bob, cem}
    Eligible = {ann, bob, cem}
    MinApprovals = 2
    SelfApproval = FALSE
    MaxTime = 1
    Repeats = FALSE
    NoVersion = NoVersion
    w1 = w1
    w2 = w2
    PublicationRequests = {"r1", "r2"}
    PublicationVersions = {"v1", "v2"}
    PublicationFirst = "v1"
    PublicationActors = {"ann"}
    PublicationEligible = {"ann"}
    PublicationMinApprovals = 1
    PublicationSelfApproval = TRUE
    PublicationCallers = {"c1", "c2"}
    PublicationKeys = {"k1", "k2"}
    PublicationWorkers = {"w"}
    PublicationMaxRevision = 4
    PublicationMaxFaults = 1
    EtlRequests = {"q1", "q2", "auto"}
    EtlAuto = {"auto"}
    EtlKeys = {"k1", "k2"}
    EtlPayloads = {"p"}
    EtlLeaseTerm = 1
    EtlMaxClock = 1
    RefreshLast = 2
    RefreshWindow = 1
    RefreshWorkers = {"w1", "w2"}
    RefreshMaxRevision = 5
    PromptProcs = {"p1", "p2"}
    PromptReaders = {}
    DelayedProcs = {"p1"}
    DelayedReaders = {"p1"}
    NotificationLast = 3
    NotificationScopes = {"s"}
    NotificationRecipients = {"ann"}
    NotificationConsumers = {"c1", "c2"}
    NotificationScopeLimit = 1
    NotificationScopeRows = 2
    NotificationLimit = 2
    NotificationLate = TRUE
    NotificationBroken = {}
    NotificationMaxFailures = 1
    NotificationMaxRevision = 2
    StreamStreams = {"s1", "s2"}
    StreamPageSize = 2
    StreamMaxEvents = 3
    StreamMaxBreaks = 2
    AuthoringLast = 3
    AuthoringInFlight = 2
    AuthoringCommands <- Sent
    AuthoringProposals = {"p"}
    AuthoringBase = {w1, w2}
    AuthoringMaxRevision = 3
    AuthoringMaxFaults = 1
    AgentCalls = {"c1", "c2", "c3"}
    AgentInputs = {"i1", "i2"}
    AgentValues = {"v1", "v2"}
    AgentMaxFaults = 1
    DialogueTurns = {"t1", "t2"}
    DialogueAdvances = {"t3"}
    DialogueKeys = {"k1"}
    ContextAdvances = {"t1", "t2", "t3"}
    ContextKeys = {"k1", "k2"}
    ConversationAnswers = {"yes"}
    ConversationDatasets <- TwoDatasets
    ConversationMaxVersion = 2
CHECK_DEADLOCK FALSE
INVARIANTS TypesOK Quorum PublicationIsSafe AcceptanceIsSafe RefreshIsSafe ProjectionIsSafe StreamIsSafe AuthoringIsSafe CommandIsSafe ConversationIsSafe
PROPERTIES NeverReopened SnapshotsMoveForward
