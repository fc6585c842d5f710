SPECIFICATION Checked
CONSTANTS
    Last = 2
    Limit = 2
    MaxRevision = 4
    None = None
    First = First
    SessionCalls = {a, b, c}
    UsageWorkspaces = {"w"}
    UsageProjects = {"p"}
    UsageReservations = {r1, r2}
    UsageCallers = {c1, c2}
    UsageLevels = {1, 2}
    UsageViewed = {2}
    UsageLimit = 1
    UsageMaxUnits = 1
    UsageMaxCalls = 3
    PaymentOrders = {"o1", "o2"}
    PaymentHandlers = {"h1", "h2"}
    PaymentEvents <- Webhooks
    PaymentFaults = FALSE
    PaymentMaxFailures = 1
    DeviceLast = 2
    DeviceBatch = 1
    DeviceSlots = {1, 2}
    DeviceDeciders = {d1, d2}
    DeviceSameEpoch = TRUE
    DeviceFaults = {"lost", "late", "database", "crash"}
    DeviceMaxFaults = 1
    RuntimeWorkers = {"sync", "receipts"}
    RuntimeMaxRuntimes = 3
    RuntimeMaxRestarts = 2
    UploadHandlers = {"h1", "h2"}
    UploadLast = 2
    UploadContents <- Parts
    UploadExpected = "good"
    UploadMaxUploads = 2
    UploadMaxFaults = 1
    LedgerWriters = {"c1", "c2", "c3"}
    LedgerIds = {"e1", "e2"}
    LedgerKeys = {"k1", "k2"}
    LedgerContents = {"one", "two"}
CHECK_DEADLOCK FALSE
INVARIANTS TypesOK NothingForgotten  QuotaHolds SettlementIsSafe QueueIsSafe SignOutIsQuiet UploadIsSafe LedgerIsSafe
PROPERTIES SettledForGood
