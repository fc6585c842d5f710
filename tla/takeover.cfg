CONSTANTS
    Jobs = {1}
    Workers = {w1, w2}
    Slots = {s1}
    MaxAttempts = 2
    LeaseTerm = 1
    MaxLease = 2
    PromoteLimit = 2
    Reports = {"FAILED"}
    MaxRetries = 0
    MaxClock = 3
    MaxEpoch = 1
    Deadline <- Later
    BindingExpiry <- Later
    BillingJobs <- NoJobs
SPECIFICATION FairSpec
PROPERTY ExpiredIsTakenOver
CHECK_DEADLOCK FALSE
