CONSTANTS
    Jobs = {1}
    Workers = {w1}
    Slots = {s1, s2}
    MaxAttempts = 1
    LeaseTerm = 1
    MaxLease = 2
    PromoteLimit = 2
    Reports = {}
    MaxRetries = 1
    MaxClock = 2
    MaxEpoch = 1
    Deadline <- Later
    BindingExpiry <- Later
    BillingJobs <- NoJobs
SPECIFICATION Spec
INVARIANT IdenticalRetryIsAnswered
CHECK_DEADLOCK FALSE
