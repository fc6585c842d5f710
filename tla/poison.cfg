CONSTANTS
    Jobs = {1}
    Workers = {w1}
    Slots = {s1}
    MaxAttempts = 1
    LeaseTerm = 1
    MaxLease = 2
    PromoteLimit = 2
    Reports = {}
    MaxRetries = 0
    MaxClock = 2
    MaxEpoch = 1
    Deadline <- Later
    BindingExpiry <- Later
    BillingJobs <- NoJobs
SPECIFICATION FairSpec
PROPERTY PoisonJobFails
CHECK_DEADLOCK FALSE
