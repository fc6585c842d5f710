\* One job, two workers, two attempts; every request may be repeated once.
CONSTANTS
    Jobs = {1}
    Workers = {w1, w2}
    Slots = {s1, s2}
    MaxAttempts = 2
    LeaseTerm = 1
    MaxLease = 2
    PromoteLimit = 1
    Reports = {}
    MaxRetries = 1
    MaxClock = 3
    MaxEpoch = 1
    Deadline <- Later
    BindingExpiry <- Later
    BillingJobs <- NoJobs
SPECIFICATION Spec
SYMMETRY Symmetry
INVARIANTS JobMatchesAttempts LeaseExclusion PreparedStaysBound
PROPERTIES FinishedStaysFinished
CHECK_DEADLOCK FALSE
