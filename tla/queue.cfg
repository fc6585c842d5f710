\* Three jobs, promoted one at a time: deadlines and a settlement run out, and the
\* last job is one that no worker may have.
CONSTANTS
    Jobs = {1, 2, 3}
    Workers = {w1}
    Slots = {s1, s2}
    MaxAttempts = 1
    LeaseTerm = 1
    MaxLease = 2
    PromoteLimit = 1
    Reports = {}
    MaxRetries = 0
    MaxClock = 3
    MaxEpoch = 1
    Deadline <- Soon
    BindingExpiry <- Early
    BillingJobs <- LastJob
SPECIFICATION Spec
SYMMETRY Symmetry
INVARIANTS TypeOK LogIsPath LeaseEndsWithDeadline
CHECK_DEADLOCK FALSE
