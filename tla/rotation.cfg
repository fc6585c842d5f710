\* One job, one worker, two attempts, a rotation of its secret.
CONSTANTS
    Jobs = {1}
    Workers = {w1}
    Slots = {s1, s2}
    MaxAttempts = 2
    LeaseTerm = 1
    MaxLease = 2
    PromoteLimit = 1
    Reports = {"SUCCEEDED", "FAILED", "CANCELLED"}
    MaxRetries = 1
    MaxClock = 3
    MaxEpoch = 2
    Deadline <- Later
    BindingExpiry <- Later
    BillingJobs <- NoJobs
SPECIFICATION Spec
SYMMETRY Symmetry
INVARIANTS ResultSettledOnce AcknowledgedIsDurable
PROPERTIES ImplementsContract
CHECK_DEADLOCK FALSE
