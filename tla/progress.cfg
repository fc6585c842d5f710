SPECIFICATION Behaviours
CONSTANTS
    Last = 3
    Scopes = {s1, s2}
    Recipients = {r1}
    Consumers = {c1}
    ScopeLimit = 2
    ScopeRows = 2
    Limit = 1
    Late = TRUE
    Broken = {s2}
    MaxFailures = 1
    MaxRevision = 2
    NoValue = NoValue
CHECK_DEADLOCK FALSE
PROPERTIES EveryEventProjected EveryPaymentSettles ClientCatchesUp EveryOperationArrives SignOutEnds EveryWithdrawalHappens
