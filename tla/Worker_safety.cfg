SPECIFICATION Spec
CONSTANTS
    Workers = {w1, w2}
    Approvals = {1, 2}
    Lease = 1
    GetErrors = TRUE
    BatchSize = 1
    Free = Free
    Ghost = Ghost
    MaxFaults = 1
INVARIANTS
    TypeOK
    ActiveHoldsLock
PROPERTIES
    FollowsLifecycle
