SPECIFICATION FairSpec
CONSTANTS
    Workers = {w1}
    Approvals = {1, 2}
    Lease = 1
    GetErrors = FALSE
    BatchSize = 1
    Free = Free
    Ghost = Ghost
    MaxFaults = 1
PROPERTIES
    LockIsFreed
    RowsInReachAreReconciled
