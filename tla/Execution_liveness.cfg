CONSTANTS
    Approvals = {a1}
    NoApproval = NoApproval
    Lease = 1
    Clients = {c1}
    Workers = {w1}
    MaxHold = 0
    MaxCrashes = 1
    GetErrors = TRUE
    ReconciledWithinTTL = TRUE
SPECIFICATION FairSpec
PROPERTIES
    FinishedJobSettles
    ExecutionEnds
