CONSTANTS
    Approvals = {a1}
    NoApproval = NoApproval
    Lease = 2
    Clients = {c1, c2}
    Workers = {}
    MaxHold = 1
    MaxCrashes = 0
    GetErrors = TRUE
    ReconciledWithinTTL = TRUE
SPECIFICATION Spec
SYMMETRY ClientSymmetry
PROPERTY
    RetryOnlyWhenAbsent
