CONSTANTS
    Approvals = {a1}
    NoApproval = NoApproval
    Lease = 2
    Clients = {c1, c2}
    Workers = {}
    MaxHold = 1
    MaxCrashes = 2
    GetErrors = TRUE
    ReconciledWithinTTL = TRUE
SPECIFICATION Spec
SYMMETRY ClientSymmetry
INVARIANTS
    TypeOK
    SingleOwner
    RunsAtMostOnce
    NoPhantomCompletion
    AuditAgrees
    SettledIsAudited
PROPERTIES
    OnlyAbandonedIsRecovered
    ImplementsLifecycle
