SPECIFICATION Spec
CONSTANTS
    Requests = {r1, r2, r3}
    NoRequest = NoRequest
    Restarts = 1
INVARIANTS
    TypeOK
    RequestsAreAccountedFor
    GaugesAgree
CHECK_DEADLOCK FALSE
