SPECIFICATION Spec
CONSTANTS
    Runs = {p1, p2}
    Versions = {v1, v2}
    Valid = {v1}
    Torn = Torn
    None = None
    Scripts = 2
    ReadsResult = TRUE
    Changes = 1
    Kills = 1
INVARIANTS
    TypeOK
    UndisturbedRunsReadTheirOwn
    OverlapLeavesOneVersion
    AdviceIsFounded
SYMMETRY RunSymmetry
CHECK_DEADLOCK FALSE
