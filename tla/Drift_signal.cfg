SPECIFICATION Spec
CONSTANTS
    Runs = {p1, p2}
    Versions = {v1, v2}
    Valid = {v1}
    Torn = Torn
    None = None
    Scripts = 1
    ReadsResult = FALSE
    Changes = 0
    Kills = 0
INVARIANTS
    ReportAndSignalAgree
CHECK_DEADLOCK FALSE
