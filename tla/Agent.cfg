SPECIFICATION FairSpec
CONSTANTS
    Names = {probe, gate, stray}
    Registered = {probe, gate}
    Gated = {gate}
    NoTool = NoTool
    MaxRounds = 3
    MaxCalls = 2
INVARIANTS
    TypeOK
    EveryCallIsAnswered
    TrailIsPaired
    ToolsAreAccountedFor
    OutcomeIsConsistent
PROPERTIES
    EveryRunEnds
    ImplementsExecutionTrace
CHECK_DEADLOCK FALSE
