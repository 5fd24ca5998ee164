CONSTANTS
    Length = 2
    Invalid = {}
    MaxFailures = 1
SPECIFICATION Spec
INVARIANT FailedCanBeReprocessed
