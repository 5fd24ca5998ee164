CONSTANTS
    Length = 4
    Invalid = {2}
    MaxFailures = 2
SPECIFICATION FairSpec
INVARIANTS
    TypeOK
    CommittedIsAccountedFor
    PublishedIsPersisted
    DuplicatesNeedRestart
PROPERTIES
    ImplementsLedger
    ValidMessagesAreScored
