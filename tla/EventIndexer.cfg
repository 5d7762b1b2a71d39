SPECIFICATION FairSpec
CONSTANTS
    Settings <- MCSettings
    ConfirmationBlocks = 1
    None = None
    MaxBlock = 5
    MaxFaults = 2
    MaxRestarts = 1
INVARIANTS TypeOK NothingBehindCursor
PROPERTIES EventsAreIndexed
CHECK_DEADLOCK FALSE
