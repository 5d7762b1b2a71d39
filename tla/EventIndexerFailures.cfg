SPECIFICATION Spec
CONSTANTS
    Settings <- ShortRescan
    ConfirmationBlocks = 1
    None = None
    MaxBlock = 5
    MaxFaults = 2
    MaxRestarts = 0
INVARIANTS FailuresHoldCursor
CHECK_DEADLOCK FALSE
