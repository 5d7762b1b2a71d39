SPECIFICATION FairSpec
CONSTANTS
    Assets = {"eth"}
    Quotes = {"o", "m"}
    Makers = {"operator", "maker"}
    Operator = "operator"
    MakerOf <- MCMakerOf
    OptionOf <- MCOptionOf
    None = None
    Levels = {0, 1}
    Threshold = 1
    PricesTTL = 2
    MaxMoves = 1
    MaxFaults = 0
    MaxRestarts = 0
PROPERTIES TripInvalidates
CHECK_DEADLOCK FALSE
