SPECIFICATION FairSpec
CONSTANTS
    Assets = {"eth", "btc"}
    Quotes = {"b", "m"}
    Makers = {"operator", "maker"}
    Operator = "operator"
    MakerOf <- MCMakerOf
    OptionOf <- MCOptionOf
    None = None
    Levels = {0, 1}
    Threshold = 1
    PricesTTL = 2
    MaxMoves = 1
    MaxFaults = 1
    MaxRestarts = 1
INVARIANTS TypeOK StaleQuotesWithdrawn MenusAreRecent
PROPERTIES TripsWithdraw
CHECK_DEADLOCK FALSE
