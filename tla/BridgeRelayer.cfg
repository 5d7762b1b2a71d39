SPECIFICATION BridgeSpec
CONSTANTS
    NoJob = NoJob
    Workers = {w1, w2}
    MaxTries = 2
    MaxFaults = 1
    MaxRestarts = 1
    LossyJobs = {a, r}
    Jobs = {a, r, t, s, q, d}
    ArcJobs = {a}
    SolanaJobs = {r, d}
    TradeJobs = {t, s, d}
    IntentJobs = {a}
    ReserveJobs = {r}
    SubmitJobs = {s, q}
    UserOf <- MCUserOf
    Demands = {{a, r}, {t, s}, {s, q}, {d}}
INVARIANTS TypeOK SuccessMeansDelivered ProcessedOnce
PROPERTIES ImplementsTransfer BurnBroadcastOnce JobsSettle
CHECK_DEADLOCK FALSE
