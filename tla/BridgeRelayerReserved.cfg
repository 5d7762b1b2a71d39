SPECIFICATION BridgeSpec
CONSTANTS
    NoJob = NoJob
    Workers = {w1, w2}
    MaxTries = 1
    MaxFaults = 0
    MaxRestarts = 1
    LossyJobs = {}
    Jobs = {r}
    ArcJobs = {}
    SolanaJobs = {r}
    TradeJobs = {}
    IntentJobs = {}
    ReserveJobs = {r}
    SubmitJobs = {}
    UserOf <- MCUserOf
    Demands = {{r}}
INVARIANTS MintCompletedAfterMint
CHECK_DEADLOCK FALSE
