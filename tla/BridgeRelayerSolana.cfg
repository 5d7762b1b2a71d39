SPECIFICATION BridgeSpec
CONSTANTS
    NoJob = NoJob
    Workers = {w1, w2}
    MaxTries = 1
    MaxFaults = 0
    MaxRestarts = 0
    LossyJobs = {}
    Jobs = {d}
    ArcJobs = {}
    SolanaJobs = {d}
    TradeJobs = {}
    IntentJobs = {}
    ReserveJobs = {}
    SubmitJobs = {}
    UserOf <- MCUserOf
    Demands = {{d}}
INVARIANTS MintCompletedMeansMinted
CHECK_DEADLOCK FALSE
