SPECIFICATION BotsSpec
CONSTANTS
    None = None
    MaxFaults = 1
    MaxRestarts = 1
    Calls = {c1, c2}
    MaxNonce = 2
    MaxAttempts = 2
    Users = {u1, u2}
    MaxWeeks = 3
    Pnls <- MCPnls
    MaxTries = 2
    Sockets = {s1, s2}
    Fills = {f1, f2}
    SolanaPositions = {1, 2}
    OTokens = {put}
    OTokenOf <- MCOTokenOf
    Puts = {put}
    Vaults = {v1, v2}
    YieldAssets = {usdc}
    AssetOf <- MCAssetOf
    Collateral <- MCCollateral
    Past <- MCPast
    MaxEvents = 4
    YieldRange = 2
    YieldRescan = 1
    YieldConfirmations = 1
    Yields = {5}
    FeeBps = 2000
    MaxAirdrops = 2
    ShortCutoff = 8
    StandardCutoff = 96
    MaxHours = 336
    Spots = {1010, 1025, 1030}
    Steps = {25, 50}
    NumStrikes = 5
    MinOtm = 4
    Options = {o1, o2}
    MaxChanges = 1
    Intents = {i1}
    TypeOf <- MCTypeOf
    MaxPatches = 1
INVARIANTS
    BotsTypeOK
    TakesEffectOnce NoncesInOrder
    TotalsAreSums
    FillsReachAll
    RedeliveryNeedsDoubt NoSolanaFillSkipped
    YieldBehindCursor PaidOnce PeriodsDoNotOverlap HarvestsShared
    SheetIsTradable
    ListedIsUsable
    IntentsFollowJobs
PROPERTIES
    SolanaKeepsPromise FillsAreResolved TargetsGetListed
CHECK_DEADLOCK FALSE
