SPECIFICATION FairSettlerSpec
CONSTANTS
    None = None
    Positions = {1, 2, 3}
    Series = {"weekly", "monthly"}
    SeriesOf <- MCSeriesOf
    BatchSize = 2
    MaxTries = 2
    MaxFaults = 1
    MaxRestarts = 1
INVARIANTS TypeOK ClassifiedTruthfully
PROPERTIES SettlerKeepsPromise DeliversAfterSettlement PositionsResolve
CHECK_DEADLOCK FALSE
