SPECIFICATION SettlerSpec
CONSTANTS
    None = None
    Positions = {1, 2}
    Series = {"weekly"}
    SeriesOf <- MCSeriesOf
    BatchSize = 1
    MaxTries = 2
    MaxFaults = 1
    MaxRestarts = 0
PROPERTIES NeverRedelivered
CHECK_DEADLOCK FALSE
