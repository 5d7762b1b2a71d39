SPECIFICATION Spec
CONSTANTS
    None = None
    Positions = {1}
    Series = {"weekly"}
    SeriesOf <- MCSeriesOf
    BatchSize = 1
    MaxTries = 2
    MaxFaults = 0
    MaxRestarts = 0
INVARIANTS AssignedNeverRotated
CHECK_DEADLOCK FALSE
