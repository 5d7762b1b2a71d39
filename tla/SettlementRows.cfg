SPECIFICATION Spec
CONSTANTS
    None = None
    Positions = {1, 2}
    Series = {"weekly"}
    SeriesOf <- MCSeriesOf
    BatchSize = 1
    MaxTries = 2
    MaxFaults = 1
    MaxRestarts = 1
INVARIANTS SettlementTypeOK DeliveriesAttributedOnce CapitalIsConserved VerdictsAgree
CHECK_DEADLOCK FALSE
