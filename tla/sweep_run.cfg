SPECIFICATION RunSpec
CONSTANTS
    Configs <- SmallConfigs
    OnlineCpus = 2
    LpaValues <- Lpa
    Widths <- SmallWidths
    ColumnSteps <- ColSteps
    MaxColBits = 1
    Bandwidths <- Speeds
INVARIANTS RunInv EveryCoreTried RowsAreMeasurements ConfigReachesBenchmark SummaryIsBest JobsAccepted FilesTogether FiguresShowSummary
CHECK_DEADLOCK FALSE
