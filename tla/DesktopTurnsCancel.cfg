CONSTANTS
    MaxTurns = 1
    Retries = {}
    MaxReloads = 0
    MaxClosing = 1
    HasReport = TRUE
    Report = report
    None = none
CHECK_DEADLOCK FALSE
SPECIFICATION FairSpec
PROPERTY CancelExact
