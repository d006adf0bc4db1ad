CONSTANTS
    MaxTurns = 3
    Retries = {3}
    MaxReloads = 1
    MaxClosing = 2
    HasReport = TRUE
    Report = report
    None = none
CHECK_DEADLOCK FALSE
SPECIFICATION FairSpec
INVARIANTS
    OneTerminal
    WorksAlone
    StoredStarts
    OneReply
    SnapshotsSettled
PROPERTIES
    TurnsEnd
