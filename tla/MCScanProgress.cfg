CONSTANTS
    Roots = {r1}
    v1 = v1
    v2 = v2
    Revisions = {v1}
    Reports <- PlainReports
    None = None
    MaxConcurrent = 2
    MaxScans = 2
    MaxConfigs = 1
    MaxFaults = 1
    MaxRestarts = 1
SPECIFICATION FairSpec
INVARIANTS
    CancelWins
    ClosedIsQuiet
PROPERTIES
    CancelEnds
    ScanMoves
    StopEnds
CHECK_DEADLOCK FALSE
