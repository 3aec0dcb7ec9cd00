SPECIFICATION FairSpec
CONSTANTS
    a1 = a1
    a2 = a2
    t1 = t1
    t2 = t2
    e1 = e1
    e2 = e2
    None = None
    Actions = {a1}
    Threads = {t1}
    Executors = {e1}
    ExecutorOf <- OneExecutor
    Handling = {e1}
    Overlap <- NoOverlap
    Deadlined = {}
    Cancellable = {a1}
    Foreign = {}
    RetryLimit = 0
    MaxJournal = 3
    MaxSends = 1
    FaultPoints <- FaultsAfterReserve
    MaxFaults = 2
    MaxStalls = 0
    MaxCrashes = 1
VIEW VersionFree
CHECK_DEADLOCK FALSE
PROPERTIES
    ClaimsEnd
    BarrierReleased
