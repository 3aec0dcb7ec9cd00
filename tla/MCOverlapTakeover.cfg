SPECIFICATION Spec
CONSTANTS
    a1 = a1
    a2 = a2
    t1 = t1
    t2 = t2
    e1 = e1
    e2 = e2
    None = None
    Actions = {a1, a2}
    Threads = {t1, t2, t3}
    Executors = {e1, e2}
    ExecutorOf <- TwoExecutors
    Handling = {e1, e2}
    Overlap <- FullOverlap
    Deadlined = {}
    Cancellable = {}
    Foreign = {}
    RetryLimit = 0
    MaxJournal = 2
    MaxSends = 0
    FaultPoints <- FaultsAfterReserve
    MaxFaults = 0
    MaxStalls = 1
    MaxCrashes = 0
VIEW VersionFree
CHECK_DEADLOCK FALSE
INVARIANTS
    OverlapExclusion
