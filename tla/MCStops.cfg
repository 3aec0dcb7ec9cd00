SPECIFICATION Spec
CONSTANTS
    a1 = a1
    a2 = a2
    t1 = t1
    t2 = t2
    e1 = e1
    e2 = e2
    None = None
    Actions = {a1}
    Threads = {t1}
    Executors = {e1}
    ExecutorOf <- OneExecutor
    Handling = {e1}
    Overlap <- NoOverlap
    Deadlined = {a1}
    Cancellable = {a1}
    Foreign = {a1}
    RetryLimit = 3
    MaxJournal = 3
    MaxSends = 2
    FaultPoints <- FaultsAfterReserve
    MaxFaults = 1
    MaxStalls = 1
    MaxCrashes = 1
VIEW VersionFree
CHECK_DEADLOCK FALSE
PROPERTIES
    ImplementsActionLife
INVARIANTS
    UnknownIsCounted
