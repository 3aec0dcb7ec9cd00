SPECIFICATION Spec
CONSTANTS
    a1 = a1
    a2 = a2
    t1 = t1
    t2 = t2
    e1 = e1
    e2 = e2
    None = None
    Actions = {a1}
    Threads = {t1, t2}
    Executors = {e1}
    ExecutorOf <- OneExecutor
    Handling = {e1}
    Overlap <- NoOverlap
    Deadlined = {}
    Cancellable = {}
    Foreign = {}
    RetryLimit = 0
    MaxJournal = 5
    MaxSends = 2
    FaultPoints <- FaultsAfterReserve
    MaxFaults = 0
    MaxStalls = 1
    MaxCrashes = 0
VIEW VersionFree
SYMMETRY SwapThreads
CHECK_DEADLOCK FALSE
INVARIANTS
    TypeOK
    OneLiveDispatch
    AppliedAtMostOnce
    SingleOwner
    TerminalIsQuiet
