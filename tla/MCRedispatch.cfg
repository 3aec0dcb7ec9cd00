SPECIFICATION Spec
CONSTANTS
    a1 = a1
    a2 = a2
    t1 = t1
    t2 = t2
    e1 = e1
    e2 = e2
    None = None
    Actions = {a1}
    Threads = {t1, t2}
    Executors = {e1, e2}
    ExecutorOf <- TwoExecutors
    Handling = {e1}
    Overlap <- NoOverlap
    Deadlined = {}
    Cancellable = {}
    Foreign = {}
    RetryLimit = 0
    MaxJournal = 5
    MaxSends = 2
    FaultPoints <- FaultsAfterReserve
    MaxFaults = 1
    MaxStalls = 0
    MaxCrashes = 1
VIEW VersionFree
CHECK_DEADLOCK FALSE
INVARIANTS
    NoBlindReplay
    SucceededIsApplied
    ClaimedIffRunning
PROPERTIES
    ReopenedOnlyByHold
