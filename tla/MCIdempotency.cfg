SPECIFICATION Spec
CONSTANTS
    Keys = {"patch", "revert", "create", "delete"}
    Bodies <- MCBodies
    Starts <- MCStarts
    CacheLimit = 1
    MaxRequests = 3
    MaxFaults = 1
    None = None
INVARIANTS
    AppliedOnce
    AnswersAreTrue
    MemoryAgrees
    WaitedForIsServed
PROPERTIES
    RecordIsFinal
