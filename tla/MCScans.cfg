CONSTANTS
    Roots = {r1, r2}
    v1 = v1
    v2 = v2
    Revisions <- MCRevisions
    Reports <- MCReports
    None = None
    MaxConcurrent = 2
    MaxScans = 2
    MaxConfigs = 2
    MaxFaults = 0
    MaxRestarts = 0
SPECIFICATION Spec
INVARIANTS
    TypeOK
    SnapshotValid
    EvidenceCurrent
    OneRunnerPerRoot
PROPERTIES
    FollowUpHonoured
VIEW EvidenceFree
SYMMETRY SwapAll
CHECK_DEADLOCK FALSE
