SPECIFICATION Spec
CONSTANTS
    Items = {1, 2}
    Callers = {caller}
    Trashers = {caller}
    Janitors = {janitor}
    Clients = {"active", "missing"}
    MaxFaults = 1
    None = None
INVARIANTS
    RecordedMeansDone
    NothingLeftBehind
PROPERTIES
    NeverEarly
CHECK_DEADLOCK FALSE
