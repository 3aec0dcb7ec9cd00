SPECIFICATION FairSpec
CONSTANTS
    Items = {1, 2}
    Callers = {caller}
    Trashers = {caller}
    Janitors = {janitor}
    Clients = {"none"}
    MaxFaults = 0
    None = None
PROPERTIES
    AbandonedReconciled
CHECK_DEADLOCK FALSE
