SPECIFICATION FairSpec
CONSTANTS
    c1 = c1
    c2 = c2
    w1 = w1
    w2 = w2
    p1 = p1
    p2 = p2
    None = None
    Workflows = {w1}
    Plans = {p1, p2}
    Deadlined = {w1}
    Callers = {c1}
    MaxSteps = 2
    Revisable = {p2}
    Unlinked = {}
    Cancellable = {w1}
    Reached <- HeldStates
PROPERTIES
    DeadlineCloses
    StepAdvances
CHECK_DEADLOCK FALSE
