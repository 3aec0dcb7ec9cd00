SPECIFICATION Spec
CONSTANTS
    c1 = c1
    c2 = c2
    w1 = w1
    w2 = w2
    p1 = p1
    p2 = p2
    None = None
    Workflows = {w1, w2}
    Plans = {p1, p2}
    Deadlined = {w1}
    Callers = {c1}
    MaxSteps = 2
    Revisable = {}
    Unlinked = {p1, p2}
    Cancellable = {w1}
    Reached <- PlainStates
INVARIANTS
    StepsInOrder
    ClosedIsFenced
    ApprovalsAgree
PROPERTIES
    EndedIsFinal
SYMMETRY SwapPlans
CHECK_DEADLOCK FALSE
