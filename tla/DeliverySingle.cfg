SPECIFICATION Spec
CONSTANTS
    d1 = d1
    d2 = d2
    o1 = o1
    NULL = NULL
    Worker = Worker
    Dispatches <- TwoDispatches
    Orders <- OneOrder
    OrderOf <- SameOrder
    MaxAttempts = 3
    SlowProvider = FALSE
    MaxFaults = 3
CONSTRAINT NoOverlap
INVARIANT SingleMessage
