SPECIFICATION Spec
CONSTANTS
    d1 = d1
    d2 = d2
    o1 = o1
    NULL = NULL
    Worker = Worker
    Dispatches <- OneDispatch
    Orders <- OneOrder
    OrderOf <- SameOrder
    MaxAttempts = 0
    SlowProvider = FALSE
    MaxFaults = 0
INVARIANT OneCallInFlight
