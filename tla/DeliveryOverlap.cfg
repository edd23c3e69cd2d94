SPECIFICATION FairSpec
CONSTANTS
    d1 = d1
    d2 = d2
    o1 = o1
    NULL = NULL
    Worker = Worker
    Dispatches <- TwoDispatches
    Orders <- OneOrder
    OrderOf <- SameOrder
    MaxAttempts = 0
    SlowProvider = TRUE
    MaxFaults = 2
INVARIANT HistoryCounts
INVARIANT AnswersTrue
PROPERTY KeepsPromise
PROPERTY EventuallyDelivered
