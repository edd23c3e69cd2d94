SPECIFICATION FairSpec
CONSTANTS
    h1 = h1
    h2 = h2
    o1 = o1
    NULL = NULL
    Loop = Loop
    Handlers <- TwoHandlers
    Orders <- OneOrder
    OrderOf <- SameOrder
    MaxFaults = 3
INVARIANT ClosedIsConfirmed
PROPERTY NeverLost
PROPERTY Settles
