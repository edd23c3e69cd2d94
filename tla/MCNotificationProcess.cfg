SPECIFICATION FairSpec
CONSTANTS
    Dispatches = {d1, d2}
    Worker = Worker
    Orders = {o1, o2}
    MaxClients = 2
    Nobody = Nobody
    Stray = Stray
INVARIANTS NothingKept PassFinished
PROPERTIES DispatchAnswered ShutdownEnds
