SPECIFICATION FairSpec
CONSTANTS
    Orders = {o1, o2, o3}
    Requests = {o3}
    Refused = {o1}
    Recovery = Recovery
    Dispatcher = Dispatcher
    BatchSize = 2
    Backlog <- MCBacklog
INVARIANTS PoolOutlivesUse
PROPERTIES ShutdownEnds SagasTakenUp ConfirmationsDelivered
