SPECIFICATION FairSpec
CONSTANTS
    r1 = r1
    r2 = r2
    k1 = k1
    p1 = p1
    px = px
    NULL = NULL
    Worker = Worker
    Requests <- TwoRequests
    KeyOf <- TwoKeys
    ProductOf <- OtherBodyProducts
    QuantityOf <- TwoQuantities
    InitialStock <- TwoStock
    ProductIds <- MCProductIds
    Products <- MCProducts
    Price <- MCPrice
    MaxInt <- MCMaxInt
    InlineCallAttempts = 2
    CallsMayFail = TRUE
    CommitMayFail = TRUE
    CommitAckMayBeLost = TRUE
    MayCrash = {r1, r2, Worker}
INVARIANTS TypeOK OrderBacked CompensationConfirmed AbortsJustified PriceRecorded AnswersHold OneDecrementPerKey
PROPERTY OrdersFinal
PROPERTY SagaDecided
PROPERTY ViewCoherent
