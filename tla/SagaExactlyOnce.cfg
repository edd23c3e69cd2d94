SPECIFICATION Spec
CONSTANTS
    r1 = r1
    r2 = r2
    k1 = k1
    p1 = p1
    px = px
    NULL = NULL
    Worker = Worker
    Requests <- TwoRequests
    KeyOf <- RivalKeys
    ProductOf <- TwoProducts
    QuantityOf <- TwoQuantities
    InitialStock <- TwoStock
    ProductIds <- MCProductIds
    Products <- MCProducts
    Price <- MCPrice
    MaxInt <- MCMaxInt
    InlineCallAttempts = 2
    CallsMayFail = TRUE
    CommitMayFail = FALSE
    CommitAckMayBeLost = FALSE
    MayCrash = {r1, Worker}
INVARIANT OrderKeepsStock
PROPERTY PreservesShop
