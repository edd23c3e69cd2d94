SPECIFICATION Spec
CONSTANTS
    r1 = r1
    r2 = r2
    k1 = k1
    p1 = p1
    px = px
    NULL = NULL
    Worker = Worker
    Requests <- OneRequest
    KeyOf <- OneKey
    ProductOf <- OneProduct
    QuantityOf <- OneQuantity
    InitialStock <- OneStock
    ProductIds <- MCProductIds
    Products <- MCProducts
    Price <- MCPrice
    MaxInt <- MCMaxInt
    InlineCallAttempts = 2
    CallsMayFail = TRUE
    CommitMayFail = TRUE
    CommitAckMayBeLost = FALSE
    MayCrash = {}
INVARIANT OrderKeepsStock
CONSTRAINT NoOverlap
