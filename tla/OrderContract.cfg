SPECIFICATION ContractSpec
CONSTANTS
    o1 = o1
    o2 = o2
    p1 = p1
    p2 = p2
    px = px
    NoRow = NoRow
    Orders <- MCOrders
    ProductIds <- MCProductIds
    Products <- MCProducts
    Quantities <- MCQuantities
    Price <- MCPrice
    InitialStock <- MCInitialStock
    MaxInt <- MCMaxInt
    MaxSafe <- MCMaxSafe
    Bodies <- MCBodies
SYMMETRY OrderSymmetry
INVARIANTS TypeOK StockConserved RejectionsJustified AnswersBacked NeverRefusedLater
PROPERTIES LedgerFinal AnswersAsBefore
\* Once every order id has its answer nothing more happens.
CHECK_DEADLOCK FALSE
