SPECIFICATION Spec
CONSTANTS
    o1 = o1
    o2 = o2
    o3 = o3
    p1 = p1
    px = px
    c1 = c1
    c2 = c2
    c3 = c3
    c4 = c4
    c5 = c5
    c6 = c6
    NULL = NULL
    Orders <- MCOrders
    ProductIds <- MCProductIds
    Products <- MCProducts
    Price <- MCPrice
    InitialStock <- MCStock
    MaxInt <- MCMaxInt
    Calls <- MCCalls
    KindOf <- MCKindOf
    OrderOf <- MCOrderOf
    ProductOf <- MCProductOf
    QuantityOf <- MCQuantityOf
    HashOf <- MCHashOf
    MaxFaults = 2
PROPERTY ImplementsInventory
PROPERTY AnswersCurrent
