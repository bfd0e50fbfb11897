SPECIFICATION FairSpec
CONSTANTS
    o1 = o1  o2 = o2  p1 = p1  p2 = p2  a = a
    NoOrder = NoOrder  NoPayment = NoPayment
    Orders = {o1, o2}
    Products = {a}
    Workers = {w1}
    Payments = {p1}
    items <- BothBuyA
    initialStock <- OneEach
    withCoupon = {o1, o2}
    maxUses = 1
    orderOf <- AllForO1
    Asked = {}
    MaxCalls = 5
    Ops = {"create", "sweep", "pay", "webhook", "confirm", "request", "reject", "received", "refund"}
INVARIANTS
    StockExact
    PaidHoldsStock
    RefundAfterReturn
PROPERTY
    AbandonedComesBack
CHECK_DEADLOCK FALSE
