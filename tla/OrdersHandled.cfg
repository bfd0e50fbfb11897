SPECIFICATION Spec
CONSTANTS
    o1 = o1  o2 = o2  p1 = p1  p2 = p2  a = a
    NoOrder = NoOrder  NoPayment = NoPayment
    Orders = {o1}
    Products = {a}
    Workers = {w1, w2}
    Payments = {p1}
    items <- BothBuyA
    initialStock <- OneEach
    withCoupon = {o1}
    maxUses = 1
    orderOf <- AllForO1
    Asked = {"CANCELLED", "REFUNDED"}
    MaxCalls = 4
    Ops = {"create", "sweep", "pay", "webhook", "status", "bulk", "confirm", "request", "reject", "received", "refund", "outside", "crash"}
INVARIANTS
    RefundedMeansMoneyBack
SYMMETRY Symmetry
CHECK_DEADLOCK FALSE
