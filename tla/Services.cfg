SPECIFICATION Spec
CONSTANTS
    v1 = v1
    v2 = v2
    o1 = o1
    o2 = o2
    Orders = {o1, o2}
    OrderIds = {o1}
    Products = {v1}
    Tabs = {1, 2}
    Slots = {1, 2}
    Handlers = {1, 2}
    Sweepers = {1, 2}
    Sessions = {1, 2}
    MaxRequests = 4
    Shelf <- TwoShelves
    Lines <- TwoOrders
    Workers = {1, 2}
    Variants = {v1, v2}
    Alerts = {v1}
    Carts = {o1}
    Accounts = {"a", "b"}
    MaxIssues = 3
    MaxLosses = 1
    MaxCalls = 4
    MaxDeaths = 1
    Page = 1
    MaxAsked = 2
    MaxFlips = 2
    MaxFaults = 2
    MaxVisits = 2
    MaxAdds = 1
    MaxSubmits = 2
    MaxPolls = 1
    MaxMishaps = 1
    MaxLapses = 1
    BagLines <- FourLines
    Rules <- TwoRules
    Coupons <- TwoCoupons
    Charges = {1, 2}
    Calls = {1, 2}
    Freight = 20
    Percents = {0, 20}
    MaxLines = 4
    MaxPays = 3
    MaxEvents = 1
INVARIANTS
    NumberedOnce
    ResentForCause
    NoteIsTrue
    UnitsNotInvented
    MailsWithinRequests
    OncePerVisit
    SuccessIsCharged
    RefreshKept
    ComboAsPromised
    DiscountWithinGoods
    NoneTurnedAway
    TotalIsPaid
PROPERTIES
    SumHeals
CHECK_DEADLOCK FALSE
