SPECIFICATION SweepsSpec
CONSTANTS
    Processes = {p1, p2}
    NoOne = NoOne
    Invoices = {i1, i2}
    MaxFaults = 2
    Alerts = {a1, a2}
    Carts = {o1}
    Sweepers = {p1}
    Page = 1
    MaxAsked = 2
    MaxFlips = 2
    MaxLost = 2
INVARIANTS
    RemindedOnce
PROPERTIES
    SoleRunnerSpec
    EveryInvoiceMarked
    WaitersTold
CHECK_DEADLOCK FALSE
