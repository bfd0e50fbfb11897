SPECIFICATION Spec
CONSTANTS
    Desks = {d1}
    Hooks = {h1}
    Cron = cron
    Ops = {"checkout", "cancel", "card", "sync"}
    Period = 3
    Ahead = 1
    Validity = 2
    Grace = 1
    FreePlan = TRUE
    LastDay = 1
    MaxInvoices = 2
    MaxCharges = 2
    MaxGrants = 2
PROPERTIES
    PaidNotInArrears
    NoDowngrade
CHECK_DEADLOCK FALSE
