SPECIFICATION Spec
CONSTANTS
    Desks = {d1}
    Hooks = {h1}
    Cron = cron
    Ops = {"pix", "free", "view", "lost", "cron"}
    Period = 3
    Ahead = 1
    Validity = 2
    Grace = 1
    FreePlan = TRUE
    LastDay = 4
    MaxInvoices = 2
    MaxCharges = 0
    MaxGrants = 2
INVARIANTS
    OnePayable
    GrantedWithinPaid
CHECK_DEADLOCK FALSE
