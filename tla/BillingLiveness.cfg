SPECIFICATION FairSpec
CONSTANTS
    Desks = {d1}
    Hooks = {h1}
    Cron = cron
    Ops = {"pix", "cron"}
    Period = 3
    Ahead = 1
    Validity = 2
    Grace = 1
    FreePlan = FALSE
    LastDay = 4
    MaxInvoices = 2
    MaxCharges = 0
    MaxGrants = 3
PROPERTIES
    CronSparesPaid
    PixPaidIsNoted
    ArrearsEnd
CHECK_DEADLOCK FALSE
