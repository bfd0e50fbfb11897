SPECIFICATION StorefrontSpec
CONSTANTS
    Products = {p1}
    OrderIds = {o1}
    Tabs = {1, 2}
    Slots = {1, 2}
    MaxVisits = 3
    MaxAdds = 1
    MaxSubmits = 1
    MaxPolls = 1
    MaxMishaps = 1
INVARIANTS
    RecoveredOnce
CHECK_DEADLOCK FALSE
