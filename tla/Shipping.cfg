SPECIFICATION FairSpec
CONSTANTS
    Orders = {o1}
    Parcels = {1, 2}
    NoParcel = 0
    Workers = {1, 2}
    Sweeper = 0
    Asked = {"PROCESSING"}
    MaxCalls = 3
    MaxFaults = 1
INVARIANTS
    PaidAgainForCause
    DeliveredIsReal
PROPERTIES
    DeliveryNoted
CHECK_DEADLOCK FALSE
