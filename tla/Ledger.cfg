SPECIFICATION FairSpec
CONSTANTS
    Payments = {p1}
    Workers = {w1, w2}
    total = 4
    fee = 2
    expected = 0
    Parts = {1, 3, 4}
    MaxChanges = 2
    MaxFailures = 1
INVARIANTS
    WithinFee
PROPERTIES
    ReconcilesExactly
    LedgerCatchesUp
CHECK_DEADLOCK FALSE
