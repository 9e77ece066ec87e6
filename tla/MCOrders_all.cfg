CONSTANTS
    Requests = {r1, r2}
    MaxOrder = 3
    Lines = {a, b}
    Units = {a}
    MaxAmount = 2
    c1 = c1
    c2 = c2
    Cashiers = {c1, c2}
    MaxDrawer = 3
    Mixes <- AllMixes
SPECIFICATION FairSpec
INVARIANTS OneReceipt LiveTargetIsBooked RollbackLosesNothing NoDoubleRevenue OneOpenDrawer
PROPERTIES PaymentFixed CallsEnd
CHECK_DEADLOCK FALSE
