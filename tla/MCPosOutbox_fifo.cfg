CONSTANTS
    Orders = {o1}
    Cashiers = {c1}
    Replays = {r1}
    Calls = {k1}
    Nil = Nil
    Disturbances = {"fail"}
    MaxEntries = 3
    MaxAttempts = 2
    MaxMishaps = 1
SPECIFICATION FairSpec
CHECK_DEADLOCK FALSE
PROPERTY FifoPerOrder
