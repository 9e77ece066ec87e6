CONSTANTS
    Orders = {o1}
    Cashiers = {c1}
    Replays = {r1, r2}
    Calls = {k1, k2}
    Nil = Nil
    Disturbances = {"drop", "refuse", "fail", "slow", "restart", "drawer", "till", "operator"}
    MaxEntries = 2
    MaxAttempts = 2
    MaxMishaps = 1
SPECIFICATION FairSpec
CHECK_DEADLOCK FALSE
INVARIANTS OrderNeverLost PaymentNeverLost
PROPERTIES BookedOnce Drains
