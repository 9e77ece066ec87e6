CONSTANTS
    Entities = {e1, e2, o1}
    Owners = {o1}
    Cycles = {p1}
    Realtime = {r1}
    PageSize = 1
    MaxPages = 3
    Mixes <- AllMixes
    MaxTime = 3
    OverlapTime = 2
    MaxMishaps = 2
SPECIFICATION FairSpec
CHECK_DEADLOCK FALSE
INVARIANTS TypeOK OwnersStay NothingSkipped
PROPERTIES ReloadComplete FollowsCloud
