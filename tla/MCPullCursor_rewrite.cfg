CONSTANTS
    Entities = {e1}
    Owners = {}
    Cycles = {p1}
    Realtime = {r1}
    PageSize = 1
    MaxPages = 3
    Mixes <- RealtimeOnly
    MaxTime = 2
    OverlapTime = 2
    MaxMishaps = 2
SPECIFICATION Spec
CHECK_DEADLOCK FALSE
INVARIANT ReloadIsFull
