CONSTANTS
    Requests = {r1, r2}
    MaxDay = 3
    MaxDate = 3
    MaxNumber = 2
    RestDays = {2}
    Mixes <- AllMixes
SPECIFICATION FairSpec
INVARIANTS NumbersUnique ApprovedDayTakesOrders DiscardSparesCurrent
PROPERTIES RotationHeals ActiveTabsKeepDay YesterdayEnds
CHECK_DEADLOCK FALSE
