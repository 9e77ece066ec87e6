CONSTANTS
    Entities = {e1, e2}
    Workers = {w1}
    BatchSize = 2
    MaxAttempts = 2
    RecoverLimit = 2
    Disturbances = {"network", "restart", "operator"}
    MaxVersion = 2
    MaxId = 2
SPECIFICATION FairSpec
CHECK_DEADLOCK FALSE
INVARIANTS NoOrphanInFlight CoalescingKeepsState NothingForgotten
PROPERTIES Replicates Converges
