CONSTANTS
    Entities = {e1}
    Workers = {w1}
    BatchSize = 2
    MaxAttempts = 2
    RecoverLimit = 2
    Disturbances = {"overlap"}
    MaxVersion = 2
    MaxId = 2
SPECIFICATION Spec
CHECK_DEADLOCK FALSE
INVARIANT CoalescingKeepsState
