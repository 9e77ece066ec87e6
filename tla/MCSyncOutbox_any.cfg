CONSTANTS
    Entities = {e1}
    Workers = {w1}
    BatchSize = 2
    MaxAttempts = 1
    RecoverLimit = 1
    Disturbances = {"overlap", "recorder", "patch", "siblings", "network", "late", "crash", "discard", "retention"}
    MaxVersion = 2
    MaxId = 2
SPECIFICATION Spec
CHECK_DEADLOCK FALSE
INVARIANTS TypeOK AckedIsDelivered RejectedWasRefused SupersededHasSuccessor
