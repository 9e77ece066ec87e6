CONSTANTS
    Writers = {w1}
    MaxRow = 1
    FailureThreshold = 3
    SilenceAfter = 1
    ManualTtl = 2
    SuppressFor = 2
    MaxMishaps = 0
    Mixes <- NoEvents
SPECIFICATION Spec
PROPERTY ConflictsKeepMode
