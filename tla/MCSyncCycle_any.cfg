CONSTANTS
    Calls = {c1, c2, c3, c4}
    NoCall = NoCall
    Disturbances = {"gap", "direct", "unpaired"}
SPECIFICATION FairSpec
INVARIANTS ExclusiveOutsideGaps QueuedWillDrain AwaitsARun
PROPERTY TriggerServed
