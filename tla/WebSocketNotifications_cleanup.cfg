SPECIFICATION FairSpec
CONSTANTS
    Instances = {i1, i2}
    MaxId = 2
    DrainLimit = 2
    MaxFailures = 2
INVARIANTS
    UnreadKept
PROPERTIES
    EveryPhoneTold
CHECK_DEADLOCK FALSE
