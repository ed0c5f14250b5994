SPECIFICATION Spec
CONSTANTS
    Instances = {i1, i2}
    MaxId = 2
    DrainLimit = 2
    MaxFailures = 1
INVARIANTS
    FailedDrainRetried
CHECK_DEADLOCK FALSE
