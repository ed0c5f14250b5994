SPECIFICATION FairSpec
CONSTANTS
    Instances = {c1, c2}
    Nobody = Nobody
    LeaseTTL = 2
    MaxGen = 3
    MaxWork = 2
CHECK_DEADLOCK FALSE

    
PROPERTIES
    ImplementsSingletonWork
    DeadOwnerReplaced
