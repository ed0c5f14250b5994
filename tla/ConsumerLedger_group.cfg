SPECIFICATION FairSpec
CONSTANTS
    c1 = c1
    c2 = c2
    c3 = c3
    shared = shared
    other = other
    LastEvent = 2
    Consumers = {c1, c2, c3}
    Identities = {shared, other}
    IdentityOf <- MCIdentityOf
    ClaimLimit = 2
    MaxAttempts = 2
    NoOwner = NoOwner
INVARIANTS
    CheckpointCountsHandled
PROPERTIES
    StaleClaimHarmless
    ImplementsBoundedDelivery
    EveryDeliveryEnds
CHECK_DEADLOCK FALSE
