SPECIFICATION FairSpec
CONSTANTS
    request = request
    maintenance = maintenance
    reaper = reaper
    dispatcher_id = dispatcher_id
    reaper_id = reaper_id
    LastEvent = 2
    Drains = {request, maintenance, reaper}
    Publishers = {dispatcher_id, reaper_id}
    PublisherOf <- MCPublisherOf
    DrainLimit = 2
    RecoveryBatch = 2
    Redis = TRUE
    MaxFaults = 3
    NoOwner = NoOwner
INVARIANTS
    OneConfirmer
    DuplicateOnlyAfterForget
PROPERTIES
    LiveClaimKept
    EveryEventPublished
    ChannelSpec
CHECK_DEADLOCK FALSE
