SPECIFICATION FairSpec
CONSTANTS
    read = read
    Tasks = {read}
    Workers = {w1}
    Skills <- MCSkills
    SkillOf <- MCSkillOf
    CanRun <- MCCanRun
    RetrySafe <- MCSkills
    OptionalSkills = {}
    SingleAttempt = {}
    NativeTasks = {}
    Requests = {r1, r2}
    DefaultAttempts = 2
    LeaseTTL = 2
    MaxConcurrency = 1
    ClaimQuarantineBatch = 1
    QuarantineBatchSize = 1
    NoWorker = NoWorker
    NoTask = NoTask
    Asks = {a1}
    NoAsk = NoAsk
    PhoneOutcomes = {"completed"}
    ApprovalTTL = 2
    GrantTTL = 2
    MaxGrants = 2
PROPERTIES
    ImplementsAgentJobs
    EveryRequestEnds
    AbandonedLeaseResolved
    RevokedJobRetired
INVARIANTS
    OneEffectPerRequest
    EffectsUnderOneLease
    OneOpenRequestPerAsk
    OneOutcomePerRequest
