SPECIFICATION Spec
CONSTANTS
    read = read
    media = media
    swift = swift
    Tasks = {read, swift}
    Workers = {w1, w2}
    Skills <- MCSkills
    SkillOf <- MCSkillOf
    CanRun <- MCCanRun
    RetrySafe <- MCRetrySafe
    OptionalSkills = {}
    SingleAttempt <- MCSingleAttempt
    NativeTasks <- MCNative
    Requests = {r1}
    DefaultAttempts = 2
    LeaseTTL = 1
    MaxConcurrency = 1
    ClaimQuarantineBatch = 1
    QuarantineBatchSize = 1
    NoWorker = NoWorker
    NoTask = NoTask
SYMMETRY MCSymmetry
INVARIANTS
    SideEffectsHandedOutOnce
    CapabilityPinsLease
    StaleProofRejected
    NoStrandedJob
    DedupeKeyBindsOneEvent
    JobTaskCoherent
    OpenRequestHasLease
PROPERTIES
    ImplementsJobLifecycle
