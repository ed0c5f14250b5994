SPECIFICATION FairSpec
CONSTANTS
    read = read
    media = media
    swift = swift
    Tasks = {media}
    Workers = {w1, w2}
    Skills <- MCSkills
    SkillOf <- MCSkillOf
    CanRun <- MCCanRun
    RetrySafe <- MCRetrySafe
    OptionalSkills <- MCSkills
    SingleAttempt <- MCSingleAttempt
    NativeTasks <- MCNative
    Requests = {r1}
    DefaultAttempts = 2
    LeaseTTL = 1
    MaxConcurrency = 1
    ClaimQuarantineBatch = 1
    QuarantineBatchSize = 1
    NoWorker = NoWorker
    NoTask = NoTask
PROPERTIES
    RevokedJobRetired
