SPECIFICATION ThreadsSpec
CONSTANTS
    Home <- MCHome
    StartsOn <- MCStartsOn
    base = base
    baseManifest = mf
    mix = mix
    Split = Split
    Sessions = {s1}
    Candidates = {ca, cb}
    NoCandidate = NoCandidate
    Artifacts = {base}
    NoArtifact = NoArtifact
    Manifests = {mf}
    NoManifest = NoManifest
    Mixes = {mix}
    NoMix = NoMix
    DriftPairs <- MCDriftPairs
    SequenceNumbers = {0, 1, 2}
    Cooldowns <- MCCooldowns
    NoSession = NoSession
    NoSnapshot = NoSnapshot
    Migrations = {m1, m2}
    NoMigration = NoMigration
    Deployments = {d1}
    Origins <- MCOrigins
    Generations <- MCGenerations
    Readers = {}
    NoDeployment = NoDeployment
    NoVersion = NoVersion
    Threads = {t1, t2}
    Orchestrators = {"v2"}
    Endpoints = {"observe", "plan", "stage", "commit", "rollback", "shadow", "verify"}
    InjectFaults = TRUE
    NoThread = NoThread
    NoCall = NoCall
    Jobs = {t1, t2}
    Clients = {c1, c2}
    MaxWorkers = 1
    NoJob = NoJob
INVARIANTS
    JobTypeOK
    CancelReachesChild
    CancelDecides
    NoChildLeft
PROPERTIES
    EndIsFinal
    JobsEnd
    RolledBackTogether
    LockIsReleased
CHECK_DEADLOCK FALSE
