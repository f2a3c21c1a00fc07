SPECIFICATION BoundSpec
CONSTANTS
    Home <- MCHome
    StartsOn <- MCStartsOn
    base = base
    baseManifest = mf
    mix = mix
    Split = Split
    Sessions = {s1}
    Candidates = {ca, cb}
    NoCandidate = NoCandidate
    Artifacts = {base}
    NoArtifact = NoArtifact
    Manifests = {mf}
    NoManifest = NoManifest
    Mixes = {mix}
    NoMix = NoMix
    DriftPairs <- MCDriftPairs
    SequenceNumbers = {0, 1, 2}
    Cooldowns <- MCCooldowns
    NoSession = NoSession
    NoSnapshot = NoSnapshot
    Migrations = {m1}
    NoMigration = NoMigration
    Deployments = {d1}
    Origins <- MCOrigins
    Generations <- MCGenerations
    Readers = {}
    NoDeployment = NoDeployment
    NoVersion = NoVersion
    Threads = {t1}
    Orchestrators = {"v2"}
    Endpoints = {"observe", "plan", "stage", "commit", "rollback", "shadow", "verify"}
    InjectFaults = FALSE
    NoThread = NoThread
    NoCall = NoCall
PROPERTIES
    RollbackChecksBeforeMutation
CHECK_DEADLOCK FALSE
