SPECIFICATION OrchestratorSpec
CONSTANTS
    Home <- MCHome
    StartsOn <- MCStartsOn
    base = base
    baseManifest = mf
    mix = mix
    Split = Split
    Sessions = {s1}
    Candidates = {ca, cb}
    NoCandidate = NoCandidate
    Artifacts = {base, built}
    NoArtifact = NoArtifact
    Manifests = {mf}
    NoManifest = NoManifest
    Mixes = {mix}
    NoMix = NoMix
    DriftPairs <- MCDriftPairs
    SequenceNumbers = {0, 1}
    Cooldowns <- MCCooldowns
    NoSession = NoSession
    NoSnapshot = NoSnapshot
    Migrations = {m1}
    NoMigration = NoMigration
    Deployments = {d1}
    Origins <- MCOrigins
    Generations <- MCGenerations
    Readers = {}
    NoDeployment = NoDeployment
    NoVersion = NoVersion
    Threads = {t1, t2}
    Orchestrators = {"v1", "v2"}
    Endpoints = {"start", "observe", "runtime confirm", "runtime rollback", "runtime abort", "bootstrap", "bind", "plan", "stage", "commit", "abort", "rollback", "shadow", "verify"}
    InjectFaults = FALSE
    NoThread = NoThread
    NoCall = NoCall
SYMMETRY MCSymmetry
INVARIANTS
    OrchestratorTypeOK
    RoutedPassedGates
    GatesGuardCommit
PROPERTIES
    VerifiedEvidenceFrozen
CHECK_DEADLOCK FALSE
