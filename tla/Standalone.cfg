SPECIFICATION StandaloneSpec
CONSTANTS
    Sessions = {s1}
    Candidates = {ca, cb, cc}
    NoCandidate = NoCandidate
    Artifacts = {x, y}
    NoArtifact = NoArtifact
    Manifests = {mf}
    NoManifest = NoManifest
    calm = calm
    busy = busy
    Mixes <- MCMixes
    NoMix = NoMix
    DriftPairs <- MCDriftPairs
    SequenceNumbers <- MCSequenceNumbers
    Cooldowns <- MCCooldowns
    NoSession = NoSession
    NoSnapshot = NoSnapshot
    Deployments = {d1}
    Origins = {client}
    Generations <- MCGenerations
    Readers = {p1, p2}
    NoDeployment = NoDeployment
    NoVersion = NoVersion
    Writers = {p1, p2}
    CandidateIds = {a, b}
    Layouts = {p, q}
    MaxGeneration = 5
    Handlers = {p1, p2}
    Methods = {get, post}
    Paths = {one, two, other}
    OtherPath = other
    MaxRouteKeys = 2
    MaxRequests = 5
    NoRoute = NoRoute
    Processes = {p1, p2}
    Bundles = {g1, g2}
    NoBundle = NoBundle
    MaxSequence = 2
    MaxFence = 2
    NoReceipt = NoReceipt
    Callers = {p1, p2}
    PairReaders = {o1}
    MaxCounter = 2
    Mutations = {g1, g2}
    FenceOnly = FenceOnly
    NoRow = NoRow
    NoCaller = NoCaller
    Recoverers = {p1, p2}
    NoRecoverer = NoRecoverer
    Checkpoints = {g1, g2}
    MaxLineage = 2
    Keys = {k1}
    Digests = {g1, g2}
    Reasons = {y1}
    Runs = {g1, g2}
    Threads = {p1, p2}
    Operators = {o1}
    MaxEntries = 4
    Owners <- MCOwners
    Subjects <- MCSubjects
    Facts <- MCFacts
    Responses <- MCResponses
    NoRecord = NoRecord
    NoResponse = NoResponse
    NoResolution = NoResolution
    NoRun = NoRun
    NoCall = NoCall
SYMMETRY MCSymmetry
INVARIANTS
    ComponentsTypeOK
    PendingStillJustified
    CheckpointPrecedesSwitch
    StagedIsSuccessor
    StackIsHistory
    GenerationNamesVersion
    DerivedFromPredecessor
    MetricsAddUp
    HandoverTypeOK
    AdvancesAreKept
    OneRestartPerGeneration
    BracketWasCurrent
    GenerationAppliedOnce
    RowsMoveTogether
    AdvancedHeadsAreKept
    PilotTypeOK
    DuplicatesAreAuthorized
    AnswersAgree
    ReplayedRunIsCertified
PROPERTIES
    SwitchesOutsideCooldown
    UndoesOwnPublication
    OwnershipIsContinuous
    AuthorizedBeforeResolved
    ResolvedStaysBlocked
CHECK_DEADLOCK FALSE
