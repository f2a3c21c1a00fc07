---------------------- MODULE MCAdaptationOrchestrator ----------------------
(***************************************************************************)
(* Instances of the orchestrator.  One workload mix that always counts as  *)
(* drift (drift_threshold 0) and no cooldown: RuntimeController has its    *)
(* own runs for those, here they would only hide interleavings.            *)
(***************************************************************************)
EXTENDS AdaptationOrchestrator, TLC

CONSTANTS
    Home,       \* the deployment of each session, or NoDeployment
    StartsOn,   \* the candidate that each of these deployments starts on
    base, baseManifest, mix

\* No two sessions are bound to one deployment.  bind_deployment does not
\* refuse it, but then a commit of one session moves the route of the other.
Homes ==
    {home \in [Sessions -> Deployments \cup {NoDeployment}] :
        \A s, q \in Sessions : home[s] # NoDeployment /\ home[s] = home[q] => s = q}

ASSUME BoundAssumption ==
    /\ Home \in Homes
    /\ StartsOn \in [Deployments -> Candidates]
    /\ base \in Artifacts /\ baseManifest \in Manifests
    /\ mix \in Mixes /\ 0 \in SequenceNumbers /\ 0 \in Cooldowns
    /\ NoDeployment \notin Deployments

MCHome == CHOOSE home \in Homes : \A s \in Sessions : home[s] # NoDeployment
MCStartsOn == [d \in Deployments |-> CHOOSE c \in Candidates : TRUE]
MCDriftPairs == {<<mix, mix>>}
MCOrigins == Migrations \cup {NoMigration}
MCGenerations == 1 .. 12
MCCooldowns == {0}
MCSymmetry == Permutations(Threads) \cup Permutations(Migrations)

\* As after start, bootstrap and bind: every session that has a home runs on
\* the candidate of its deployment.
BoundInit ==
    /\ session = [s \in Sessions |->
           IF Home[s] # NoDeployment
           THEN NewSession(StartsOn[Home[s]], [sequence |-> 0, mix |-> mix], 0)
           ELSE NoSession]
    /\ deployment = [d \in Deployments |->
           IF \E s \in Sessions : Home[s] = d
           THEN [ active |-> [ generation |-> 1, candidate |-> StartsOn[d], artifact |-> base,
                               manifest |-> baseManifest, origin |-> NoMigration ],
                  staged |-> NoVersion, rollbackStack |-> <<>> ]
           ELSE NoDeployment]
    /\ lease = [reader \in Readers |-> [d \in Deployments |-> NoVersion]]
    /\ MigrationInit
    /\ bound = Home
    /\ lockHolder = [o \in Orchestrators |-> NoThread]
    /\ call = [t \in Threads |-> NoCall]
    /\ reported = [s \in Sessions |-> FALSE]

BoundSpec == BoundInit /\ [][OrchestratorNext]_orchestratorVars

-----------------------------------------------------------------------------
(***************************************************************************)
(* The refinement mapping.  A commit takes effect when the ledger records  *)
(* it: while one is in flight past its checks, the session and the route   *)
(* still count as being on the source, and the ledger entry as open.       *)
(***************************************************************************)
CONSTANT Split

InFlight(t) ==
    /\ call[t] # NoCall
    /\ call[t].op = "commit"
    /\ call[t].at \in {"confirm", "record", "undoRoute", "undoRuntime?", "undoRuntime",
                       "undoRecord?", "undoRecord", "verifyRuntime", "verifyRoute"}

CommitsOf(s) == {t \in Threads : InFlight(t) /\ call[t].session = s}
SourceOf(s) == From(CHOOSE t \in CommitsOf(s) : TRUE)

CurrentOf(s) ==
    IF reported[s] THEN Split
    ELSE IF CommitsOf(s) # {} THEN SourceOf(s)
    ELSE IF Started(s) THEN session[s].active ELSE NoCandidate

Settling(d) == {s \in Sessions : bound[s] = d /\ ~reported[s] /\ CommitsOf(s) # {}}

RoutedOf(d) ==
    IF Settling(d) # {} THEN SourceOf(CHOOSE s \in Settling(d) : TRUE)
    ELSE IF Deployed(d) THEN Active(d).candidate ELSE NoCandidate

Committing(m) == \E t \in Threads : InFlight(t) /\ call[t].migration = m

StateInLedger(state, committing) ==
    IF state \in {"PLANNED", "SHADOW_BUILT", "VERIFIED"} \/ (committing /\ state # "ABORTED")
    THEN "open"
    ELSE CASE state = "COMMITTED" -> "committed"
           [] state = "ROLLED_BACK" -> "rolledBack"
           [] state = "ABORTED" -> "aborted"

LedgerOf(m) ==
    IF ~Planned(m) THEN NoMigration
    ELSE [session |-> migration[m].session, from |-> migration[m].from,
          to |-> migration[m].to, state |-> StateInLedger(migration[m].state, Committing(m))]

Entries == [ session : Sessions, from : Candidates, to : Candidates,
             state : {"open", "committed", "rolledBack", "aborted"} ]

ASSUME EntriesAssumption == NoMigration \notin Entries

CurrentView == [s \in Sessions |-> CurrentOf(s)]
RoutedView == [d \in Deployments |-> RoutedOf(d)]
LedgerView == [m \in Migrations |-> LedgerOf(m)]

Abstract == INSTANCE AtomicAdaptation WITH
    current <- CurrentView, routed <- RoutedView, home <- bound, ledger <- LedgerView

(***************************************************************************)
(* Commits through the v2 orchestrator, aborts, observations and failures  *)
(* injected after a mutation included, appear to callers as atomic.        *)
(***************************************************************************)
CommitsAreAtomic == Abstract!Spec
=============================================================================
