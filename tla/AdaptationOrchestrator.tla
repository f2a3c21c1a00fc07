----------------------- MODULE AdaptationOrchestrator -----------------------
(***************************************************************************)
(* backend/app/adaptation_orchestrator.py and the endpoints that reach it. *)
(* Two orchestrators share one RuntimeController and one                   *)
(* MigrationController: ADAPTATION (main.py, "v1", no data plane) and      *)
(* ADAPTATION_V2 (advanced_api.py, "v2", with the artifact router).  Each  *)
(* has its own RLock.  Endpoints are served by threads of a pool, so the   *)
(* controllers' methods, atomic each, interleave between any two calls of  *)
(* an orchestrator operation: a thread takes one step per controller call. *)
(***************************************************************************)
EXTENDS RuntimeController, MigrationController, ArtifactRouter

CONSTANTS
    Threads,        \* request threads inside an orchestrator operation
    Orchestrators,  \* subset of {"v1", "v2"}
    Endpoints,      \* the endpoints that clients of this instance use
    InjectFaults,   \* whether confirm and commit may raise after their mutation
    NoThread, NoCall

ASSUME OrchestratorsAssumption ==
    /\ Orchestrators \subseteq {"v1", "v2"}
    /\ NoThread \notin Threads
    /\ NoMigration \notin Migrations
    /\ Migrations \cup {NoMigration} \subseteq Origins

VARIABLES
    bound,          \* v2's _session_deployments; v1 can bind nothing
    lockHolder,     \* the thread inside each orchestrator's RLock
    call,           \* what each thread is doing, NoCall when idle
    reported        \* whether a caller got the RuntimeError of a failed compensation

controllers == <<session, migration, deployment, lease>>
orchestratorVars == <<controllers, bound, lockHolder, call, reported>>

Operations == {"plan", "bind", "stage", "commit", "abort", "rollback"}

\* The locals of an operation.  A migration's session, source and target
\* never change once planned, so only what can go stale is kept.
Calls ==
    [ op         : Operations,
      at         : {"begin", "runtime", "route", "binding", "check", "confirm", "record",
                    "pending", "undoRoute", "undoRuntime?", "undoRuntime", "undoRecord?",
                    "undoRecord", "verifyRuntime", "verifyRoute", "restore"},
      orch       : Orchestrators,
      session    : Sessions,
      migration  : Migrations \cup {NoMigration},
      deployment : Deployments \cup {NoDeployment},
      active     : OptCandidates,       \* of an earlier runtime.get
      pending    : OptCandidates,
      errors     : BOOLEAN ]            \* compensation_errors is not empty

ASSUME CallsAssumption == NoCall \notin Calls

OrchestratorTypeOK ==
    /\ RuntimeTypeOK /\ MigrationTypeOK /\ RouterTypeOK
    /\ bound \in [Sessions -> Deployments \cup {NoDeployment}]
    /\ lockHolder \in [Orchestrators -> Threads \cup {NoThread}]
    /\ call \in [Threads -> Calls \cup {NoCall}]
    /\ reported \in [Sessions -> BOOLEAN]

-----------------------------------------------------------------------------
At(t, op, label) == call[t] # NoCall /\ call[t].op = op /\ call[t].at = label
From(t) == migration[call[t].migration].from
To(t) == migration[call[t].migration].to
OwnMigration(t) == migration[call[t].migration].session = call[t].session

LockFree(t) == lockHolder[call[t].orch] = NoThread
Lock(t) == lockHolder' = [lockHolder EXCEPT ![call[t].orch] = t]

Goto(t, label) == call' = [call EXCEPT ![t].at = label]

\* Return or raise: either way the "with self._lock" block is left.
Leave(t) ==
    /\ call' = [call EXCEPT ![t] = NoCall]
    /\ lockHolder' = [o \in Orchestrators |->
                          IF lockHolder[o] = t THEN NoThread ELSE lockHolder[o]]

\* deployment_for_session: ADAPTATION has no data plane and no bindings.
DeploymentFor(t) == IF call[t].orch = "v2" THEN bound[call[t].session] ELSE NoDeployment

-----------------------------------------------------------------------------
(* A request enters an operation.  An unknown id raises at once (404) and   *)
(* is not a call here; plan names a migration id that may be new.           *)

Enter(t, o, op, s, m) ==
    /\ call[t] = NoCall
    /\ op \in Endpoints
    /\ Started(s)
    /\ op \in {"bind", "stage"} => o = "v2"
    /\ call' = [call EXCEPT ![t] =
           [ op |-> op, at |-> "begin", orch |-> o, session |-> s, migration |-> m,
             deployment |-> NoDeployment, active |-> NoCandidate,
             pending |-> NoCandidate, errors |-> FALSE ]]
    /\ UNCHANGED <<controllers, bound, reported, lockHolder>>

Request(t) ==
    \E o \in Orchestrators, s \in Sessions :
        \/ Enter(t, o, "bind", s, NoMigration)
        \/ \E m \in Migrations : Enter(t, o, "plan", s, m)
        \/ \E m \in Migrations : Planned(m) /\ migration[m].session = s /\ Enter(t, o, "stage", s, m)
        \/ \E m \in Migrations, op \in {"commit", "abort", "rollback"} :
               Planned(m) /\ Enter(t, o, op, s, m)

(* plan_pending: runtime.get, then migrations.plan, under no common lock. *)

\* Seeded fault: a session without a recommendation is planned for.
PlanRead_NoPendingCheck(t) ==
    /\ At(t, "plan", "begin")
    /\ call' = [call EXCEPT ![t].at = "record",
                            ![t].active = session[call[t].session].active,
                            ![t].pending = session[call[t].session].pendingCandidate]
    /\ UNCHANGED <<controllers, bound, reported, lockHolder>>

PlanRead(t) ==
    /\ At(t, "plan", "begin")
    /\ LET r == session[call[t].session] IN
       IF r.pendingCandidate = NoCandidate
       THEN Leave(t)
       ELSE /\ call' = [call EXCEPT ![t].at = "record",
                                    ![t].active = r.active,
                                    ![t].pending = r.pendingCandidate]
            /\ UNCHANGED lockHolder
    /\ UNCHANGED <<controllers, bound, reported>>

PlanRecord(t) ==
    /\ At(t, "plan", "record")
    /\ LET c == call[t] IN
       \/ Plan(c.migration, c.session, c.active, c.pending)
       \/ ~PlanOk(c.migration, c.active, c.pending) /\ UNCHANGED migration
    /\ Leave(t)
    /\ UNCHANGED <<session, routerVars, bound, reported>>

(* bind_deployment: only the final write is under the lock. *)

BindRead(t) ==
    /\ At(t, "bind", "begin")
    /\ call' = [call EXCEPT ![t].at = "check",
                            ![t].active = session[call[t].session].active]
    /\ UNCHANGED <<controllers, bound, reported, lockHolder>>

BindCheck(t, d) ==
    /\ At(t, "bind", "check")
    /\ Deployed(d)
    /\ IF Active(d).candidate = call[t].active
       THEN /\ call' = [call EXCEPT ![t].at = "binding", ![t].deployment = d]
            /\ UNCHANGED lockHolder
       ELSE Leave(t)
    /\ UNCHANGED <<controllers, bound, reported>>

BindWrite(t) ==
    /\ At(t, "bind", "binding")
    /\ LockFree(t)
    /\ bound' = [bound EXCEPT ![call[t].session] = call[t].deployment]
    /\ Leave(t)
    /\ UNCHANGED <<controllers, reported>>

(* stage_verified_migration: the state is checked on an earlier read. *)

\* Seeded fault: staging does not wait for the verification.
StageRead_AnyState(t) ==
    /\ At(t, "stage", "begin")
    /\ IF migration[call[t].migration].artifact # NoArtifact
       THEN Goto(t, "binding") /\ UNCHANGED lockHolder
       ELSE Leave(t)
    /\ UNCHANGED <<controllers, bound, reported>>

StageRead(t) ==
    /\ At(t, "stage", "begin")
    /\ IF PassedGates(call[t].migration) /\ InState(call[t].migration, "VERIFIED")
       THEN Goto(t, "binding") /\ UNCHANGED lockHolder
       ELSE Leave(t)
    /\ UNCHANGED <<controllers, bound, reported>>

StageBinding(t) ==
    /\ At(t, "stage", "binding")
    /\ LockFree(t)
    /\ LET d == bound[migration[call[t].migration].session] IN
       IF d = NoDeployment
       THEN Leave(t)
       ELSE /\ call' = [call EXCEPT ![t].at = "route", ![t].deployment = d]
            /\ UNCHANGED lockHolder
    /\ UNCHANGED <<controllers, bound, reported>>

StageRoute(t) ==
    /\ At(t, "stage", "route")
    /\ LET c == call[t]
           r == migration[c.migration] IN
       \/ Stage(c.deployment, r.to, r.artifact, r.manifest, c.migration)
       \/ ~StageOk(c.deployment, r.to) /\ UNCHANGED routerVars
    /\ Leave(t)
    /\ UNCHANGED <<session, migration, bound, reported>>

(***************************************************************************)
(* authorize_commit, all of it under the orchestrator's own lock.          *)
(***************************************************************************)

\* Seeded fault: the orchestrator's lock is not taken.
CommitBegin_NoLock(t) ==
    /\ At(t, "commit", "begin")
    /\ IF OwnMigration(t) /\ InState(call[t].migration, "VERIFIED")
       THEN Goto(t, "runtime") /\ UNCHANGED lockHolder
       ELSE Leave(t)
    /\ UNCHANGED <<controllers, bound, reported>>

CommitBegin(t) ==
    /\ At(t, "commit", "begin")
    /\ LockFree(t)
    /\ IF OwnMigration(t) /\ InState(call[t].migration, "VERIFIED")
       THEN Lock(t) /\ Goto(t, "runtime")
       ELSE Leave(t)
    /\ UNCHANGED <<controllers, bound, reported>>

CommitCheckRuntime(t) ==
    /\ At(t, "commit", "runtime")
    /\ LET r == session[call[t].session] IN
       IF r.pendingCandidate = To(t) /\ r.active = From(t)
       THEN /\ call' = [call EXCEPT
                   ![t].deployment = DeploymentFor(t),
                   ![t].at = IF DeploymentFor(t) = NoDeployment THEN "confirm" ELSE "route"]
            /\ UNCHANGED lockHolder
       ELSE Leave(t)
    /\ UNCHANGED <<controllers, bound, reported>>

\* Seeded fault: a refused activation leaves with the lock held.
CommitRoute_KeepsLock(t) ==
    /\ At(t, "commit", "route")
    /\ LET d == call[t].deployment IN
       \/ /\ Activate(d, From(t), To(t))
          /\ Goto(t, "confirm")
       \/ /\ ~ActivateOk(d, From(t), To(t))
          /\ call' = [call EXCEPT ![t] = NoCall]
          /\ UNCHANGED routerVars
    /\ UNCHANGED <<session, migration, bound, reported, lockHolder>>

CommitRoute(t) ==
    /\ At(t, "commit", "route")
    /\ LET d == call[t].deployment IN
       \/ /\ Activate(d, From(t), To(t))
          /\ Goto(t, "confirm")
          /\ UNCHANGED lockHolder
       \/ /\ ~ActivateOk(d, From(t), To(t))
          /\ Leave(t)
          /\ UNCHANGED routerVars
    /\ UNCHANGED <<session, migration, bound, reported>>

\* Seeded fault: a refused confirmation is not compensated.
CommitConfirm_OutsideTry(t) ==
    /\ At(t, "commit", "confirm")
    /\ LET s == call[t].session IN
       \/ Confirm(s, To(t)) /\ Goto(t, "record") /\ UNCHANGED lockHolder
       \/ ~ConfirmOk(s, To(t)) /\ Leave(t) /\ UNCHANGED session
    /\ UNCHANGED <<migration, routerVars, bound, reported>>

\* Seeded fault: a refused confirmation is ignored.
CommitConfirm_Swallowed(t) ==
    /\ At(t, "commit", "confirm")
    /\ LET s == call[t].session IN
       Confirm(s, To(t)) \/ (~ConfirmOk(s, To(t)) /\ UNCHANGED session)
    /\ Goto(t, "record")
    /\ UNCHANGED <<migration, routerVars, bound, reported, lockHolder>>

\* With InjectFaults the call may raise after it has changed the session.
CommitConfirm(t) ==
    /\ At(t, "commit", "confirm")
    /\ LET s == call[t].session IN
       \/ /\ Confirm(s, To(t))
          /\ \/ Goto(t, "record")
             \/ InjectFaults /\ Goto(t, "undoRoute")
       \/ /\ ~ConfirmOk(s, To(t))
          /\ Goto(t, "undoRoute")
          /\ UNCHANGED session
    /\ UNCHANGED <<migration, routerVars, bound, reported, lockHolder>>

CommitRecord(t) ==
    /\ At(t, "commit", "record")
    /\ LET m == call[t].migration IN
       \/ /\ Commit(m)
          /\ \/ Leave(t)
             \/ InjectFaults /\ Goto(t, "undoRoute") /\ UNCHANGED lockHolder
       \/ /\ ~CommitOk(m)
          /\ Goto(t, "undoRoute")
          /\ UNCHANGED <<migration, lockHolder>>
    /\ UNCHANGED <<session, routerVars, bound, reported>>

(***************************************************************************)
(* _compensate_failed_commit.  The route changes only under the lock this  *)
(* thread holds, so reading it and rolling it back is one step; the        *)
(* session and the ledger can change between the read and the call.        *)
(***************************************************************************)

UndoRoute(t) ==
    /\ At(t, "commit", "undoRoute")
    /\ LET d == call[t].deployment IN
       IF d # NoDeployment /\ Active(d).candidate = To(t) /\ RollbackDepth(d) > 0
       THEN RouterRollback(d)
       ELSE UNCHANGED routerVars
    /\ Goto(t, "undoRuntime?")
    /\ UNCHANGED <<session, migration, bound, reported, lockHolder>>

UndoRuntimeNeeded(t) ==
    /\ At(t, "commit", "undoRuntime?")
    /\ LET r == session[call[t].session] IN
       Goto(t, IF r.active = To(t) /\ r.rollbackAvailable THEN "undoRuntime" ELSE "undoRecord?")
    /\ UNCHANGED <<controllers, bound, reported, lockHolder>>

UndoRuntime(t) ==
    /\ At(t, "commit", "undoRuntime")
    /\ LET s == call[t].session IN
       \/ RollbackLastSwitch(s) /\ Goto(t, "undoRecord?")
       \/ /\ ~RollbackLastSwitchOk(s)
          /\ call' = [call EXCEPT ![t].at = "undoRecord?", ![t].errors = TRUE]
          /\ UNCHANGED session
    /\ UNCHANGED <<migration, routerVars, bound, reported, lockHolder>>

\* Seeded fault: the ledger is left out of the compensation.
UndoRecordNeeded_Never(t) ==
    /\ At(t, "commit", "undoRecord?")
    /\ Goto(t, "verifyRuntime")
    /\ UNCHANGED <<controllers, bound, reported, lockHolder>>

UndoRecordNeeded(t) ==
    /\ At(t, "commit", "undoRecord?")
    /\ Goto(t, IF InState(call[t].migration, "COMMITTED") THEN "undoRecord" ELSE "verifyRuntime")
    /\ UNCHANGED <<controllers, bound, reported, lockHolder>>

UndoRecord(t) ==
    /\ At(t, "commit", "undoRecord")
    /\ LET m == call[t].migration IN
       \/ MigrationRollback(m) /\ Goto(t, "verifyRuntime")
       \/ /\ ~MigrationRollbackOk(m)
          /\ call' = [call EXCEPT ![t].at = "verifyRuntime", ![t].errors = TRUE]
          /\ UNCHANGED migration
    /\ UNCHANGED <<session, routerVars, bound, reported, lockHolder>>

VerifyRuntime(t) ==
    /\ At(t, "commit", "verifyRuntime")
    /\ call' = [call EXCEPT ![t].at = "verifyRoute",
                            ![t].errors = @ \/ session[call[t].session].active # From(t)]
    /\ UNCHANGED <<controllers, bound, reported, lockHolder>>

RouteRestored(t) ==
    LET d == call[t].deployment IN
    d # NoDeployment => Active(d).candidate = From(t)

\* The original exception, or the RuntimeError that says the source
\* candidate was not restored.
VerifyRoute(t) ==
    /\ At(t, "commit", "verifyRoute")
    /\ Leave(t)
    /\ reported' = [reported EXCEPT ![call[t].session] =
                       @ \/ call[t].errors \/ ~RouteRestored(t)]
    /\ UNCHANGED <<controllers, bound>>

(***************************************************************************)
(* abort: no lock is held from one controller call to the next.            *)
(***************************************************************************)

AbortBegin(t) ==
    /\ At(t, "abort", "begin")
    /\ IF OwnMigration(t)
       THEN Goto(t, "binding") /\ UNCHANGED lockHolder
       ELSE Leave(t)
    /\ UNCHANGED <<controllers, bound, reported>>

\* deployment_for_session waits for the lock and gives it back.
AbortBinding(t) ==
    /\ At(t, "abort", "binding")
    /\ LockFree(t)
    /\ call' = [call EXCEPT
           ![t].deployment = DeploymentFor(t),
           ![t].at = IF DeploymentFor(t) = NoDeployment THEN "record" ELSE "check"]
    /\ UNCHANGED <<controllers, bound, reported, lockHolder>>

AbortCheckStaged(t) ==
    /\ At(t, "abort", "check")
    /\ LET staged == Staged(call[t].deployment) IN
       Goto(t, IF staged # NoVersion /\ staged.candidate = To(t) THEN "route" ELSE "record")
    /\ UNCHANGED <<controllers, bound, reported, lockHolder>>

AbortRoute(t) ==
    /\ At(t, "abort", "route")
    /\ LET d == call[t].deployment IN
       \/ AbortStaged(d) /\ Goto(t, "record") /\ UNCHANGED lockHolder
       \/ ~AbortStagedOk(d) /\ Leave(t) /\ UNCHANGED routerVars
    /\ UNCHANGED <<session, migration, bound, reported>>

AbortRecord(t) ==
    /\ At(t, "abort", "record")
    /\ LET m == call[t].migration IN
       \/ Abort(m) /\ Goto(t, "pending") /\ UNCHANGED lockHolder
       \/ ~AbortOk(m) /\ Leave(t) /\ UNCHANGED migration
    /\ UNCHANGED <<session, routerVars, bound, reported>>

AbortClearPending(t) ==
    /\ At(t, "abort", "pending")
    /\ AbortPending(call[t].session)
    /\ Leave(t)
    /\ UNCHANGED <<migration, routerVars, bound, reported>>

(***************************************************************************)
(* rollback, all of it under the orchestrator's own lock.  Three checks on *)
(* three controllers, then three mutations without compensation.  As in    *)
(* UndoRoute, checking the route and rolling it back is one step.          *)
(***************************************************************************)

RollbackBegin(t) ==
    /\ At(t, "rollback", "begin")
    /\ LockFree(t)
    /\ IF OwnMigration(t) /\ InState(call[t].migration, "COMMITTED")
       THEN Lock(t) /\ Goto(t, "runtime")
       ELSE Leave(t)
    /\ UNCHANGED <<controllers, bound, reported>>

RollbackCheckRuntime(t) ==
    /\ At(t, "rollback", "runtime")
    /\ LET r == session[call[t].session] IN
       IF r.active = To(t) /\ r.rollbackAvailable
       THEN /\ call' = [call EXCEPT
                   ![t].deployment = DeploymentFor(t),
                   ![t].at = IF DeploymentFor(t) = NoDeployment THEN "restore" ELSE "route"]
            /\ UNCHANGED lockHolder
       ELSE Leave(t)
    /\ UNCHANGED <<controllers, bound, reported>>

\* Seeded fault: the route is checked but not rolled back.
RollbackRoute_OnlyChecks(t) ==
    /\ At(t, "rollback", "route")
    /\ LET d == call[t].deployment IN
       IF Active(d).candidate = To(t) /\ RollbackDepth(d) >= 1
       THEN Goto(t, "restore") /\ UNCHANGED lockHolder
       ELSE Leave(t)
    /\ UNCHANGED <<controllers, bound, reported>>

RollbackRoute(t) ==
    /\ At(t, "rollback", "route")
    /\ LET d == call[t].deployment
           checked == Active(d).candidate = To(t) /\ RollbackDepth(d) >= 1 IN
       \/ checked /\ RouterRollback(d) /\ Goto(t, "restore") /\ UNCHANGED lockHolder
       \/ ~checked /\ Leave(t) /\ UNCHANGED routerVars
    /\ UNCHANGED <<session, migration, bound, reported>>

RollbackRuntime(t) ==
    /\ At(t, "rollback", "restore")
    /\ LET s == call[t].session IN
       \/ RollbackLastSwitch(s) /\ Goto(t, "record") /\ UNCHANGED lockHolder
       \/ ~RollbackLastSwitchOk(s) /\ Leave(t) /\ UNCHANGED session
    /\ UNCHANGED <<migration, routerVars, bound, reported>>

RollbackRecord(t) ==
    /\ At(t, "rollback", "record")
    /\ LET m == call[t].migration IN
       \/ MigrationRollback(m)
       \/ ~MigrationRollbackOk(m) /\ UNCHANGED migration
    /\ Leave(t)
    /\ UNCHANGED <<session, routerVars, bound, reported>>

-----------------------------------------------------------------------------
(* Endpoints that make one controller call are one step. *)

DirectRuntime(s) ==
    /\ \/ /\ "start" \in Endpoints
          /\ \E candidate \in Candidates, baseline \in Snapshots, cooldown \in Cooldowns :
                 Start(s, candidate, baseline, cooldown)
       \/ /\ "observe" \in Endpoints
          /\ \E snapshot \in Snapshots, alternative \in Candidates, pays \in BOOLEAN :
                 Observe(s, snapshot, alternative, pays)
       \/ /\ "runtime confirm" \in Endpoints
          /\ \E candidate \in Candidates : Confirm(s, candidate)
       \/ "runtime rollback" \in Endpoints /\ RollbackLastSwitch(s)
       \/ "runtime abort" \in Endpoints /\ AbortPending(s)
    /\ UNCHANGED <<migration, routerVars, bound, reported, lockHolder, call>>

DirectMigration(m) ==
    /\ \/ "shadow" \in Endpoints /\ \E artifact \in Artifacts : ShadowBuilt(m, artifact)
       \/ /\ "verify" \in Endpoints
          /\ \E compiles, correct \in BOOLEAN, manifest \in Manifests :
                 Verify(m, compiles, correct, manifest)
    /\ UNCHANGED <<session, routerVars, bound, reported, lockHolder, call>>

DirectRouter(d) ==
    /\ "bootstrap" \in Endpoints
    /\ \E candidate \in Candidates, artifact \in Artifacts,
          manifest \in Manifests \cup {NoManifest} :
           Bootstrap(d, candidate, artifact, manifest, NoMigration)
    /\ UNCHANGED <<session, migration, bound, reported, lockHolder, call>>

-----------------------------------------------------------------------------
OrchestratorInit ==
    /\ RuntimeInit /\ MigrationInit /\ RouterInit
    /\ bound = [s \in Sessions |-> NoDeployment]
    /\ lockHolder = [o \in Orchestrators |-> NoThread]
    /\ call = [t \in Threads |-> NoCall]
    /\ reported = [s \in Sessions |-> FALSE]

Step(t) ==
    \/ PlanRead(t) \/ PlanRecord(t)
    \/ BindRead(t) \/ (\E d \in Deployments : BindCheck(t, d)) \/ BindWrite(t)
    \/ StageRead(t) \/ StageBinding(t) \/ StageRoute(t)
    \/ CommitBegin(t) \/ CommitCheckRuntime(t) \/ CommitRoute(t)
    \/ CommitConfirm(t) \/ CommitRecord(t)
    \/ UndoRoute(t) \/ UndoRuntimeNeeded(t) \/ UndoRuntime(t)
    \/ UndoRecordNeeded(t) \/ UndoRecord(t) \/ VerifyRuntime(t) \/ VerifyRoute(t)
    \/ AbortBegin(t) \/ AbortBinding(t) \/ AbortCheckStaged(t)
    \/ AbortRoute(t) \/ AbortRecord(t) \/ AbortClearPending(t)
    \/ RollbackBegin(t) \/ RollbackCheckRuntime(t) \/ RollbackRoute(t)
    \/ RollbackRuntime(t) \/ RollbackRecord(t)

OrchestratorNext ==
    \/ \E t \in Threads : Request(t) \/ Step(t)
    \/ \E s \in Sessions : DirectRuntime(s)
    \/ \E m \in Migrations : DirectMigration(m)
    \/ \E d \in Deployments : DirectRouter(d)

OrchestratorSpec == OrchestratorInit /\ [][OrchestratorNext]_orchestratorVars

\* A started thread runs on; nothing makes clients send requests, and an
\* RLock promises no order among its waiters.
FairOrchestratorSpec == OrchestratorSpec /\ \A t \in Threads : WF_orchestratorVars(Step(t))

-----------------------------------------------------------------------------
(* Properties *)

RoutedVersions(d) ==
    {Active(d), Staged(d)} \cup
    {deployment[d].rollbackStack[i] : i \in 1 .. RollbackDepth(d)}

(***************************************************************************)
(* Whatever endpoints race, no reader is or can be routed to an artifact   *)
(* of a migration that did not pass both gates: each version that an       *)
(* orchestrator staged carries the artifact, manifest and target that its  *)
(* migration was verified with, though the gate is checked on a stale read *)
(* and the migration may be aborted since.                                 *)
(***************************************************************************)
RoutedPassedGates ==
    \A d \in Deployments : Deployed(d) =>
        \A v \in RoutedVersions(d) :
            v # NoVersion /\ v.origin # NoMigration =>
                /\ PassedGates(v.origin)
                /\ v.artifact = migration[v.origin].artifact
                /\ v.manifest = migration[v.origin].manifest
                /\ v.candidate = migration[v.origin].to

Together(s, candidate) ==
    /\ session[s].active = candidate
    /\ bound[s] # NoDeployment => Active(bound[s]).candidate = candidate

Becomes(m, state) == ~InState(m, state) /\ InState(m, state)'

(***************************************************************************)
(* A migration is recorded COMMITTED only at a moment when the session     *)
(* runs its target and the bound deployment routes to it.  (The docstring  *)
(* of authorize_commit: no migration is left COMMITTED "while the runtime  *)
(* has actually returned to the old candidate".)                           *)
(***************************************************************************)
CommittedTogether ==
    [][\A m \in Migrations :
          Becomes(m, "COMMITTED") => Together(migration[m].session, migration[m].to)]_orchestratorVars

\* A rollback request is recorded ROLLED_BACK only when the session and its
\* deployment have gone back to one and the same candidate.
RolledBackTogether ==
    [][\A t \in Threads, m \in Migrations :
          At(t, "rollback", "record") /\ m = call[t].migration /\ Becomes(m, "ROLLED_BACK") =>
              LET s == call[t].session IN Together(s, session[s].active)]_orchestratorVars

(***************************************************************************)
(* The session and its deployment may disagree while a commit is under     *)
(* way, or after a compensation that failed; but then a caller was told.   *)
(***************************************************************************)
SplitIsReported ==
    \A s \in Sessions :
        \/ reported[s]
        \/ \E t \in Threads : call[t] # NoCall /\ call[t].op \in {"commit", "rollback"}
        \/ Started(s) => Together(s, session[s].active)

(***************************************************************************)
(* A commit that fails after it has changed anything, and ends with the    *)
(* original exception, has put the session and the route back on the       *)
(* source candidate and does not leave the migration COMMITTED.            *)
(***************************************************************************)
FailedCommitRestores ==
    [][\A t \in Threads :
          At(t, "commit", "verifyRoute") /\ ~At(t, "commit", "verifyRoute")'
              /\ ~reported'[call[t].session] =>
                  /\ Together(call[t].session, From(t))
                  /\ ~InState(call[t].migration, "COMMITTED")]_orchestratorVars

(***************************************************************************)
(* "All local preconditions are checked before the first mutation": once   *)
(* its checks have passed, a rollback is not rejected half way.            *)
(***************************************************************************)
RollbackChecksBeforeMutation ==
    [][\A t \in Threads :
          At(t, "rollback", "restore") /\ call'[t] # call[t] => At(t, "rollback", "record")']_orchestratorVars

(***************************************************************************)
(* A rollback uses the checkpoint that its own migration left: it puts the *)
(* session back on the candidate the ledger names as the one restored      *)
(* (rollback_candidate_id, which plan sets to the migration's source).     *)
(***************************************************************************)
RollbackRestoresSource ==
    [][\A t \in Threads, m \in Migrations :
          At(t, "rollback", "record") /\ m = call[t].migration /\ Becomes(m, "ROLLED_BACK") =>
              session[call[t].session].active = migration[m].from]_orchestratorVars

\* Every operation that takes an orchestrator's lock gives it back, on every
\* path through its checks, its failures and its compensation: no thread holds
\* a lock from some moment on.
LockIsReleased ==
    \A o \in Orchestrators, t \in Threads : []<>(lockHolder[o] # t)

=============================================================================
