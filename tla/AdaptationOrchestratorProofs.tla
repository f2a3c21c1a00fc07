-------------------- MODULE AdaptationOrchestratorProofs --------------------
(***************************************************************************)
(* What holds of the adaptation controllers together, for every number of  *)
(* sessions, migrations, deployments and threads.  First the migration     *)
(* ledger alone; then the orchestrators' steps, each of which is a step of *)
(* every controller or leaves it alone, so that the invariants of          *)
(* RuntimeControllerProofs, ArtifactRouterProofs and of the ledger carry   *)
(* over, and the versions that are routed keep their evidence; then the    *)
(* commit of the v2 orchestrator under its lock, and that it implements    *)
(* AtomicAdaptation; last its rollback, which restores the session and the *)
(* route from two histories that name the same candidate.                  *)
(***************************************************************************)
EXTENDS MCAdaptationOrchestrator, RuntimeControllerProofs, ArtifactRouterProofs

-----------------------------------------------------------------------------
(* The migration ledger. *)

\* The gates, as a property of one record.
EvidenceComplete(r) ==
    /\ r.compileVerified /\ r.correctnessVerified
    /\ r.artifact # NoArtifact /\ r.manifest # NoManifest

(***************************************************************************)
(* The inductive invariant of a record.  GatesGuardCommit alone is not     *)
(* inductive: a PLANNED record with both flags set and only the artifact   *)
(* missing would pass the gates by being built.                            *)
(***************************************************************************)
RecordGated(r) ==
    /\ r \in MigrationRecords
    /\ r.state \in {"VERIFIED", "COMMITTED", "ROLLED_BACK"} => EvidenceComplete(r)
    /\ r.state \in {"PLANNED", "SHADOW_BUILT"} => ~(r.compileVerified /\ r.correctnessVerified)
    /\ r.state = "SHADOW_BUILT" => r.artifact # NoArtifact

MigrationInv ==
    /\ MigrationTypeOK
    /\ \A m \in Migrations : Planned(m) => RecordGated(migration[m])

\* The strengthened invariant gives the two that the runs check.
LEMMA MigrationInvGates == MigrationInv => MigrationTypeOK /\ GatesGuardCommit
BY DEF MigrationInv, GatesGuardCommit, RecordGated, EvidenceComplete, PassedGates

\* Replacing one record by one that keeps its gates preserves the invariant.
LEMMA ReplaceRecord ==
    ASSUME MigrationInv, NEW m \in Migrations, NEW q, RecordGated(q),
           migration' = [migration EXCEPT ![m] = q]
    PROVE  MigrationInv'
<1>1. \A k \in Migrations : migration'[k] = IF k = m THEN q ELSE migration[k]
  BY DEF MigrationInv, MigrationTypeOK
<1>2. migration' \in [Migrations -> MigrationRecords \cup {NoMigration}]
  BY DEF MigrationInv, MigrationTypeOK, RecordGated
<1> QED BY <1>1, <1>2 DEF MigrationInv, MigrationTypeOK, Planned

\* A gated record is of its type and has its gates.
LEMMA GatedRecord ==
    ASSUME MigrationInv, NEW m \in Migrations, Planned(m)
    PROVE  RecordGated(migration[m]) /\ migration[m] \in MigrationRecords
BY DEF MigrationInv, RecordGated

-----------------------------------------------------------------------------
\* An empty ledger.
LEMMA MigrationInvInit == MigrationInit => MigrationInv
BY DEF MigrationInit, MigrationInv, MigrationTypeOK, Planned

\* plan: a fresh record with both flags unset.
LEMMA PlanInv ==
    ASSUME MigrationInv, NEW m \in Migrations, NEW s \in Sessions,
           NEW from \in Candidates, NEW to \in Candidates, Plan(m, s, from, to)
    PROVE  MigrationInv'
<1> DEFINE q == [ session |-> s, from |-> from, to |-> to, state |-> "PLANNED",
                  artifact |-> NoArtifact, manifest |-> NoManifest,
                  compileVerified |-> FALSE, correctnessVerified |-> FALSE ]
<1>1. RecordGated(q)
  BY DEF RecordGated, EvidenceComplete, MigrationRecords, MigrationStates
<1>2. migration' = [migration EXCEPT ![m] = q]
  BY DEF Plan
<1> QED BY <1>1, <1>2, ReplaceRecord

\* shadow_built: only the artifact and the state of a PLANNED record change.
LEMMA ShadowBuiltInv ==
    ASSUME MigrationInv, NEW m \in Migrations, NEW artifact \in Artifacts, ShadowBuilt(m, artifact)
    PROVE  MigrationInv'
<1> DEFINE r == migration[m]
           q == [r EXCEPT !.artifact = artifact, !.state = "SHADOW_BUILT"]
<1>1. r.state = "PLANNED" /\ RecordGated(r)
  BY GatedRecord DEF ShadowBuilt, InState
<1>2. migration' = [migration EXCEPT ![m] = q]
  BY DEF ShadowBuilt, MigrationInv, MigrationTypeOK
<1>3. q \in MigrationRecords
  BY <1>1 DEF RecordGated, MigrationRecords, MigrationStates
<1>4. RecordGated(q)
  BY <1>1, <1>3, NoArtifactAssumption DEF RecordGated, MigrationRecords
<1> QED BY <1>2, <1>4, ReplaceRecord

\* Both flags come from one call, and only together do they open the gate.
LEMMA VerifyInv ==
    ASSUME MigrationInv, NEW m \in Migrations, NEW compiles \in BOOLEAN, NEW correct \in BOOLEAN,
           NEW manifest \in Manifests, Verify(m, compiles, correct, manifest)
    PROVE  MigrationInv'
<1> DEFINE r == migration[m]
           q == Verified(r, compiles, correct, manifest)
<1>1. r.state = "SHADOW_BUILT" /\ RecordGated(r)
  BY GatedRecord DEF Verify, InState
<1>2. migration' = [migration EXCEPT ![m] = q]
  BY DEF Verify, MigrationInv, MigrationTypeOK
<1>3. q \in MigrationRecords
  BY <1>1 DEF Verified, RecordGated, MigrationRecords, MigrationStates
<1>4. /\ q.artifact = r.artifact /\ q.manifest = manifest
      /\ q.compileVerified = compiles /\ q.correctnessVerified = correct
      /\ q.state = IF compiles /\ correct THEN "VERIFIED" ELSE "SHADOW_BUILT"
  BY <1>1 DEF Verified, RecordGated, MigrationRecords
<1>5. r.artifact # NoArtifact /\ manifest # NoManifest
  BY <1>1, NoManifestAssumption DEF RecordGated
<1>6. RecordGated(q)
  BY <1>3, <1>4, <1>5 DEF RecordGated, EvidenceComplete
<1> QED BY <1>2, <1>6, ReplaceRecord

\* commit, rollback and abort change the state alone.
LEMMA MoveInv ==
    ASSUME MigrationInv, NEW m \in Migrations, NEW state,
           \/ CommitOk(m) /\ state = "COMMITTED"
           \/ MigrationRollbackOk(m) /\ state = "ROLLED_BACK"
           \/ AbortOk(m) /\ state = "ABORTED",
           migration' = [migration EXCEPT ![m].state = state]
    PROVE  MigrationInv'
<1> DEFINE r == migration[m]
           q == [r EXCEPT !.state = state]
<1>1. RecordGated(r) /\ r \in MigrationRecords
  BY GatedRecord DEF CommitOk, MigrationRollbackOk, AbortOk, InState
<1>2. migration' = [migration EXCEPT ![m] = q]
  BY DEF MigrationInv, MigrationTypeOK
<1>3. q \in MigrationRecords /\ q.state = state
  BY <1>1 DEF MigrationRecords, MigrationStates
<1>4. EvidenceComplete(q) <=> EvidenceComplete(r)
  BY <1>1 DEF EvidenceComplete, MigrationRecords
<1>5. state # "ABORTED" => EvidenceComplete(r)
  BY <1>1 DEF RecordGated, CommitOk, MigrationRollbackOk, InState
<1>6. RecordGated(q)
  BY <1>3, <1>4, <1>5 DEF RecordGated
<1> QED BY <1>2, <1>6, ReplaceRecord

\* Every method of MigrationController preserves the invariant.
LEMMA MigrationInvNext == MigrationInv /\ [MigrationNext]_migrationVars => MigrationInv'
<1> SUFFICES ASSUME MigrationInv, [MigrationNext]_migrationVars PROVE MigrationInv'
  OBVIOUS
<1>1. ASSUME NEW m \in Migrations, Commit(m) PROVE MigrationInv'
  BY <1>1, MoveInv DEF Commit
<1>2. ASSUME NEW m \in Migrations, MigrationRollback(m) PROVE MigrationInv'
  BY <1>2, MoveInv DEF MigrationRollback
<1>3. ASSUME NEW m \in Migrations, Abort(m) PROVE MigrationInv'
  BY <1>3, MoveInv DEF Abort
<1>4. CASE MigrationNext
  BY <1>1, <1>2, <1>3, <1>4, PlanInv, ShadowBuiltInv, VerifyInv, Zenon DEF MigrationNext
<1>5. CASE UNCHANGED migrationVars
  BY <1>5 DEF migrationVars, MigrationInv, MigrationTypeOK, Planned
<1> QED BY <1>4, <1>5

-----------------------------------------------------------------------------
\* The inductive invariant of the ledger (migration.py): GatesGuardCommit, with
\* the flags of a record that has not reached its gate known not to be both set.
THEOREM MigrationInvariant == MigrationSpec => []MigrationInv
BY MigrationInvInit, MigrationInvNext, PTL DEF MigrationSpec

(***************************************************************************)
(* No sequence of repeated, failed or aborted verifications leads to a     *)
(* commit without both gates passed on the artifact that was built.        *)
(***************************************************************************)
THEOREM GatesAreGuarded == MigrationSpec => []GatesGuardCommit
BY MigrationInvariant, MigrationInvGates, PTL

\* From the moment the gates have passed only the state moves, and forwards.
LEMMA StepFreezesEvidence ==
    ASSUME MigrationInv, [MigrationNext]_migrationVars, NEW k \in Migrations, PassedGates(k)
    PROVE  /\ EvidenceOf(k)' = EvidenceOf(k)
           /\ <<migration[k].state, migration'[k].state>> \in
                  {<<st, st>> : st \in MigrationStates} \cup
                  {<<"VERIFIED", "COMMITTED">>, <<"VERIFIED", "ABORTED">>,
                   <<"COMMITTED", "ROLLED_BACK">>}
<1>0. /\ MigrationTypeOK
      /\ RecordGated(migration[k]) /\ migration[k] \in MigrationRecords
      /\ migration[k].state \in MigrationStates \ {"PLANNED", "SHADOW_BUILT"}
  BY GatedRecord DEF MigrationInv, PassedGates, RecordGated, EvidenceComplete, MigrationRecords, MigrationStates
<1>1. CASE migration'[k] = migration[k]
  BY <1>0, <1>1 DEF EvidenceOf
\* A step that changes the record of k is a commit, a rollback or an abort.
<1>2. ASSUME migration'[k] # migration[k]
      PROVE  \E state \in MigrationStates :
                 /\ migration'[k] = [migration[k] EXCEPT !.state = state]
                 /\ \/ migration[k].state = "VERIFIED" /\ state \in {"COMMITTED", "ABORTED"}
                    \/ migration[k].state = "COMMITTED" /\ state = "ROLLED_BACK"
  <2>1. MigrationNext
    BY <1>2 DEF migrationVars
  <2>2. /\ \A s \in Sessions, from, to \in Candidates : ~Plan(k, s, from, to)
        /\ \A artifact \in Artifacts : ~ShadowBuilt(k, artifact)
        /\ \A compiles, correct \in BOOLEAN, manifest \in Manifests :
               ~Verify(k, compiles, correct, manifest)
    BY <1>0 DEF PassedGates, Plan, PlanOk, ShadowBuilt, Verify, InState
  <2>3. ASSUME NEW m \in Migrations, m # k PROVE
          /\ \A s \in Sessions, from, to \in Candidates : ~Plan(m, s, from, to)
          /\ \A artifact \in Artifacts : ~ShadowBuilt(m, artifact)
          /\ \A compiles, correct \in BOOLEAN, manifest \in Manifests :
                 ~Verify(m, compiles, correct, manifest)
          /\ ~Commit(m) /\ ~MigrationRollback(m) /\ ~Abort(m)
    BY <1>0, <1>2, <2>3
       DEF MigrationTypeOK, Plan, ShadowBuilt, Verify, Commit, MigrationRollback, Abort
  <2>4. Commit(k) \/ MigrationRollback(k) \/ Abort(k)
    BY <2>1, <2>2, <2>3, Zenon DEF MigrationNext
  <2>5. CASE Commit(k)
    BY <1>0, <2>5 DEF Commit, CommitOk, InState, MigrationTypeOK, MigrationStates
  <2>6. CASE MigrationRollback(k)
    BY <1>0, <2>6 DEF MigrationRollback, MigrationRollbackOk, InState, MigrationTypeOK, MigrationStates
  <2>7. CASE Abort(k)
    BY <1>0, <2>7 DEF Abort, AbortOk, MigrationTypeOK, MigrationStates
  <2> QED BY <2>4, <2>5, <2>6, <2>7
<1>3. CASE migration'[k] # migration[k]
  <2>1. PICK state \in MigrationStates :
            /\ migration'[k] = [migration[k] EXCEPT !.state = state]
            /\ \/ migration[k].state = "VERIFIED" /\ state \in {"COMMITTED", "ABORTED"}
               \/ migration[k].state = "COMMITTED" /\ state = "ROLLED_BACK"
    BY <1>2, <1>3
  <2>2. EvidenceOf(k)' = EvidenceOf(k)
    BY <1>0, <2>1 DEF EvidenceOf, MigrationRecords
  <2>3. migration'[k].state = state
    BY <1>0, <2>1 DEF MigrationRecords
  <2> QED BY <2>1, <2>2, <2>3
<1> QED BY <1>1, <1>3

(***************************************************************************)
(* What was verified is what is committed and rolled back: the evidence of *)
(* a migration whose gates have passed never changes again.                *)
(***************************************************************************)
THEOREM EvidenceIsFrozen == MigrationSpec => VerifiedEvidenceFrozen
<1>1. MigrationInv /\ [MigrationNext]_migrationVars =>
        [\A m \in Migrations : PassedGates(m) =>
            /\ EvidenceOf(m)' = EvidenceOf(m)
            /\ <<migration[m].state, migration'[m].state>> \in
                   {<<st, st>> : st \in MigrationStates} \cup
                   {<<"VERIFIED", "COMMITTED">>, <<"VERIFIED", "ABORTED">>,
                    <<"COMMITTED", "ROLLED_BACK">>}]_migrationVars
  BY StepFreezesEvidence
<1> QED BY <1>1, MigrationInvariant, PTL DEF MigrationSpec, VerifiedEvidenceFrozen

-----------------------------------------------------------------------------
(* The orchestrators. *)

(***************************************************************************)
(* What a thread's call relies on.  The gates are checked on a read that   *)
(* is stale when the version is staged; a migration that has passed them   *)
(* keeps its evidence, so what the read saw is still there.                *)
(***************************************************************************)
CallOK(c) ==
    /\ c \in Calls
    /\ Started(c.session)
    /\ c.op # "bind" => c.migration \in Migrations
    /\ c.op \in {"stage", "commit", "abort", "rollback"} => Planned(c.migration)
    /\ c.op = "plan" /\ c.at = "record" => c.active \in Candidates /\ c.pending \in Candidates
    /\ c.op # "bind" /\ c.at \in {"route", "check"} => c.deployment \in Deployments
    /\ c.op = "stage" /\ c.at \in {"binding", "route"} => PassedGates(c.migration)

CallsOK == \A t \in Threads : call[t] # NoCall => CallOK(call[t])

\* A version carries the evidence of the migration it comes from.
VersionGated(v) ==
    v # NoVersion /\ v.origin # NoMigration =>
        /\ v.origin \in Migrations
        /\ PassedGates(v.origin)
        /\ v.artifact = migration[v.origin].artifact
        /\ v.manifest = migration[v.origin].manifest
        /\ v.candidate = migration[v.origin].to

VersionsGated == \A d \in Deployments : Deployed(d) => \A v \in RoutedVersions(d) : VersionGated(v)

\* The orchestrators' own variables have their types.
OwnTypeOK ==
    /\ bound \in [Sessions -> Deployments \cup {NoDeployment}]
    /\ lockHolder \in [Orchestrators -> Threads \cup {NoThread}]
    /\ call \in [Threads -> Calls \cup {NoCall}]
    /\ reported \in [Sessions -> BOOLEAN]

(***************************************************************************)
(* The inductive invariant: the controllers' own, what the calls rely on,  *)
(* and the evidence of every version that is routed, staged or stacked.    *)
(***************************************************************************)
OrchestratorInv ==
    /\ RuntimeInv /\ MigrationInv /\ RouterInv
    /\ OwnTypeOK /\ CallsOK /\ VersionsGated

-----------------------------------------------------------------------------
(* What no step of a controller takes back. *)

\* A session that was started stays so.
LEMMA StartedStays ==
    ASSUME RuntimeInv, [RuntimeNext]_runtimeVars, NEW s \in Sessions, Started(s)
    PROVE  Started(s)'
<1>1. RuntimeTypeOK
  BY DEF RuntimeInv
<1>2. CASE session'[s] = session[s]
  BY <1>2 DEF Started
<1>3. ASSUME NEW q \in Sessions, NEW r \in SessionRecords, session' = [session EXCEPT ![q] = r]
      PROVE  Started(s)'
  BY <1>1, <1>3, NoSessionAssumption DEF Started, RuntimeTypeOK
<1>4. ASSUME NEW q \in Sessions, NEW candidate \in Candidates, NEW baseline \in Snapshots,
             NEW cooldown \in Cooldowns, Start(q, candidate, baseline, cooldown)
      PROVE  Started(s)'
  BY <1>3, <1>4, NewSessionInv DEF Start, RecordInv
<1>5. ASSUME NEW q \in Sessions, NEW snapshot \in Snapshots, NEW alternative \in Candidates,
             NEW pays \in BOOLEAN, Observe(q, snapshot, alternative, pays)
      PROVE  Started(s)'
  BY <1>3, <1>5, StartedRecord, ObservedInv DEF Observe, RecordInv
<1>6. ASSUME NEW q \in Sessions, NEW candidate \in Candidates, Confirm(q, candidate)
      PROVE  Started(s)'
  BY <1>3, <1>6, StartedRecord, ConfirmedInv DEF Confirm, ConfirmOk, RecordInv
<1>7. ASSUME NEW q \in Sessions, RollbackLastSwitch(q)
      PROVE  Started(s)'
  BY <1>3, <1>7, StartedRecord, RolledBackInv DEF RollbackLastSwitch, RollbackLastSwitchOk, RecordInv
<1>8. ASSUME NEW q \in Sessions, AbortPending(q)
      PROVE  Started(s)'
  <2> DEFINE r == [session[q] EXCEPT !.pendingCandidate = NoCandidate,
                                     !.pendingSnapshot = NoSnapshot]
  <2>1. session' = [session EXCEPT ![q] = r]
    BY <1>1, <1>8 DEF AbortPending, RuntimeTypeOK
  <2>2. RecordInv(r)
    BY <1>8, StartedRecord, AbortedInv DEF AbortPending
  <2>3. r \in SessionRecords
    BY <2>2 DEF RecordInv
  <2> QED BY <1>3, <2>1, <2>3
<1>9. CASE RuntimeNext
  BY <1>4, <1>5, <1>6, <1>7, <1>8, <1>9, Zenon DEF RuntimeNext
<1> QED BY <1>2, <1>9 DEF runtimeVars

\* What names a migration.
SameIdentity(r, q) == q.session = r.session /\ q.from = r.from /\ q.to = r.to

\* A planned migration stays so, and keeps its session, source and target.
LEMMA PlannedStays ==
    ASSUME MigrationInv, [MigrationNext]_migrationVars, NEW k \in Migrations, Planned(k)
    PROVE  Planned(k)' /\ SameIdentity(migration[k], migration'[k])
<1> DEFINE Stays == Planned(k)' /\ SameIdentity(migration[k], migration'[k])
<1>1. MigrationTypeOK /\ migration[k] \in MigrationRecords
  BY GatedRecord DEF MigrationInv
<1>2. CASE migration'[k] = migration[k]
  BY <1>2 DEF Planned, SameIdentity
<1>3. ASSUME NEW m \in Migrations, NEW r \in MigrationRecords, SameIdentity(migration[m], r),
             migration' = [migration EXCEPT ![m] = r]
      PROVE  Stays
  BY <1>1, <1>3, NoMigrationAssumption DEF Planned, MigrationTypeOK, SameIdentity
<1>4. ASSUME NEW m \in Migrations, NEW s \in Sessions, NEW from \in Candidates,
             NEW to \in Candidates, Plan(m, s, from, to)
      PROVE  Stays
  <2>1. m # k
    BY <1>4 DEF Plan, PlanOk
  <2> QED BY <1>1, <1>2, <1>4, <2>1 DEF Plan, MigrationTypeOK
<1>5. ASSUME NEW m \in Migrations, NEW artifact \in Artifacts, ShadowBuilt(m, artifact)
      PROVE  Stays
  <2> DEFINE r == [migration[m] EXCEPT !.artifact = artifact, !.state = "SHADOW_BUILT"]
  <2>1. migration[m] \in MigrationRecords
    BY <1>5, GatedRecord DEF ShadowBuilt, InState
  <2>2. r \in MigrationRecords /\ SameIdentity(migration[m], r)
    BY <2>1 DEF MigrationRecords, MigrationStates, SameIdentity
  <2>3. migration' = [migration EXCEPT ![m] = r]
    BY <1>1, <1>5 DEF ShadowBuilt, MigrationTypeOK
  <2> HIDE DEF r, Stays
  <2> QED BY <1>3, <2>2, <2>3
<1>6. ASSUME NEW m \in Migrations, NEW compiles \in BOOLEAN, NEW correct \in BOOLEAN,
             NEW manifest \in Manifests, Verify(m, compiles, correct, manifest)
      PROVE  Stays
  <2> DEFINE r == Verified(migration[m], compiles, correct, manifest)
  <2>1. migration[m] \in MigrationRecords
    BY <1>6, GatedRecord DEF Verify, InState
  <2>2. r \in MigrationRecords /\ SameIdentity(migration[m], r)
    BY <2>1 DEF Verified, MigrationRecords, MigrationStates, SameIdentity
  <2>3. migration' = [migration EXCEPT ![m] = r]
    BY <1>1, <1>6 DEF Verify, MigrationTypeOK
  <2> HIDE DEF r, Stays
  <2> QED BY <1>3, <2>2, <2>3
<1>7. ASSUME NEW m \in Migrations, NEW state \in MigrationStates, Planned(m),
             migration' = [migration EXCEPT ![m].state = state]
      PROVE  Stays
  <2> DEFINE r == [migration[m] EXCEPT !.state = state]
  <2>1. migration[m] \in MigrationRecords
    BY <1>7, GatedRecord
  <2>2. r \in MigrationRecords /\ SameIdentity(migration[m], r)
    BY <2>1 DEF MigrationRecords, SameIdentity
  <2>3. migration' = [migration EXCEPT ![m] = r]
    BY <1>1, <1>7 DEF MigrationTypeOK
  <2> HIDE DEF r, Stays
  <2> QED BY <1>3, <2>2, <2>3
<1>8. ASSUME NEW m \in Migrations, Commit(m) \/ MigrationRollback(m) \/ Abort(m)
      PROVE  Stays
  <2>1. Planned(m)
    BY <1>8 DEF Commit, CommitOk, MigrationRollback, MigrationRollbackOk, Abort, AbortOk, InState
  <2>2. {"COMMITTED", "ROLLED_BACK", "ABORTED"} \subseteq MigrationStates
    BY DEF MigrationStates
  <2> HIDE DEF Stays
  <2> QED BY <1>7, <1>8, <2>1, <2>2 DEF Commit, MigrationRollback, Abort
<1>9. CASE MigrationNext
  BY <1>4, <1>5, <1>6, <1>8, <1>9, Zenon DEF MigrationNext
<1> QED BY <1>2, <1>9 DEF migrationVars

\* A migration that has passed its gates stays so, with the same evidence.
LEMMA GatesStayPassed ==
    ASSUME MigrationInv, [MigrationNext]_migrationVars, NEW k \in Migrations, PassedGates(k)
    PROVE  /\ PassedGates(k)'
           /\ migration'[k].artifact = migration[k].artifact
           /\ migration'[k].manifest = migration[k].manifest
           /\ migration'[k].to = migration[k].to
<1>1. Planned(k) /\ Planned(k)' /\ migration'[k].to = migration[k].to
  BY PlannedStays DEF PassedGates, SameIdentity
<1>2. MigrationInv'
  BY MigrationInvNext
<1>3. migration[k] \in MigrationRecords /\ migration'[k] \in MigrationRecords
  BY <1>1, <1>2, GatedRecord DEF MigrationInv, MigrationTypeOK, Planned
<1>4. [migration'[k] EXCEPT !.state = "VERIFIED"] = [migration[k] EXCEPT !.state = "VERIFIED"]
  BY StepFreezesEvidence DEF EvidenceOf
<1>5. /\ migration'[k].artifact = migration[k].artifact
      /\ migration'[k].manifest = migration[k].manifest
      /\ migration'[k].compileVerified = migration[k].compileVerified
      /\ migration'[k].correctnessVerified = migration[k].correctnessVerified
  BY <1>3, <1>4 DEF MigrationRecords
<1> QED BY <1>1, <1>5 DEF PassedGates

\* What a call or a version relied on before a step holds after it.
LEMMA CallStaysOK ==
    ASSUME OrchestratorInv, [RuntimeNext]_runtimeVars, [MigrationNext]_migrationVars,
           NEW c, CallOK(c)
    PROVE  CallOK(c)'
<1>1. c \in Calls /\ c.session \in Sessions
  BY DEF CallOK, Calls
<1>2. Started(c.session)'
  BY <1>1, StartedStays DEF CallOK, OrchestratorInv
<1>3. ASSUME c.op \in {"stage", "commit", "abort", "rollback"} PROVE Planned(c.migration)'
  BY <1>3, PlannedStays DEF CallOK, OrchestratorInv
<1>4. ASSUME c.op = "stage", c.at \in {"binding", "route"} PROVE PassedGates(c.migration)'
  BY <1>4, GatesStayPassed DEF CallOK, OrchestratorInv
<1> QED BY <1>2, <1>3, <1>4 DEF CallOK

LEMMA VersionStaysGated ==
    ASSUME OrchestratorInv, [MigrationNext]_migrationVars, NEW v, VersionGated(v)
    PROVE  VersionGated(v)'
BY GatesStayPassed DEF VersionGated, OrchestratorInv

-----------------------------------------------------------------------------
(* The router moves versions, it does not make evidence. *)

RecordVersions(r) ==
    {r.active, r.staged} \cup {r.rollbackStack[i] : i \in 1 .. Len(r.rollbackStack)}

RoutesGated(r) == \A v \in RecordVersions(r) : VersionGated(v)

\* After the step, every routed version has the evidence the ledger shows now.
VersionsKept ==
    \A d \in Deployments : Deployed(d)' => \A v \in RoutedVersions(d)' : VersionGated(v)

LEMMA DeployedRecord ==
    ASSUME OrchestratorInv, NEW d \in Deployments, Deployed(d)
    PROVE  RecordOK(deployment[d]) /\ deployment[d] \in DeploymentRecords /\ RoutesGated(deployment[d])
<1>1. RecordOK(deployment[d]) /\ deployment[d] \in DeploymentRecords
  BY DEF OrchestratorInv, RouterInv, RecordOK
<1>2. RecordVersions(deployment[d]) = RoutedVersions(d)
  BY DEF RecordVersions, RoutedVersions, Active, Staged, RollbackDepth
<1>3. RoutesGated(deployment[d])
  BY <1>2 DEF OrchestratorInv, VersionsGated, RoutesGated
<1> QED BY <1>1, <1>3

\* One deployment gets a record whose versions have their evidence.
LEMMA ReplaceGated ==
    ASSUME OrchestratorInv, NEW d \in Deployments, NEW q, RoutesGated(q),
           deployment' = [deployment EXCEPT ![d] = q]
    PROVE  VersionsKept
<1>1. \A k \in Deployments : deployment'[k] = IF k = d THEN q ELSE deployment[k]
  BY DEF OrchestratorInv, RouterInv, RouterTypeOK
<1>2. ASSUME NEW k \in Deployments, Deployed(k)', NEW v \in RoutedVersions(k)'
      PROVE  VersionGated(v)
  <2>1. v \in RecordVersions(deployment'[k])
    BY <1>2 DEF RecordVersions, RoutedVersions, Active, Staged, RollbackDepth
  <2>2. CASE k = d
    BY <1>1, <2>1, <2>2 DEF RoutesGated
  <2>3. CASE k # d
    BY <1>1, <1>2, <2>1, <2>3, DeployedRecord DEF RoutesGated, Deployed
  <2> QED BY <2>2, <2>3
<1> QED BY <1>2 DEF VersionsKept

LEMMA UnchangedGated ==
    ASSUME OrchestratorInv, UNCHANGED routerVars
    PROVE  VersionsKept
BY DEF OrchestratorInv, VersionsGated, VersionsKept, routerVars, Deployed, RoutedVersions,
       Active, Staged, RollbackDepth

\* bootstrap: the version of no migration.
LEMMA BootstrapGated ==
    ASSUME OrchestratorInv, NEW d \in Deployments, NEW candidate, NEW artifact, NEW manifest,
           Bootstrap(d, candidate, artifact, manifest, NoMigration)
    PROVE  VersionsKept
<1> DEFINE v == [ generation |-> 1, candidate |-> candidate, artifact |-> artifact,
                  manifest |-> manifest, origin |-> NoMigration ]
           q == [active |-> v, staged |-> NoVersion, rollbackStack |-> <<>>]
<1>1. VersionGated(v) /\ VersionGated(NoVersion)
  BY DEF VersionGated
<1>2. RecordVersions(q) = {v, NoVersion}
  BY DEF RecordVersions
<1>3. RoutesGated(q)
  BY <1>1, <1>2 DEF RoutesGated
<1>4. deployment' = [deployment EXCEPT ![d] = q]
  BY DEF Bootstrap
<1> QED BY <1>3, <1>4, ReplaceGated

\* stage: a version made of what the migration was verified with.
LEMMA StageGated ==
    ASSUME OrchestratorInv, NEW d \in Deployments, NEW m \in Migrations, PassedGates(m),
           Stage(d, migration[m].to, migration[m].artifact, migration[m].manifest, m)
    PROVE  VersionsKept
<1> DEFINE v == [ generation |-> Active(d).generation + 1, candidate |-> migration[m].to,
                  artifact |-> migration[m].artifact, manifest |-> migration[m].manifest,
                  origin |-> m ]
           q == [deployment[d] EXCEPT !.staged = v]
<1>1. Deployed(d) /\ deployment[d] \in DeploymentRecords /\ RoutesGated(deployment[d])
  BY DeployedRecord DEF Stage, StageOk
<1>2. VersionGated(v)
  BY DEF VersionGated
<1>3. q.active = deployment[d].active /\ q.staged = v /\ q.rollbackStack = deployment[d].rollbackStack
  BY <1>1 DEF DeploymentRecords
<1>4. RoutesGated(q)
  BY <1>1, <1>2, <1>3 DEF RoutesGated, RecordVersions
<1>5. deployment' = [deployment EXCEPT ![d] = q]
  BY DEF Stage, OrchestratorInv, RouterInv, RouterTypeOK
<1> QED BY <1>4, <1>5, ReplaceGated

\* activate: the staged version becomes the active one, the active one is stacked.
LEMMA ActivateGated ==
    ASSUME OrchestratorInv, NEW d \in Deployments, NEW from, NEW to, Activate(d, from, to)
    PROVE  VersionsKept
<1> DEFINE r == deployment[d]
           q == Activated(r)
           stack == r.rollbackStack
<1>1. r \in DeploymentRecords /\ RoutesGated(r)
  BY DeployedRecord DEF Activate, ActivateOk
<1>2. stack \in Seq(Versions)
  BY <1>1 DEF DeploymentRecords
<1>3. /\ Len(Append(stack, r.active)) = Len(stack) + 1
      /\ \A i \in 1 .. Len(stack) : Append(stack, r.active)[i] = stack[i]
      /\ Append(stack, r.active)[Len(stack) + 1] = r.active
      /\ Len(stack) \in Nat
  BY <1>1, <1>2, AppendProperties, LenProperties DEF DeploymentRecords
<1>4. q.active = r.staged /\ q.staged = NoVersion /\ q.rollbackStack = Append(stack, r.active)
  BY DEF Activated
<1>5. ASSUME NEW i \in 1 .. Len(q.rollbackStack)
      PROVE  q.rollbackStack[i] \in RecordVersions(r)
  <2>1. CASE i \in 1 .. Len(stack)
    BY <1>3, <1>4, <2>1 DEF RecordVersions
  <2>2. CASE i = Len(stack) + 1
    BY <1>3, <1>4, <2>2 DEF RecordVersions
  <2> QED BY <1>3, <1>4, <2>1, <2>2
<1>6. VersionGated(NoVersion)
  BY DEF VersionGated
<1>7. RoutesGated(q)
  BY <1>1, <1>4, <1>5, <1>6 DEF RoutesGated, RecordVersions
<1> QED BY <1>7, ReplaceGated DEF Activate

\* abort_staged: a version is dropped.
LEMMA AbortStagedGated ==
    ASSUME OrchestratorInv, NEW d \in Deployments, AbortStaged(d)
    PROVE  VersionsKept
<1> DEFINE q == [deployment[d] EXCEPT !.staged = NoVersion]
<1>1. deployment[d] \in DeploymentRecords /\ RoutesGated(deployment[d])
  BY DeployedRecord DEF AbortStaged, AbortStagedOk
<1>2. /\ q.active = deployment[d].active /\ q.staged = NoVersion
      /\ q.rollbackStack = deployment[d].rollbackStack
  BY <1>1 DEF DeploymentRecords
<1>3. VersionGated(NoVersion)
  BY DEF VersionGated
<1>4. RoutesGated(q)
  BY <1>1, <1>2, <1>3 DEF RoutesGated, RecordVersions
<1>5. deployment' = [deployment EXCEPT ![d] = q]
  BY DEF AbortStaged, OrchestratorInv, RouterInv, RouterTypeOK
<1> QED BY <1>4, <1>5, ReplaceGated

\* rollback: a stacked version comes back under a new generation number.
LEMMA RestoredGated ==
    ASSUME OrchestratorInv, NEW d \in Deployments, RouterRollback(d)
    PROVE  VersionsKept
<1> DEFINE r == deployment[d]
           q == Restored(r)
           stack == r.rollbackStack
           depth == Len(stack)
           top == [stack[depth] EXCEPT !.generation = r.active.generation + 1]
<1>1. r \in DeploymentRecords /\ RoutesGated(r) /\ depth > 0
  BY DeployedRecord DEF RouterRollback, RouterRollbackOk, RollbackDepth
<1>2. stack \in Seq(Versions) /\ depth \in Nat /\ depth \in 1 .. depth
  BY <1>1, LenProperties DEF DeploymentRecords
<1>3. /\ Len(SubSeq(stack, 1, depth - 1)) = depth - 1
      /\ \A i \in 1 .. depth - 1 : SubSeq(stack, 1, depth - 1)[i] = stack[i]
  <2>1. depth - 1 \in Nat /\ depth - 1 <= Len(stack)
    BY <1>1, <1>2
  <2> QED BY <1>2, <2>1, Prefix
<1>4. /\ q.active = top /\ q.staged = NoVersion
      /\ q.rollbackStack = SubSeq(stack, 1, depth - 1)
  BY DEF Restored
<1>5. stack[depth] \in Versions /\ stack[depth] \in RecordVersions(r)
  BY <1>2, ElementOfSeq DEF RecordVersions
<1>6. VersionGated(stack[depth]) /\ stack[depth] # NoVersion
  BY <1>1, <1>5, NoVersionAssumption DEF RoutesGated
<1>7. /\ top.origin = stack[depth].origin /\ top.candidate = stack[depth].candidate
      /\ top.artifact = stack[depth].artifact /\ top.manifest = stack[depth].manifest
  BY <1>5 DEF Versions
<1>8. VersionGated(top) /\ VersionGated(NoVersion)
  BY <1>6, <1>7 DEF VersionGated
<1>9. ASSUME NEW i \in 1 .. Len(q.rollbackStack)
      PROVE  q.rollbackStack[i] \in RecordVersions(r)
  <2>1. i \in 1 .. depth - 1 /\ i \in 1 .. depth
    BY <1>2, <1>3, <1>4, <1>9
  <2> QED BY <1>3, <1>4, <2>1 DEF RecordVersions
<1>10. RoutesGated(q)
  BY <1>1, <1>4, <1>8, <1>9 DEF RoutesGated, RecordVersions
<1> QED BY <1>10, ReplaceGated DEF RouterRollback

-----------------------------------------------------------------------------
(* What a step does to the controllers, to its thread's call and to the     *)
(* other variables of the orchestrators.                                   *)

ControllersStep ==
    /\ [RuntimeNext]_runtimeVars
    /\ [MigrationNext]_migrationVars
    /\ [RouterNext]_routerVars
    /\ VersionsKept

\* The thread's call ends, or goes on as one that may rely on what it does.
Goes(t) ==
    /\ call' \in [Threads -> Calls \cup {NoCall}]
    /\ \A u \in Threads : u # t => call'[u] = call[u]
    /\ call'[t] # NoCall => CallOK(call'[t])

OthersTyped ==
    /\ bound' \in [Sessions -> Deployments \cup {NoDeployment}]
    /\ lockHolder' \in [Orchestrators -> Threads \cup {NoThread}]
    /\ reported' \in [Sessions -> BOOLEAN]

StepKeeps(t) == ControllersStep /\ Goes(t) /\ OthersTyped

\* Such a step preserves the invariant.
LEMMA KeepsInv ==
    ASSUME OrchestratorInv, NEW t \in Threads, StepKeeps(t)
    PROVE  OrchestratorInv'
<1>1. RuntimeInv' /\ MigrationInv' /\ RouterInv'
  BY RuntimeInvNext, MigrationInvNext, RouterInvNext DEF OrchestratorInv, StepKeeps, ControllersStep
<1>2. OwnTypeOK'
  BY DEF StepKeeps, Goes, OthersTyped, OwnTypeOK
<1>3. ASSUME NEW u \in Threads, call'[u] # NoCall PROVE CallOK(call[u])'
  <2>1. PICK c : c = call'[u] /\ CallOK(c)
    BY <1>3 DEF StepKeeps, Goes, OrchestratorInv, CallsOK
  <2>2. CallOK(c)'
    BY <2>1, CallStaysOK DEF StepKeeps, ControllersStep
  <2> QED BY <2>1, <2>2 DEF CallOK
<1>4. CallsOK'
  BY <1>3 DEF CallsOK
<1>5. VersionsGated'
  BY VersionStaysGated DEF StepKeeps, ControllersStep, VersionsKept, VersionsGated
<1> QED BY <1>1, <1>2, <1>4, <1>5 DEF OrchestratorInv

\* The caller's record, at its place.
LEMMA Caller ==
    ASSUME OrchestratorInv, NEW t \in Threads, NEW op, NEW label, At(t, op, label)
    PROVE  /\ call[t] # NoCall /\ call[t] \in Calls /\ CallOK(call[t])
           /\ call[t].op = op /\ call[t].at = label
           /\ call[t].session \in Sessions /\ call[t].orch \in Orchestrators
           /\ call[t].deployment \in Deployments \cup {NoDeployment}
           /\ Started(call[t].session)
           /\ session[call[t].session] \in SessionRecords
<1>1. call[t] # NoCall /\ CallOK(call[t]) /\ call[t] \in Calls
  BY DEF At, OrchestratorInv, CallsOK, CallOK
<1>2. call[t].session \in Sessions /\ call[t].orch \in Orchestrators
      /\ call[t].deployment \in Deployments \cup {NoDeployment}
  BY <1>1 DEF Calls
<1> QED BY <1>1, <1>2, StartedRecord DEF At, CallOK, OrchestratorInv, RecordInv

\* The migration of a call to stage, commit, abort or roll back.
LEMMA CallersMigration ==
    ASSUME OrchestratorInv, NEW t \in Threads, call[t] # NoCall,
           call[t].op \in {"stage", "commit", "abort", "rollback"}
    PROVE  /\ call[t].migration \in Migrations
           /\ migration[call[t].migration] \in MigrationRecords
           /\ migration[call[t].migration].session \in Sessions
           /\ From(t) \in Candidates /\ To(t) \in Candidates
<1>1. call[t].migration \in Migrations /\ Planned(call[t].migration)
  BY DEF OrchestratorInv, CallsOK, CallOK
<1>2. migration[call[t].migration] \in MigrationRecords
  BY <1>1, GatedRecord DEF OrchestratorInv
<1> QED BY <1>1, <1>2 DEF From, To, MigrationRecords

LEMMA CallReplaced ==
    ASSUME OrchestratorInv, NEW t \in Threads, NEW c, CallOK(c), call' = [call EXCEPT ![t] = c]
    PROVE  Goes(t)
<1>1. c \in Calls /\ call \in [Threads -> Calls \cup {NoCall}]
  BY DEF CallOK, OrchestratorInv, OwnTypeOK
<1>2. call'[t] = c /\ \A u \in Threads : u # t => call'[u] = call[u]
  BY <1>1
<1>3. call' \in [Threads -> Calls \cup {NoCall}]
  BY <1>1
<1> QED BY <1>2, <1>3 DEF Goes

LEMMA Leaves ==
    ASSUME OrchestratorInv, NEW t \in Threads, Leave(t)
    PROVE  Goes(t) /\ lockHolder' \in [Orchestrators -> Threads \cup {NoThread}]
BY DEF Leave, Goes, OrchestratorInv, OwnTypeOK

Places ==
    {"begin", "runtime", "route", "binding", "check", "confirm", "record",
     "pending", "undoRoute", "undoRuntime?", "undoRuntime", "undoRecord?",
     "undoRecord", "verifyRuntime", "verifyRoute", "restore"}

\* What a call must be able to rely on to go to a place.
MayGoTo(c, label) ==
    /\ label \in Places
    /\ c.op = "plan" => label # "record"
    /\ c.op # "bind" /\ label \in {"route", "check"} => c.deployment \in Deployments
    /\ c.op = "stage" /\ label \in {"binding", "route"} => PassedGates(c.migration)

LEMMA GoesTo ==
    ASSUME OrchestratorInv, NEW t \in Threads, call[t] # NoCall, NEW label, Goto(t, label),
           MayGoTo(call[t], label)
    PROVE  Goes(t)
<1> DEFINE c == [call[t] EXCEPT !.at = label]
<1>1. CallOK(call[t]) /\ call[t] \in Calls
  BY DEF OrchestratorInv, CallsOK, CallOK
<1>2. /\ c \in Calls /\ c.at = label
      /\ c.op = call[t].op /\ c.session = call[t].session /\ c.migration = call[t].migration
      /\ c.deployment = call[t].deployment
  BY <1>1 DEF Calls, MayGoTo, Places
<1>3. call' = [call EXCEPT ![t] = c]
  BY DEF Goto, OrchestratorInv, OwnTypeOK
<1> HIDE DEF c
<1>4. CallOK(c)
  BY <1>1, <1>2 DEF CallOK, MayGoTo
<1> QED BY <1>3, <1>4, CallReplaced

\* The same with a deployment read from the bindings.
LEMMA GoesWithDeployment ==
    ASSUME OrchestratorInv, NEW t \in Threads, call[t] # NoCall, NEW label \in Places,
           NEW d \in Deployments \cup {NoDeployment},
           call[t].op \in {"commit", "abort", "rollback"},
           label \in {"route", "check"} => d \in Deployments,
           call' = [call EXCEPT ![t].deployment = d, ![t].at = label]
    PROVE  Goes(t)
<1> DEFINE c == [call[t] EXCEPT !.deployment = d, !.at = label]
<1>1. CallOK(call[t]) /\ call[t] \in Calls
  BY DEF OrchestratorInv, CallsOK, CallOK
<1>0. label \in Places /\ d \in Deployments \cup {NoDeployment}
  OBVIOUS
<1>2. c \in Calls
  BY <1>0, <1>1 DEF Calls, Places
<1>5. /\ c.at = label /\ c.deployment = d
      /\ c.op = call[t].op /\ c.session = call[t].session /\ c.migration = call[t].migration
  BY <1>1 DEF Calls
<1>3. call' = [call EXCEPT ![t] = c]
  BY DEF OrchestratorInv, OwnTypeOK
<1> HIDE DEF c
<1>4. CallOK(c)
  BY <1>1, <1>2, <1>5 DEF CallOK
<1> QED BY <1>3, <1>4, CallReplaced

\* The same with an error noted.
LEMMA GoesWithError ==
    ASSUME OrchestratorInv, NEW t \in Threads, call[t] # NoCall,
           call[t].op = "commit", NEW label \in Places \ {"route", "check"}, NEW e \in BOOLEAN,
           call' = [call EXCEPT ![t].at = label, ![t].errors = e]
    PROVE  Goes(t)
<1> DEFINE c == [call[t] EXCEPT !.at = label, !.errors = e]
<1>1. CallOK(call[t]) /\ call[t] \in Calls
  BY DEF OrchestratorInv, CallsOK, CallOK
<1>2. /\ c \in Calls /\ c.at = label
      /\ c.op = call[t].op /\ c.session = call[t].session /\ c.migration = call[t].migration
  BY <1>1 DEF Calls, Places
<1>3. call' = [call EXCEPT ![t] = c]
  BY DEF OrchestratorInv, OwnTypeOK
<1> HIDE DEF c
<1>4. CallOK(c)
  BY <1>1, <1>2 DEF CallOK
<1> QED BY <1>3, <1>4, CallReplaced

\* A step that leaves the controllers alone.
LEMMA QuietControllers ==
    ASSUME OrchestratorInv, UNCHANGED controllers
    PROVE  ControllersStep
<1>1. UNCHANGED session /\ UNCHANGED migration /\ UNCHANGED deployment /\ UNCHANGED lease
  BY DEF controllers
<1>2. UNCHANGED routerVars
  BY <1>1 DEF routerVars
<1> QED BY <1>1, <1>2, UnchangedGated DEF ControllersStep, runtimeVars, migrationVars

\* A step of one controller that leaves the other two alone.
LEMMA OneController ==
    ASSUME OrchestratorInv,
           \/ RuntimeNext /\ UNCHANGED <<migration, routerVars>>
           \/ MigrationNext /\ UNCHANGED <<session, routerVars>>
           \/ RouterNext /\ VersionsKept /\ UNCHANGED <<session, migration>>
    PROVE  ControllersStep
BY UnchangedGated DEF ControllersStep, runtimeVars, migrationVars

LEMMA OthersUnchanged ==
    ASSUME OrchestratorInv, UNCHANGED <<bound, reported>>,
           lockHolder' \in [Orchestrators -> Threads \cup {NoThread}]
    PROVE  OthersTyped
BY DEF OthersTyped, OrchestratorInv, OwnTypeOK

LEMMA LockTyped ==
    ASSUME OrchestratorInv, NEW t \in Threads,
           UNCHANGED lockHolder \/ (Lock(t) /\ call[t].orch \in Orchestrators)
    PROVE  lockHolder' \in [Orchestrators -> Threads \cup {NoThread}]
BY DEF Lock, OrchestratorInv, OwnTypeOK

-----------------------------------------------------------------------------
(* The operations, one lemma for each of their steps. *)

\* A request enters: it knows only the ids it names.
LEMMA EnterKeeps ==
    ASSUME OrchestratorInv, NEW t \in Threads, NEW o \in Orchestrators, NEW op \in Operations,
           NEW s \in Sessions, NEW m \in Migrations \cup {NoMigration},
           op # "bind" => m \in Migrations,
           op \in {"stage", "commit", "abort", "rollback"} => Planned(m),
           Enter(t, o, op, s, m)
    PROVE  StepKeeps(t)
<1> DEFINE c == [ op |-> op, at |-> "begin", orch |-> o, session |-> s, migration |-> m,
                  deployment |-> NoDeployment, active |-> NoCandidate,
                  pending |-> NoCandidate, errors |-> FALSE ]
<1>1. CallOK(c)
  BY DEF Enter, CallOK, Calls, OptCandidates
<1>2. Goes(t)
  BY <1>1, CallReplaced DEF Enter
<1>3. ControllersStep
  BY QuietControllers DEF Enter
<1>4. OthersTyped
  BY OthersUnchanged, LockTyped DEF Enter
<1> QED BY <1>2, <1>3, <1>4 DEF StepKeeps

LEMMA RequestKeeps ==
    ASSUME OrchestratorInv, NEW t \in Threads, Request(t)
    PROVE  StepKeeps(t)
<1>1. {"plan", "bind", "stage", "commit", "abort", "rollback"} \subseteq Operations
  BY DEF Operations
<1> QED BY <1>1, EnterKeeps DEF Request

\* plan_pending: what runtime.get showed is a pair of candidates.
LEMMA PlanReadKeeps ==
    ASSUME OrchestratorInv, NEW t \in Threads, PlanRead(t)
    PROVE  StepKeeps(t)
<1> DEFINE r == session[call[t].session]
           c == [call[t] EXCEPT !.at = "record", !.active = r.active, !.pending = r.pendingCandidate]
<1>1. /\ call[t] \in Calls /\ CallOK(call[t]) /\ call[t].op = "plan"
      /\ r \in SessionRecords
  BY Caller DEF PlanRead
<1>2. Goes(t) /\ lockHolder' \in [Orchestrators -> Threads \cup {NoThread}]
  <2>1. CASE r.pendingCandidate = NoCandidate
    BY <2>1, Leaves DEF PlanRead
  <2>2. CASE r.pendingCandidate # NoCandidate
    <3>1. r.active \in Candidates /\ r.pendingCandidate \in Candidates
      BY <1>1, <2>2 DEF SessionRecords, OptCandidates
    <3>2. c \in Calls
      BY <1>1, <3>1 DEF Calls, OptCandidates
    <3>3. /\ c.at = "record" /\ c.active = r.active /\ c.pending = r.pendingCandidate
          /\ c.op = "plan" /\ c.session = call[t].session /\ c.migration = call[t].migration
      BY <1>1 DEF Calls
    <3>4. call' = [call EXCEPT ![t] = c]
      BY <2>2 DEF PlanRead, OrchestratorInv, OwnTypeOK
    <3>5. UNCHANGED lockHolder
      BY <2>2 DEF PlanRead
    <3> HIDE DEF c
    <3>6. CallOK(c)
      BY <1>1, <3>1, <3>2, <3>3 DEF CallOK
    <3> QED BY <3>4, <3>5, <3>6, CallReplaced, LockTyped
  <2> QED BY <2>1, <2>2
<1>3. ControllersStep
  BY QuietControllers DEF PlanRead
<1>4. OthersTyped
  BY <1>2, OthersUnchanged DEF PlanRead
<1> QED BY <1>2, <1>3, <1>4 DEF StepKeeps

LEMMA PlanRecordKeeps ==
    ASSUME OrchestratorInv, NEW t \in Threads, PlanRecord(t)
    PROVE  StepKeeps(t)
<1>1. /\ call[t].migration \in Migrations /\ call[t].session \in Sessions
      /\ call[t].active \in Candidates /\ call[t].pending \in Candidates
  BY Caller DEF PlanRecord, CallOK
<1>2. ControllersStep
  <2>1. CASE UNCHANGED migration
    <3>1. UNCHANGED controllers
      BY <2>1 DEF PlanRecord, routerVars, controllers
    <3> QED BY <3>1, QuietControllers
  <2>2. CASE Plan(call[t].migration, call[t].session, call[t].active, call[t].pending)
    <3>1. MigrationNext
      BY <1>1, <2>2 DEF MigrationNext
    <3> QED BY <3>1, OneController DEF PlanRecord
  <2> QED BY <2>1, <2>2 DEF PlanRecord
<1> QED BY <1>2, Leaves, OthersUnchanged DEF PlanRecord, StepKeeps

\* bind_deployment
LEMMA BindReadKeeps ==
    ASSUME OrchestratorInv, NEW t \in Threads, BindRead(t)
    PROVE  StepKeeps(t)
<1> DEFINE c == [call[t] EXCEPT !.at = "check", !.active = session[call[t].session].active]
<1>1. /\ call[t] \in Calls /\ CallOK(call[t]) /\ call[t].op = "bind"
      /\ session[call[t].session] \in SessionRecords
  BY Caller DEF BindRead
<1>2. session[call[t].session].active \in OptCandidates
  BY <1>1 DEF SessionRecords, OptCandidates
<1>3. /\ c \in Calls /\ c.at = "check" /\ c.op = "bind"
      /\ c.session = call[t].session /\ c.migration = call[t].migration
  BY <1>1, <1>2 DEF Calls
<1>4. call' = [call EXCEPT ![t] = c]
  BY DEF BindRead, OrchestratorInv, OwnTypeOK
<1> HIDE DEF c
<1>5. CallOK(c)
  BY <1>1, <1>3 DEF CallOK
<1> QED BY <1>4, <1>5, CallReplaced, QuietControllers, LockTyped, OthersUnchanged
       DEF BindRead, StepKeeps

LEMMA BindCheckKeeps ==
    ASSUME OrchestratorInv, NEW t \in Threads, NEW d \in Deployments, BindCheck(t, d)
    PROVE  StepKeeps(t)
<1> DEFINE c == [call[t] EXCEPT !.at = "binding", !.deployment = d]
<1>1. call[t] \in Calls /\ CallOK(call[t]) /\ call[t].op = "bind"
  BY Caller DEF BindCheck
<1>2. c \in Calls
  BY <1>1 DEF Calls
<1>3. /\ c.at = "binding" /\ c.op = "bind"
      /\ c.session = call[t].session /\ c.migration = call[t].migration
  BY <1>1 DEF Calls
<1>4. Goes(t) /\ lockHolder' \in [Orchestrators -> Threads \cup {NoThread}]
  <2>1. CASE Leave(t)
    BY <2>1, Leaves
  <2>2. CASE call' = [call EXCEPT ![t].at = "binding", ![t].deployment = d] /\ UNCHANGED lockHolder
    <3>1. call' = [call EXCEPT ![t] = c]
      BY <2>2 DEF OrchestratorInv, OwnTypeOK
    <3> HIDE DEF c
    <3>2. CallOK(c)
      BY <1>1, <1>2, <1>3 DEF CallOK
    <3> QED BY <2>2, <3>1, <3>2, CallReplaced, LockTyped
  <2> QED BY <2>1, <2>2 DEF BindCheck
<1> QED BY <1>4, QuietControllers, OthersUnchanged DEF BindCheck, StepKeeps

LEMMA BindWriteKeeps ==
    ASSUME OrchestratorInv, NEW t \in Threads, BindWrite(t)
    PROVE  StepKeeps(t)
<1>1. call[t].deployment \in Deployments \cup {NoDeployment}
  BY Caller DEF BindWrite
<1>2. Goes(t) /\ lockHolder' \in [Orchestrators -> Threads \cup {NoThread}]
  BY Leaves DEF BindWrite
<1>3. OthersTyped
  BY <1>1, <1>2 DEF BindWrite, OthersTyped, OrchestratorInv, OwnTypeOK
<1> QED BY <1>2, <1>3, QuietControllers DEF BindWrite, StepKeeps

\* stage_verified_migration: from the check of the gates on, the call may
\* rely on them.
LEMMA StageReadKeeps ==
    ASSUME OrchestratorInv, NEW t \in Threads, StageRead(t)
    PROVE  StepKeeps(t)
<1>1. call[t] # NoCall /\ call[t].op = "stage"
  BY Caller DEF StageRead
<1>2. Goes(t) /\ lockHolder' \in [Orchestrators -> Threads \cup {NoThread}]
  <2>1. CASE Leave(t)
    BY <2>1, Leaves
  <2>2. CASE PassedGates(call[t].migration) /\ Goto(t, "binding") /\ UNCHANGED lockHolder
    <3>1. MayGoTo(call[t], "binding")
      BY <1>1, <2>2 DEF MayGoTo, Places
    <3> QED BY <1>1, <2>2, <3>1, GoesTo, LockTyped
  <2> QED BY <2>1, <2>2 DEF StageRead
<1> QED BY <1>2, QuietControllers, OthersUnchanged DEF StageRead, StepKeeps

LEMMA StageBindingKeeps ==
    ASSUME OrchestratorInv, NEW t \in Threads, StageBinding(t)
    PROVE  StepKeeps(t)
<1> DEFINE d == bound[migration[call[t].migration].session]
           c == [call[t] EXCEPT !.at = "route", !.deployment = d]
<1>1. /\ call[t] \in Calls /\ CallOK(call[t]) /\ call[t].op = "stage" /\ call[t].at = "binding"
      /\ call[t] # NoCall
  BY Caller DEF StageBinding
<1>2. d \in Deployments \cup {NoDeployment}
  BY <1>1, CallersMigration DEF OrchestratorInv, OwnTypeOK
<1>3. Goes(t) /\ lockHolder' \in [Orchestrators -> Threads \cup {NoThread}]
  <2>1. CASE d = NoDeployment
    BY <2>1, Leaves DEF StageBinding
  <2>2. CASE d # NoDeployment
    <3>1. d \in Deployments
      BY <1>2, <2>2
    <3>2. c \in Calls
      BY <1>1, <3>1 DEF Calls
    <3>3. /\ c.at = "route" /\ c.op = "stage" /\ c.deployment = d
          /\ c.session = call[t].session /\ c.migration = call[t].migration
      BY <1>1 DEF Calls
    <3>4. call' = [call EXCEPT ![t] = c] /\ UNCHANGED lockHolder
      BY <2>2 DEF StageBinding, OrchestratorInv, OwnTypeOK
    <3>5. PassedGates(call[t].migration)
      BY <1>1 DEF CallOK
    <3> HIDE DEF c, d
    <3>6. CallOK(c)
      BY <1>1, <3>1, <3>2, <3>3, <3>5 DEF CallOK
    <3> QED BY <3>4, <3>6, CallReplaced, LockTyped
  <2> QED BY <2>1, <2>2
<1> QED BY <1>3, QuietControllers, OthersUnchanged DEF StageBinding, StepKeeps

\* The gates were passed when they were checked, and are still.
LEMMA StageRouteKeeps ==
    ASSUME OrchestratorInv, NEW t \in Threads, StageRoute(t)
    PROVE  StepKeeps(t)
<1> DEFINE m == call[t].migration
           d == call[t].deployment
           r == migration[m]
<1>1. /\ call[t] # NoCall /\ CallOK(call[t]) /\ call[t].op = "stage" /\ call[t].at = "route"
  BY Caller DEF StageRoute
<1>2. m \in Migrations /\ d \in Deployments /\ PassedGates(m) /\ r \in MigrationRecords
  BY <1>1, CallersMigration DEF CallOK
<1>3. r.to \in Candidates /\ r.artifact \in Artifacts /\ r.manifest \in Manifests /\ m \in Origins
  BY <1>2, OrchestratorsAssumption DEF MigrationRecords, PassedGates
<1>4. ControllersStep
  <2>1. CASE UNCHANGED routerVars
    <3>1. UNCHANGED controllers
      BY <2>1 DEF StageRoute, routerVars, controllers
    <3> QED BY <3>1, QuietControllers
  <2>2. CASE Stage(d, r.to, r.artifact, r.manifest, m)
    <3>1. RouterNext
      BY <1>2, <1>3, <2>2 DEF RouterNext
    <3>2. VersionsKept
      BY <1>2, <2>2, StageGated
    <3> QED BY <3>1, <3>2, OneController DEF StageRoute
  <2> QED BY <2>1, <2>2 DEF StageRoute
<1> QED BY <1>4, Leaves, OthersUnchanged DEF StageRoute, StepKeeps

\* authorize_commit
LEMMA CommitBeginKeeps ==
    ASSUME OrchestratorInv, NEW t \in Threads, CommitBegin(t)
    PROVE  StepKeeps(t)
<1>1. call[t] # NoCall /\ call[t].op = "commit" /\ call[t].orch \in Orchestrators
  BY Caller DEF CommitBegin
<1>2. MayGoTo(call[t], "runtime")
  BY <1>1 DEF MayGoTo, Places
<1>3. Goes(t) /\ lockHolder' \in [Orchestrators -> Threads \cup {NoThread}]
  BY <1>1, <1>2, Leaves, GoesTo, LockTyped DEF CommitBegin
<1> QED BY <1>3, QuietControllers, OthersUnchanged DEF CommitBegin, StepKeeps

\* The deployment a session is bound to, for the operations that need one.
LEMMA DeploymentForTyped ==
    ASSUME OrchestratorInv, NEW t \in Threads, call[t] # NoCall
    PROVE  DeploymentFor(t) \in Deployments \cup {NoDeployment}
<1>1. call[t].session \in Sessions
  BY DEF OrchestratorInv, CallsOK, CallOK, Calls
<1> QED BY <1>1 DEF DeploymentFor, OrchestratorInv, OwnTypeOK

LEMMA CommitCheckRuntimeKeeps ==
    ASSUME OrchestratorInv, NEW t \in Threads, CommitCheckRuntime(t)
    PROVE  StepKeeps(t)
<1> DEFINE d == DeploymentFor(t)
           label == IF d = NoDeployment THEN "confirm" ELSE "route"
<1>1. call[t] # NoCall /\ call[t].op = "commit"
  BY Caller DEF CommitCheckRuntime
<1>2. d \in Deployments \cup {NoDeployment}
  BY <1>1, DeploymentForTyped
<1>3. label \in Places /\ (label \in {"route", "check"} => d \in Deployments)
  BY <1>2 DEF Places
<1>4. Goes(t) /\ lockHolder' \in [Orchestrators -> Threads \cup {NoThread}]
  <2>1. CASE Leave(t)
    BY <2>1, Leaves
  <2>2. CASE call' = [call EXCEPT ![t].deployment = d, ![t].at = label] /\ UNCHANGED lockHolder
    <3> HIDE DEF d, label
    <3> QED BY <1>1, <1>2, <1>3, <2>2, GoesWithDeployment, LockTyped
  <2> QED BY <2>1, <2>2 DEF CommitCheckRuntime
<1> QED BY <1>4, QuietControllers, OthersUnchanged DEF CommitCheckRuntime, StepKeeps

LEMMA CommitRouteKeeps ==
    ASSUME OrchestratorInv, NEW t \in Threads, CommitRoute(t)
    PROVE  StepKeeps(t)
<1> DEFINE d == call[t].deployment
<1>1. /\ call[t] # NoCall /\ CallOK(call[t]) /\ call[t].op = "commit" /\ call[t].at = "route"
  BY Caller DEF CommitRoute
<1>2. d \in Deployments /\ From(t) \in Candidates /\ To(t) \in Candidates
  BY <1>1, CallersMigration DEF CallOK
<1>3. MayGoTo(call[t], "confirm")
  BY <1>1 DEF MayGoTo, Places
<1>4. Goes(t) /\ lockHolder' \in [Orchestrators -> Threads \cup {NoThread}]
  BY <1>1, <1>3, Leaves, GoesTo, LockTyped DEF CommitRoute
<1>5. ControllersStep
  <2>1. CASE UNCHANGED routerVars
    <3>1. UNCHANGED controllers
      BY <2>1 DEF CommitRoute, routerVars, controllers
    <3> QED BY <3>1, QuietControllers
  <2>2. CASE Activate(d, From(t), To(t))
    <3>1. RouterNext
      BY <1>2, <2>2 DEF RouterNext
    <3>2. VersionsKept
      BY <1>2, <2>2, ActivateGated
    <3> QED BY <3>1, <3>2, OneController DEF CommitRoute
  <2> QED BY <2>1, <2>2 DEF CommitRoute
<1> QED BY <1>4, <1>5, OthersUnchanged DEF CommitRoute, StepKeeps

\* The session's methods, called from an operation.
LEMMA SessionCall ==
    ASSUME OrchestratorInv, UNCHANGED <<migration, routerVars>>, NEW s \in Sessions,
           \/ UNCHANGED session
           \/ \E candidate \in Candidates : Confirm(s, candidate)
           \/ RollbackLastSwitch(s)
           \/ AbortPending(s)
    PROVE  ControllersStep
<1>1. CASE UNCHANGED session
  <2>1. UNCHANGED controllers
    BY <1>1 DEF routerVars, controllers
  <2> QED BY <2>1, QuietControllers
<1>2. CASE ~UNCHANGED session
  <2>1. RuntimeNext
    BY <1>2 DEF RuntimeNext
  <2> QED BY <2>1, OneController
<1> QED BY <1>1, <1>2

\* The ledger's methods, called from an operation.
LEMMA LedgerCall ==
    ASSUME OrchestratorInv, UNCHANGED <<session, routerVars>>, NEW m \in Migrations,
           \/ UNCHANGED migration
           \/ Commit(m)
           \/ MigrationRollback(m)
           \/ Abort(m)
    PROVE  ControllersStep
<1>1. CASE UNCHANGED migration
  <2>1. UNCHANGED controllers
    BY <1>1 DEF routerVars, controllers
  <2> QED BY <2>1, QuietControllers
<1>2. CASE ~UNCHANGED migration
  <2>1. MigrationNext
    BY <1>2 DEF MigrationNext
  <2> QED BY <2>1, OneController
<1> QED BY <1>1, <1>2

\* A call to commit, abort or roll back may go on wherever no deployment is
\* asked of it.
LEMMA MayGoOn ==
    ASSUME NEW c, c.op \in {"commit", "abort", "rollback"}, NEW label \in Places \ {"route", "check"}
    PROVE  MayGoTo(c, label)
BY DEF MayGoTo

LEMMA CommitConfirmKeeps ==
    ASSUME OrchestratorInv, NEW t \in Threads, CommitConfirm(t)
    PROVE  StepKeeps(t)
<1>1. call[t] # NoCall /\ call[t].op = "commit" /\ call[t].session \in Sessions
  BY Caller DEF CommitConfirm
<1>2. To(t) \in Candidates
  BY <1>1, CallersMigration
<1>3. MayGoTo(call[t], "record") /\ MayGoTo(call[t], "undoRoute")
  BY <1>1, MayGoOn DEF Places
<1>4. Goes(t)
  BY <1>1, <1>3, GoesTo DEF CommitConfirm
<1>5. ControllersStep
  <2>1. UNCHANGED session \/ Confirm(call[t].session, To(t))
    BY DEF CommitConfirm
  <2> QED BY <1>1, <1>2, <2>1, SessionCall DEF CommitConfirm
<1> QED BY <1>4, <1>5, LockTyped, OthersUnchanged DEF CommitConfirm, StepKeeps

LEMMA CommitRecordKeeps ==
    ASSUME OrchestratorInv, NEW t \in Threads, CommitRecord(t)
    PROVE  StepKeeps(t)
<1>1. call[t] # NoCall /\ call[t].op = "commit"
  BY Caller DEF CommitRecord
<1>2. call[t].migration \in Migrations
  BY <1>1, CallersMigration
<1>3. MayGoTo(call[t], "undoRoute")
  BY <1>1, MayGoOn DEF Places
<1>4. Goes(t) /\ lockHolder' \in [Orchestrators -> Threads \cup {NoThread}]
  BY <1>1, <1>3, GoesTo, Leaves, LockTyped DEF CommitRecord
<1>5. ControllersStep
  <2>1. UNCHANGED migration \/ Commit(call[t].migration)
    BY DEF CommitRecord
  <2> QED BY <1>2, <2>1, LedgerCall DEF CommitRecord
<1> QED BY <1>4, <1>5, OthersUnchanged DEF CommitRecord, StepKeeps

\* _compensate_failed_commit
LEMMA UndoRouteKeeps ==
    ASSUME OrchestratorInv, NEW t \in Threads, UndoRoute(t)
    PROVE  StepKeeps(t)
<1> DEFINE d == call[t].deployment
<1>1. /\ call[t] # NoCall /\ call[t].op = "commit"
      /\ d \in Deployments \cup {NoDeployment}
  BY Caller DEF UndoRoute
<1>2. MayGoTo(call[t], "undoRuntime?")
  BY <1>1, MayGoOn DEF Places
<1>3. Goes(t)
  BY <1>1, <1>2, GoesTo DEF UndoRoute
<1>4. ControllersStep
  <2>1. CASE UNCHANGED routerVars
    <3>1. UNCHANGED controllers
      BY <2>1 DEF UndoRoute, routerVars, controllers
    <3> QED BY <3>1, QuietControllers
  <2>2. CASE d # NoDeployment /\ RouterRollback(d)
    <3>1. d \in Deployments /\ RouterNext
      BY <1>1, <2>2 DEF RouterNext
    <3>2. VersionsKept
      BY <2>2, <3>1, RestoredGated
    <3> QED BY <3>1, <3>2, OneController DEF UndoRoute
  <2> QED BY <2>1, <2>2 DEF UndoRoute
<1> QED BY <1>3, <1>4, LockTyped, OthersUnchanged DEF UndoRoute, StepKeeps

LEMMA UndoRuntimeNeededKeeps ==
    ASSUME OrchestratorInv, NEW t \in Threads, UndoRuntimeNeeded(t)
    PROVE  StepKeeps(t)
<1>1. call[t] # NoCall /\ call[t].op = "commit"
  BY Caller DEF UndoRuntimeNeeded
<1>2. MayGoTo(call[t], "undoRuntime") /\ MayGoTo(call[t], "undoRecord?")
  BY <1>1, MayGoOn DEF Places
<1>3. Goto(t, "undoRuntime") \/ Goto(t, "undoRecord?")
  BY DEF UndoRuntimeNeeded
<1>4. Goes(t)
  BY <1>1, <1>2, <1>3, GoesTo
<1> QED BY <1>4, QuietControllers, LockTyped, OthersUnchanged DEF UndoRuntimeNeeded, StepKeeps

LEMMA UndoRuntimeKeeps ==
    ASSUME OrchestratorInv, NEW t \in Threads, UndoRuntime(t)
    PROVE  StepKeeps(t)
<1>1. call[t] # NoCall /\ call[t].op = "commit" /\ call[t].session \in Sessions
  BY Caller DEF UndoRuntime
<1>2. MayGoTo(call[t], "undoRecord?") /\ "undoRecord?" \in Places \ {"route", "check"}
  BY <1>1, MayGoOn DEF Places
<1>3. \/ Goto(t, "undoRecord?")
      \/ call' = [call EXCEPT ![t].at = "undoRecord?", ![t].errors = TRUE]
  BY DEF UndoRuntime
<1>4. Goes(t)
  BY <1>1, <1>2, <1>3, GoesTo, GoesWithError
<1>5. ControllersStep
  <2>1. UNCHANGED session \/ RollbackLastSwitch(call[t].session)
    BY DEF UndoRuntime
  <2> QED BY <1>1, <2>1, SessionCall DEF UndoRuntime
<1> QED BY <1>4, <1>5, LockTyped, OthersUnchanged DEF UndoRuntime, StepKeeps

LEMMA UndoRecordNeededKeeps ==
    ASSUME OrchestratorInv, NEW t \in Threads, UndoRecordNeeded(t)
    PROVE  StepKeeps(t)
<1>1. call[t] # NoCall /\ call[t].op = "commit"
  BY Caller DEF UndoRecordNeeded
<1>2. MayGoTo(call[t], "undoRecord") /\ MayGoTo(call[t], "verifyRuntime")
  BY <1>1, MayGoOn DEF Places
<1>3. Goto(t, "undoRecord") \/ Goto(t, "verifyRuntime")
  BY DEF UndoRecordNeeded
<1>4. Goes(t)
  BY <1>1, <1>2, <1>3, GoesTo
<1> QED BY <1>4, QuietControllers, LockTyped, OthersUnchanged DEF UndoRecordNeeded, StepKeeps

LEMMA UndoRecordKeeps ==
    ASSUME OrchestratorInv, NEW t \in Threads, UndoRecord(t)
    PROVE  StepKeeps(t)
<1>1. call[t] # NoCall /\ call[t].op = "commit"
  BY Caller DEF UndoRecord
<1>2. MayGoTo(call[t], "verifyRuntime") /\ "verifyRuntime" \in Places \ {"route", "check"}
  BY <1>1, MayGoOn DEF Places
<1>3. \/ Goto(t, "verifyRuntime")
      \/ call' = [call EXCEPT ![t].at = "verifyRuntime", ![t].errors = TRUE]
  BY DEF UndoRecord
<1>4. Goes(t)
  BY <1>1, <1>2, <1>3, GoesTo, GoesWithError
<1>5. call[t].migration \in Migrations
  BY <1>1, CallersMigration
<1>6. ControllersStep
  <2>1. UNCHANGED migration \/ MigrationRollback(call[t].migration)
    BY DEF UndoRecord
  <2> QED BY <1>5, <2>1, LedgerCall DEF UndoRecord
<1> QED BY <1>4, <1>6, LockTyped, OthersUnchanged DEF UndoRecord, StepKeeps

LEMMA VerifyRuntimeKeeps ==
    ASSUME OrchestratorInv, NEW t \in Threads, VerifyRuntime(t)
    PROVE  StepKeeps(t)
<1> DEFINE e == call[t].errors \/ session[call[t].session].active # From(t)
           c == [call[t] EXCEPT !.at = "verifyRoute", !.errors = e]
<1>1. call[t] # NoCall /\ call[t].op = "commit" /\ call[t] \in Calls /\ CallOK(call[t])
  BY Caller DEF VerifyRuntime
<1>2. e \in BOOLEAN
  OBVIOUS
<1>3. call' = [call EXCEPT ![t] = c]
  BY DEF VerifyRuntime, OrchestratorInv, OwnTypeOK
<1> HIDE DEF e
<1>4. /\ c \in Calls /\ c.at = "verifyRoute" /\ c.op = "commit"
      /\ c.session = call[t].session /\ c.migration = call[t].migration
  BY <1>1, <1>2 DEF Calls
<1> HIDE DEF c
<1>5. CallOK(c)
  BY <1>1, <1>4 DEF CallOK
<1>6. Goes(t)
  BY <1>3, <1>5, CallReplaced
<1> QED BY <1>6, QuietControllers, LockTyped, OthersUnchanged DEF VerifyRuntime, StepKeeps

LEMMA VerifyRouteKeeps ==
    ASSUME OrchestratorInv, NEW t \in Threads, VerifyRoute(t)
    PROVE  StepKeeps(t)
<1> DEFINE e == reported[call[t].session] \/ call[t].errors \/ ~RouteRestored(t)
<1>1. e \in BOOLEAN
  OBVIOUS
<1>2. reported' = [reported EXCEPT ![call[t].session] = e]
  BY DEF VerifyRoute, OrchestratorInv, OwnTypeOK
<1> HIDE DEF e
<1>3. reported' \in [Sessions -> BOOLEAN]
  BY <1>1, <1>2 DEF OrchestratorInv, OwnTypeOK
<1>4. Goes(t) /\ lockHolder' \in [Orchestrators -> Threads \cup {NoThread}]
  BY Leaves DEF VerifyRoute
<1>5. OthersTyped
  BY <1>3, <1>4 DEF VerifyRoute, OthersTyped, OrchestratorInv, OwnTypeOK
<1> QED BY <1>4, <1>5, QuietControllers DEF VerifyRoute, StepKeeps

\* abort
LEMMA AbortBeginKeeps ==
    ASSUME OrchestratorInv, NEW t \in Threads, AbortBegin(t)
    PROVE  StepKeeps(t)
<1>1. call[t] # NoCall /\ call[t].op = "abort"
  BY Caller DEF AbortBegin
<1>2. MayGoTo(call[t], "binding")
  BY <1>1, MayGoOn DEF Places
<1>3. Goes(t) /\ lockHolder' \in [Orchestrators -> Threads \cup {NoThread}]
  BY <1>1, <1>2, Leaves, GoesTo, LockTyped DEF AbortBegin
<1> QED BY <1>3, QuietControllers, OthersUnchanged DEF AbortBegin, StepKeeps

LEMMA AbortBindingKeeps ==
    ASSUME OrchestratorInv, NEW t \in Threads, AbortBinding(t)
    PROVE  StepKeeps(t)
<1> DEFINE d == DeploymentFor(t)
           label == IF d = NoDeployment THEN "record" ELSE "check"
<1>1. call[t] # NoCall /\ call[t].op = "abort"
  BY Caller DEF AbortBinding
<1>2. d \in Deployments \cup {NoDeployment}
  BY <1>1, DeploymentForTyped
<1>3. label \in Places /\ (label \in {"route", "check"} => d \in Deployments)
  BY <1>2 DEF Places
<1>4. call' = [call EXCEPT ![t].deployment = d, ![t].at = label]
  BY DEF AbortBinding
<1> HIDE DEF d, label
<1>5. Goes(t)
  BY <1>1, <1>2, <1>3, <1>4, GoesWithDeployment
<1> QED BY <1>5, QuietControllers, LockTyped, OthersUnchanged DEF AbortBinding, StepKeeps

LEMMA AbortCheckStagedKeeps ==
    ASSUME OrchestratorInv, NEW t \in Threads, AbortCheckStaged(t)
    PROVE  StepKeeps(t)
<1>1. /\ call[t] # NoCall /\ CallOK(call[t]) /\ call[t].op = "abort" /\ call[t].at = "check"
  BY Caller DEF AbortCheckStaged
<1>2. MayGoTo(call[t], "route") /\ MayGoTo(call[t], "record")
  BY <1>1 DEF MayGoTo, Places, CallOK
<1>3. Goto(t, "route") \/ Goto(t, "record")
  BY DEF AbortCheckStaged
<1>4. Goes(t)
  BY <1>1, <1>2, <1>3, GoesTo
<1> QED BY <1>4, QuietControllers, LockTyped, OthersUnchanged DEF AbortCheckStaged, StepKeeps

LEMMA AbortRouteKeeps ==
    ASSUME OrchestratorInv, NEW t \in Threads, AbortRoute(t)
    PROVE  StepKeeps(t)
<1> DEFINE d == call[t].deployment
<1>1. /\ call[t] # NoCall /\ CallOK(call[t]) /\ call[t].op = "abort" /\ call[t].at = "route"
  BY Caller DEF AbortRoute
<1>2. d \in Deployments
  BY <1>1 DEF CallOK
<1>3. MayGoTo(call[t], "record")
  BY <1>1, MayGoOn DEF Places
<1>4. Goes(t) /\ lockHolder' \in [Orchestrators -> Threads \cup {NoThread}]
  BY <1>1, <1>3, Leaves, GoesTo, LockTyped DEF AbortRoute
<1>5. ControllersStep
  <2>1. CASE UNCHANGED routerVars
    <3>1. UNCHANGED controllers
      BY <2>1 DEF AbortRoute, routerVars, controllers
    <3> QED BY <3>1, QuietControllers
  <2>2. CASE AbortStaged(d)
    <3>1. RouterNext
      BY <1>2, <2>2 DEF RouterNext
    <3>2. VersionsKept
      BY <1>2, <2>2, AbortStagedGated
    <3> QED BY <3>1, <3>2, OneController DEF AbortRoute
  <2> QED BY <2>1, <2>2 DEF AbortRoute
<1> QED BY <1>4, <1>5, OthersUnchanged DEF AbortRoute, StepKeeps

LEMMA AbortRecordKeeps ==
    ASSUME OrchestratorInv, NEW t \in Threads, AbortRecord(t)
    PROVE  StepKeeps(t)
<1>1. call[t] # NoCall /\ call[t].op = "abort"
  BY Caller DEF AbortRecord
<1>2. call[t].migration \in Migrations
  BY <1>1, CallersMigration
<1>3. MayGoTo(call[t], "pending")
  BY <1>1, MayGoOn DEF Places
<1>4. Goes(t) /\ lockHolder' \in [Orchestrators -> Threads \cup {NoThread}]
  BY <1>1, <1>3, GoesTo, Leaves, LockTyped DEF AbortRecord
<1>5. ControllersStep
  <2>1. UNCHANGED migration \/ Abort(call[t].migration)
    BY DEF AbortRecord
  <2> QED BY <1>2, <2>1, LedgerCall DEF AbortRecord
<1> QED BY <1>4, <1>5, OthersUnchanged DEF AbortRecord, StepKeeps

LEMMA AbortClearPendingKeeps ==
    ASSUME OrchestratorInv, NEW t \in Threads, AbortClearPending(t)
    PROVE  StepKeeps(t)
<1>1. call[t].session \in Sessions
  BY Caller DEF AbortClearPending
<1>2. ControllersStep
  BY <1>1, SessionCall DEF AbortClearPending
<1> QED BY <1>2, Leaves, OthersUnchanged DEF AbortClearPending, StepKeeps

\* rollback
LEMMA RollbackBeginKeeps ==
    ASSUME OrchestratorInv, NEW t \in Threads, RollbackBegin(t)
    PROVE  StepKeeps(t)
<1>1. call[t] # NoCall /\ call[t].op = "rollback" /\ call[t].orch \in Orchestrators
  BY Caller DEF RollbackBegin
<1>2. MayGoTo(call[t], "runtime")
  BY <1>1, MayGoOn DEF Places
<1>3. Goes(t) /\ lockHolder' \in [Orchestrators -> Threads \cup {NoThread}]
  BY <1>1, <1>2, Leaves, GoesTo, LockTyped DEF RollbackBegin
<1> QED BY <1>3, QuietControllers, OthersUnchanged DEF RollbackBegin, StepKeeps

LEMMA RollbackCheckRuntimeKeeps ==
    ASSUME OrchestratorInv, NEW t \in Threads, RollbackCheckRuntime(t)
    PROVE  StepKeeps(t)
<1> DEFINE d == DeploymentFor(t)
           label == IF d = NoDeployment THEN "restore" ELSE "route"
<1>1. call[t] # NoCall /\ call[t].op = "rollback"
  BY Caller DEF RollbackCheckRuntime
<1>2. d \in Deployments \cup {NoDeployment}
  BY <1>1, DeploymentForTyped
<1>3. label \in Places /\ (label \in {"route", "check"} => d \in Deployments)
  BY <1>2 DEF Places
<1>4. Goes(t) /\ lockHolder' \in [Orchestrators -> Threads \cup {NoThread}]
  <2>1. CASE Leave(t)
    BY <2>1, Leaves
  <2>2. CASE call' = [call EXCEPT ![t].deployment = d, ![t].at = label] /\ UNCHANGED lockHolder
    <3> HIDE DEF d, label
    <3> QED BY <1>1, <1>2, <1>3, <2>2, GoesWithDeployment, LockTyped
  <2> QED BY <2>1, <2>2 DEF RollbackCheckRuntime
<1> QED BY <1>4, QuietControllers, OthersUnchanged DEF RollbackCheckRuntime, StepKeeps

LEMMA RollbackRouteKeeps ==
    ASSUME OrchestratorInv, NEW t \in Threads, RollbackRoute(t)
    PROVE  StepKeeps(t)
<1> DEFINE d == call[t].deployment
<1>1. /\ call[t] # NoCall /\ CallOK(call[t]) /\ call[t].op = "rollback" /\ call[t].at = "route"
  BY Caller DEF RollbackRoute
<1>2. d \in Deployments
  BY <1>1 DEF CallOK
<1>3. MayGoTo(call[t], "restore")
  BY <1>1, MayGoOn DEF Places
<1>4. Goes(t) /\ lockHolder' \in [Orchestrators -> Threads \cup {NoThread}]
  BY <1>1, <1>3, Leaves, GoesTo, LockTyped DEF RollbackRoute
<1>5. ControllersStep
  <2>1. CASE UNCHANGED routerVars
    <3>1. UNCHANGED controllers
      BY <2>1 DEF RollbackRoute, routerVars, controllers
    <3> QED BY <3>1, QuietControllers
  <2>2. CASE RouterRollback(d)
    <3>1. RouterNext
      BY <1>2, <2>2 DEF RouterNext
    <3>2. VersionsKept
      BY <1>2, <2>2, RestoredGated
    <3> QED BY <3>1, <3>2, OneController DEF RollbackRoute
  <2> QED BY <2>1, <2>2 DEF RollbackRoute
<1> QED BY <1>4, <1>5, OthersUnchanged DEF RollbackRoute, StepKeeps

LEMMA RollbackRuntimeKeeps ==
    ASSUME OrchestratorInv, NEW t \in Threads, RollbackRuntime(t)
    PROVE  StepKeeps(t)
<1>1. call[t] # NoCall /\ call[t].op = "rollback" /\ call[t].session \in Sessions
  BY Caller DEF RollbackRuntime
<1>2. MayGoTo(call[t], "record")
  BY <1>1, MayGoOn DEF Places
<1>3. Goes(t) /\ lockHolder' \in [Orchestrators -> Threads \cup {NoThread}]
  BY <1>1, <1>2, GoesTo, Leaves, LockTyped DEF RollbackRuntime
<1>4. ControllersStep
  <2>1. UNCHANGED session \/ RollbackLastSwitch(call[t].session)
    BY DEF RollbackRuntime
  <2> QED BY <1>1, <2>1, SessionCall DEF RollbackRuntime
<1> QED BY <1>3, <1>4, OthersUnchanged DEF RollbackRuntime, StepKeeps

LEMMA RollbackRecordKeeps ==
    ASSUME OrchestratorInv, NEW t \in Threads, RollbackRecord(t)
    PROVE  StepKeeps(t)
<1>1. call[t] # NoCall /\ call[t].op = "rollback"
  BY Caller DEF RollbackRecord
<1>2. call[t].migration \in Migrations
  BY <1>1, CallersMigration
<1>3. ControllersStep
  <2>1. UNCHANGED migration \/ MigrationRollback(call[t].migration)
    BY DEF RollbackRecord
  <2> QED BY <1>2, <2>1, LedgerCall DEF RollbackRecord
<1> QED BY <1>3, Leaves, OthersUnchanged DEF RollbackRecord, StepKeeps

LEMMA StepsKeep ==
    ASSUME OrchestratorInv, NEW t \in Threads, Step(t)
    PROVE  StepKeeps(t)
BY PlanReadKeeps, PlanRecordKeeps, BindReadKeeps, BindCheckKeeps, BindWriteKeeps,
   StageReadKeeps, StageBindingKeeps, StageRouteKeeps,
   CommitBeginKeeps, CommitCheckRuntimeKeeps, CommitRouteKeeps, CommitConfirmKeeps,
   CommitRecordKeeps, UndoRouteKeeps, UndoRuntimeNeededKeeps, UndoRuntimeKeeps,
   UndoRecordNeededKeeps, UndoRecordKeeps, VerifyRuntimeKeeps, VerifyRouteKeeps,
   AbortBeginKeeps, AbortBindingKeeps, AbortCheckStagedKeeps, AbortRouteKeeps,
   AbortRecordKeeps, AbortClearPendingKeeps,
   RollbackBeginKeeps, RollbackCheckRuntimeKeeps, RollbackRouteKeeps, RollbackRuntimeKeeps,
   RollbackRecordKeeps, Zenon DEF Step

-----------------------------------------------------------------------------
(* The endpoints that call one controller, and the invariant. *)

\* Steps of no thread: the calls stay as they are.
LEMMA DirectInv ==
    ASSUME OrchestratorInv, ControllersStep, UNCHANGED <<bound, reported, lockHolder, call>>
    PROVE  OrchestratorInv'
<1>1. RuntimeInv' /\ MigrationInv' /\ RouterInv'
  BY RuntimeInvNext, MigrationInvNext, RouterInvNext DEF OrchestratorInv, ControllersStep
<1>2. OwnTypeOK'
  BY DEF OrchestratorInv, OwnTypeOK
<1>3. ASSUME NEW u \in Threads, call'[u] # NoCall PROVE CallOK(call[u])'
  <2>1. PICK c : c = call[u] /\ CallOK(c)
    BY <1>3 DEF OrchestratorInv, CallsOK
  <2>2. CallOK(c)'
    BY <2>1, CallStaysOK DEF ControllersStep
  <2> QED BY <2>1, <2>2 DEF CallOK
<1>4. CallsOK'
  BY <1>3 DEF CallsOK
<1>5. VersionsGated'
  BY VersionStaysGated DEF ControllersStep, VersionsKept, VersionsGated
<1> QED BY <1>1, <1>2, <1>4, <1>5 DEF OrchestratorInv

LEMMA DirectRuntimeKeeps ==
    ASSUME OrchestratorInv, NEW s \in Sessions, DirectRuntime(s)
    PROVE  ControllersStep
<1>1. RuntimeNext
  BY Zenon DEF DirectRuntime, RuntimeNext
<1> QED BY <1>1, OneController DEF DirectRuntime

LEMMA DirectMigrationKeeps ==
    ASSUME OrchestratorInv, NEW m \in Migrations, DirectMigration(m)
    PROVE  ControllersStep
<1>1. MigrationNext
  BY Zenon DEF DirectMigration, MigrationNext
<1> QED BY <1>1, OneController DEF DirectMigration

LEMMA DirectRouterKeeps ==
    ASSUME OrchestratorInv, NEW d \in Deployments, DirectRouter(d)
    PROVE  ControllersStep
<1>1. NoMigration \in Origins
  BY OrchestratorsAssumption
<1>2. RouterNext
  BY <1>1, Zenon DEF DirectRouter, RouterNext
<1>3. VersionsKept
  BY BootstrapGated DEF DirectRouter
<1> QED BY <1>2, <1>3, OneController DEF DirectRouter

LEMMA OrchestratorInvNext ==
    OrchestratorInv /\ [OrchestratorNext]_orchestratorVars => OrchestratorInv'
<1> SUFFICES ASSUME OrchestratorInv, [OrchestratorNext]_orchestratorVars PROVE OrchestratorInv'
  OBVIOUS
<1>1. ASSUME NEW t \in Threads, Request(t) \/ Step(t) PROVE OrchestratorInv'
  BY <1>1, RequestKeeps, StepsKeep, KeepsInv
<1>2. ASSUME NEW s \in Sessions, DirectRuntime(s) PROVE OrchestratorInv'
  BY <1>2, DirectRuntimeKeeps, DirectInv DEF DirectRuntime
<1>3. ASSUME NEW m \in Migrations, DirectMigration(m) PROVE OrchestratorInv'
  BY <1>3, DirectMigrationKeeps, DirectInv DEF DirectMigration
<1>4. ASSUME NEW d \in Deployments, DirectRouter(d) PROVE OrchestratorInv'
  BY <1>4, DirectRouterKeeps, DirectInv DEF DirectRouter
<1>5. CASE UNCHANGED orchestratorVars
  BY <1>5, QuietControllers, DirectInv DEF orchestratorVars
<1>6. CASE OrchestratorNext
  BY <1>1, <1>2, <1>3, <1>4, <1>6, Zenon DEF OrchestratorNext
<1> QED BY <1>5, <1>6

\* Nothing started, nothing planned, nothing deployed, no call.
LEMMA OrchestratorInvInit == OrchestratorInit => OrchestratorInv
<1> SUFFICES ASSUME OrchestratorInit PROVE OrchestratorInv
  OBVIOUS
<1>1. RuntimeInv /\ MigrationInv /\ RouterInv
  BY RuntimeInvInit, MigrationInvInit, RouterInvInit DEF OrchestratorInit
<1>2. OwnTypeOK
  BY DEF OrchestratorInit, OwnTypeOK
<1>3. CallsOK
  BY DEF OrchestratorInit, CallsOK
<1>4. VersionsGated
  BY DEF OrchestratorInit, RouterInit, VersionsGated, Deployed
<1> QED BY <1>1, <1>2, <1>3, <1>4 DEF OrchestratorInv

LEMMA OrchestratorInvProperties ==
    OrchestratorInv => OrchestratorTypeOK /\ RoutedPassedGates /\ GatesGuardCommit
<1>1. OrchestratorInv => OrchestratorTypeOK
  BY DEF OrchestratorInv, OwnTypeOK, OrchestratorTypeOK, RuntimeInv, MigrationInv, RouterInv
<1>2. OrchestratorInv => RoutedPassedGates
  BY DEF OrchestratorInv, VersionsGated, VersionGated, RoutedPassedGates
<1>3. OrchestratorInv => GatesGuardCommit
  BY MigrationInvGates DEF OrchestratorInv
<1> QED BY <1>1, <1>2, <1>3

(***************************************************************************)
(* The inductive invariant of the two orchestrators, their endpoints and   *)
(* the three controllers they share, for any set of endpoints and threads. *)
(***************************************************************************)
THEOREM OrchestratorInvariant == OrchestratorSpec => []OrchestratorInv
BY OrchestratorInvInit, OrchestratorInvNext, PTL DEF OrchestratorSpec

\* The controllers, the bindings, the locks and the calls keep their types.
THEOREM OrchestratorTypeCorrect == OrchestratorSpec => []OrchestratorTypeOK
BY OrchestratorInvariant, OrchestratorInvProperties, PTL

(***************************************************************************)
(* Whatever endpoints race, readers are routed only to what a migration    *)
(* was verified with, though the gates are checked on a stale read.        *)
(***************************************************************************)
THEOREM OnlyVerifiedIsRouted == OrchestratorSpec => []RoutedPassedGates
BY OrchestratorInvariant, OrchestratorInvProperties, PTL

\* No endpoint leads a migration past its gates but by one full verification.
THEOREM GatesHoldForOrchestrators == OrchestratorSpec => []GatesGuardCommit
BY OrchestratorInvariant, OrchestratorInvProperties, PTL

\* Every step of the orchestrators is a step of the ledger, or leaves it alone.
LEMMA StepsAreLedgerSteps ==
    ASSUME OrchestratorInv, [OrchestratorNext]_orchestratorVars
    PROVE  [MigrationNext]_migrationVars
<1>1. ASSUME NEW t \in Threads, Request(t) \/ Step(t) PROVE [MigrationNext]_migrationVars
  BY <1>1, RequestKeeps, StepsKeep DEF StepKeeps, ControllersStep
<1>2. ASSUME NEW s \in Sessions, DirectRuntime(s) PROVE [MigrationNext]_migrationVars
  BY <1>2, DirectRuntimeKeeps DEF ControllersStep
<1>3. ASSUME NEW m \in Migrations, DirectMigration(m) PROVE [MigrationNext]_migrationVars
  BY <1>3, DirectMigrationKeeps DEF ControllersStep
<1>4. ASSUME NEW d \in Deployments, DirectRouter(d) PROVE [MigrationNext]_migrationVars
  BY <1>4, DirectRouterKeeps DEF ControllersStep
<1>5. CASE UNCHANGED orchestratorVars
  BY <1>5 DEF orchestratorVars, controllers, migrationVars
<1>6. CASE OrchestratorNext
  BY <1>1, <1>2, <1>3, <1>4, <1>6, Zenon DEF OrchestratorNext
<1> QED BY <1>5, <1>6

\* What was verified stays what it was through every orchestrator operation.
THEOREM EvidenceIsFrozenForOrchestrators == OrchestratorSpec => VerifiedEvidenceFrozen
<1>1. OrchestratorInv /\ [OrchestratorNext]_orchestratorVars =>
        [\A m \in Migrations : PassedGates(m) =>
            /\ EvidenceOf(m)' = EvidenceOf(m)
            /\ <<migration[m].state, migration'[m].state>> \in
                   {<<st, st>> : st \in MigrationStates} \cup
                   {<<"VERIFIED", "COMMITTED">>, <<"VERIFIED", "ABORTED">>,
                    <<"COMMITTED", "ROLLED_BACK">>}]_migrationVars
  BY StepsAreLedgerSteps, StepFreezesEvidence DEF OrchestratorInv
<1> QED BY <1>1, OrchestratorInvariant, PTL DEF OrchestratorSpec, VerifiedEvidenceFrozen

-----------------------------------------------------------------------------
(* The commit of one orchestrator. *)

\* The operations run under the lock, and hold it from their first check on.
Locked(c) == c.op = "commit" /\ c.at # "begin"

(***************************************************************************)
(* What the thread inside the lock knows at each place of a commit.  The   *)
(* session and the route are its own to change while it holds the lock;    *)
(* the ledger is not, a migration may be aborted at any moment.            *)
(***************************************************************************)
CommitOK(c) ==
    LET m == c.migration
        s == c.session IN
    /\ migration[m].session = s
    /\ c.at # "runtime" => c.deployment = bound[s]
    /\ c.at = "route" => bound[s] # NoDeployment
    /\ c.at \in {"runtime", "route"} =>
           PassedGates(m) /\ migration[m].state \in {"VERIFIED", "ABORTED"}
    /\ c.at \in {"route", "confirm"} => session[s].active = migration[m].from
    /\ c.at = "record" => session[s].active = migration[m].to
    /\ c.at \in {"confirm", "record"} /\ bound[s] # NoDeployment =>
           Active(bound[s]).candidate = migration[m].to
    /\ c.at \in {"verifyRuntime", "verifyRoute"} /\ ~c.errors => ~InState(m, "COMMITTED")
    /\ c.at = "verifyRoute" /\ ~c.errors => session[s].active = migration[m].from

BindingsOK ==
    /\ \A s \in Sessions : bound[s] # NoDeployment => Started(s) /\ Deployed(bound[s])
    /\ \A s, q \in Sessions : bound[s] # NoDeployment /\ bound[s] = bound[q] => s = q

Settled(s) ==
    \/ reported[s]
    \/ Started(s) => Together(s, session[s].active)
    \/ \E t \in Threads : InFlight(t) /\ call[t].session = s

CallsServed == \A t \in Threads : call[t] # NoCall => call[t].op \in Endpoints

CommitsOK ==
    \A t \in Threads : call[t] # NoCall /\ Locked(call[t]) =>
        lockHolder[call[t].orch] = t /\ CommitOK(call[t])

CommitInv ==
    /\ OrchestratorInv
    /\ BindingsOK /\ CallsServed /\ CommitsOK
    /\ \A s \in Sessions : Settled(s)

(***************************************************************************)
(* The instance: the v2 orchestrator alone, and no request that moves a    *)
(* session or a binding behind its back.  With two orchestrators, a        *)
(* rollback or a direct confirmation the promises fail (the runs show it). *)
(***************************************************************************)
OneOrchestrator ==
    /\ Orchestrators \subseteq {"v2"}
    /\ Endpoints \cap {"bind", "rollback", "runtime confirm", "runtime rollback"} = {}

-----------------------------------------------------------------------------
(* Steps of which a commit in flight notices nothing. *)

SessionsQuiet ==
    \A s \in Sessions : Started(s) => Started(s)' /\ session'[s].active = session[s].active

RoutesQuiet ==
    \A d \in Deployments :
        Deployed(d) => Deployed(d)' /\ Active(d)'.candidate = Active(d).candidate

NoNewCommit == \A m \in Migrations : InState(m, "COMMITTED")' => InState(m, "COMMITTED")

Quiet == SessionsQuiet /\ RoutesQuiet /\ NoNewCommit /\ UNCHANGED <<bound, reported>>

LEMMA UnchangedQuiet ==
    /\ UNCHANGED session => SessionsQuiet
    /\ UNCHANGED routerVars => RoutesQuiet
    /\ UNCHANGED migration => NoNewCommit
    /\ UNCHANGED controllers => SessionsQuiet /\ RoutesQuiet /\ NoNewCommit
BY DEF SessionsQuiet, RoutesQuiet, NoNewCommit, Started, Deployed, Active, InState, Planned,
       routerVars, controllers

\* start, observe and abort_pending leave the candidate of a session alone.
LEMMA SessionReplacedQuiet ==
    ASSUME RuntimeInv, NEW s \in Sessions, NEW r \in SessionRecords,
           session' = [session EXCEPT ![s] = r], Started(s) => r.active = session[s].active
    PROVE  SessionsQuiet
<1>1. \A u \in Sessions : session'[u] = IF u = s THEN r ELSE session[u]
  BY DEF RuntimeInv, RuntimeTypeOK
<1> QED BY <1>1, NoSessionAssumption DEF SessionsQuiet, Started

LEMMA StartQuiet ==
    ASSUME RuntimeInv, NEW s \in Sessions, NEW candidate \in Candidates,
           NEW baseline \in Snapshots, NEW cooldown \in Cooldowns,
           Start(s, candidate, baseline, cooldown)
    PROVE  SessionsQuiet
<1>1. NewSession(candidate, baseline, cooldown) \in SessionRecords
  BY NewSessionInv DEF RecordInv
<1> QED BY <1>1, SessionReplacedQuiet DEF Start

LEMMA ObserveQuiet ==
    ASSUME RuntimeInv, NEW s \in Sessions, NEW snapshot \in Snapshots,
           NEW alternative \in Candidates, NEW pays \in BOOLEAN,
           Observe(s, snapshot, alternative, pays)
    PROVE  SessionsQuiet
<1> DEFINE r == Observed(session[s], snapshot, alternative, pays)
<1>1. RecordInv(session[s]) /\ session[s] \in SessionRecords
  BY StartedRecord DEF Observe, RecordInv
<1>2. r \in SessionRecords
  BY <1>1, ObservedInv DEF Observe, RecordInv
<1>3. r.active = session[s].active
  BY <1>1 DEF Observed, SessionRecords
<1>4. session' = [session EXCEPT ![s] = r]
  BY DEF Observe, RuntimeInv, RuntimeTypeOK
<1> HIDE DEF r
<1> QED BY <1>2, <1>3, <1>4, SessionReplacedQuiet

LEMMA AbortPendingQuiet ==
    ASSUME RuntimeInv, NEW s \in Sessions, AbortPending(s)
    PROVE  SessionsQuiet
<1> DEFINE r == [session[s] EXCEPT !.pendingCandidate = NoCandidate, !.pendingSnapshot = NoSnapshot]
<1>1. RecordInv(session[s]) /\ session[s] \in SessionRecords
  BY StartedRecord DEF AbortPending, RecordInv
<1>2. r \in SessionRecords
  BY <1>1, AbortedInv DEF RecordInv
<1>3. r.active = session[s].active
  BY <1>1 DEF SessionRecords
<1>4. session' = [session EXCEPT ![s] = r]
  BY DEF AbortPending, RuntimeInv, RuntimeTypeOK
<1> HIDE DEF r
<1> QED BY <1>2, <1>3, <1>4, SessionReplacedQuiet

\* bootstrap, stage and abort_staged leave a routed version alone.
LEMMA DeploymentReplacedQuiet ==
    ASSUME RouterInv, NEW d \in Deployments, NEW r \in DeploymentRecords,
           deployment' = [deployment EXCEPT ![d] = r], Deployed(d) => r.active = Active(d)
    PROVE  RoutesQuiet
<1>1. \A k \in Deployments : deployment'[k] = IF k = d THEN r ELSE deployment[k]
  BY DEF RouterInv, RouterTypeOK
<1> QED BY <1>1, NoDeploymentAssumption DEF RoutesQuiet, Deployed, Active

LEMMA BootstrapQuiet ==
    ASSUME RouterInv, NEW d \in Deployments, NEW candidate \in Candidates,
           NEW artifact \in Artifacts, NEW manifest \in Manifests \cup {NoManifest},
           Bootstrap(d, candidate, artifact, manifest, NoMigration)
    PROVE  RoutesQuiet
<1> DEFINE v == [ generation |-> 1, candidate |-> candidate, artifact |-> artifact,
                  manifest |-> manifest, origin |-> NoMigration ]
           r == [active |-> v, staged |-> NoVersion, rollbackStack |-> <<>>]
<1>1. v \in Versions
  BY GenerationsAssumption, OrchestratorsAssumption DEF Versions
<1>2. r \in DeploymentRecords
  BY <1>1, BootstrapRecord DEF RecordOK
<1>3. deployment' = [deployment EXCEPT ![d] = r] /\ ~Deployed(d)
  BY DEF Bootstrap
<1> HIDE DEF r
<1> QED BY <1>2, <1>3, DeploymentReplacedQuiet

LEMMA StageQuiet ==
    ASSUME RouterInv, NEW d \in Deployments, NEW candidate \in Candidates,
           NEW artifact \in Artifacts, NEW manifest \in Manifests, NEW origin \in Origins,
           Stage(d, candidate, artifact, manifest, origin)
    PROVE  RoutesQuiet
<1> DEFINE v == [ generation |-> Active(d).generation + 1, candidate |-> candidate,
                  artifact |-> artifact, manifest |-> manifest, origin |-> origin ]
           r == [deployment[d] EXCEPT !.staged = v]
<1>1. deployment[d] \in DeploymentRecords
  BY DEF Stage, StageOk, RouterInv, RecordOK
<1>2. v \in Versions
  BY DEF Stage, Versions
<1>3. r \in DeploymentRecords /\ r.active = Active(d)
  BY <1>1, <1>2 DEF DeploymentRecords, Active
<1>4. deployment' = [deployment EXCEPT ![d] = r]
  BY DEF Stage, RouterInv, RouterTypeOK
<1> HIDE DEF r
<1> QED BY <1>3, <1>4, DeploymentReplacedQuiet

LEMMA AbortStagedQuiet ==
    ASSUME RouterInv, NEW d \in Deployments, AbortStaged(d)
    PROVE  RoutesQuiet
<1> DEFINE r == [deployment[d] EXCEPT !.staged = NoVersion]
<1>1. deployment[d] \in DeploymentRecords
  BY DEF AbortStaged, AbortStagedOk, RouterInv, RecordOK
<1>2. r \in DeploymentRecords /\ r.active = Active(d)
  BY <1>1 DEF DeploymentRecords, Active
<1>3. deployment' = [deployment EXCEPT ![d] = r]
  BY DEF AbortStaged, RouterInv, RouterTypeOK
<1> HIDE DEF r
<1> QED BY <1>2, <1>3, DeploymentReplacedQuiet

\* Only commit records a commit.
LEMMA LedgerReplacedQuiet ==
    ASSUME MigrationInv, NEW m \in Migrations, NEW r \in MigrationRecords,
           migration' = [migration EXCEPT ![m] = r], r.state # "COMMITTED"
    PROVE  NoNewCommit
<1>1. \A k \in Migrations : migration'[k] = IF k = m THEN r ELSE migration[k]
  BY DEF MigrationInv, MigrationTypeOK
<1> QED BY <1>1, NoMigrationAssumption DEF NoNewCommit, InState, Planned

LEMMA PlanQuiet ==
    ASSUME MigrationInv, NEW m \in Migrations, NEW s \in Sessions, NEW from \in Candidates,
           NEW to \in Candidates, Plan(m, s, from, to)
    PROVE  NoNewCommit
<1> DEFINE r == [ session |-> s, from |-> from, to |-> to, state |-> "PLANNED",
                  artifact |-> NoArtifact, manifest |-> NoManifest,
                  compileVerified |-> FALSE, correctnessVerified |-> FALSE ]
<1>1. r \in MigrationRecords /\ r.state # "COMMITTED"
  BY DEF MigrationRecords, MigrationStates
<1>2. migration' = [migration EXCEPT ![m] = r]
  BY DEF Plan
<1> HIDE DEF r
<1> QED BY <1>1, <1>2, LedgerReplacedQuiet

LEMMA ShadowBuiltQuiet ==
    ASSUME MigrationInv, NEW m \in Migrations, NEW artifact \in Artifacts, ShadowBuilt(m, artifact)
    PROVE  NoNewCommit
<1> DEFINE r == [migration[m] EXCEPT !.artifact = artifact, !.state = "SHADOW_BUILT"]
<1>1. migration[m] \in MigrationRecords
  BY GatedRecord DEF ShadowBuilt, InState
<1>2. r \in MigrationRecords /\ r.state # "COMMITTED"
  BY <1>1 DEF MigrationRecords, MigrationStates
<1>3. migration' = [migration EXCEPT ![m] = r]
  BY DEF ShadowBuilt, MigrationInv, MigrationTypeOK
<1> HIDE DEF r
<1> QED BY <1>2, <1>3, LedgerReplacedQuiet

LEMMA VerifyQuiet ==
    ASSUME MigrationInv, NEW m \in Migrations, NEW compiles \in BOOLEAN, NEW correct \in BOOLEAN,
           NEW manifest \in Manifests, Verify(m, compiles, correct, manifest)
    PROVE  NoNewCommit
<1> DEFINE r == Verified(migration[m], compiles, correct, manifest)
<1>1. migration[m] \in MigrationRecords /\ migration[m].state = "SHADOW_BUILT"
  BY GatedRecord DEF Verify, InState
<1>2. r \in MigrationRecords
  BY <1>1 DEF Verified, MigrationRecords, MigrationStates
<1>3. r.state # "COMMITTED"
  BY <1>1 DEF Verified, MigrationRecords
<1>4. migration' = [migration EXCEPT ![m] = r]
  BY DEF Verify, MigrationInv, MigrationTypeOK
<1> HIDE DEF r
<1> QED BY <1>2, <1>3, <1>4, LedgerReplacedQuiet

LEMMA MoveQuiet ==
    ASSUME MigrationInv, NEW m \in Migrations, Abort(m) \/ MigrationRollback(m)
    PROVE  NoNewCommit
<1>1. PICK state \in {"ABORTED", "ROLLED_BACK"} : migration' = [migration EXCEPT ![m].state = state]
  BY DEF Abort, MigrationRollback
<1> DEFINE r == [migration[m] EXCEPT !.state = state]
<1>2. migration[m] \in MigrationRecords
  BY GatedRecord DEF Abort, AbortOk, MigrationRollback, MigrationRollbackOk, InState
<1>3. r \in MigrationRecords /\ r.state # "COMMITTED"
  BY <1>2 DEF MigrationRecords, MigrationStates
<1>4. migration' = [migration EXCEPT ![m] = r]
  BY <1>1 DEF MigrationInv, MigrationTypeOK
<1> HIDE DEF r
<1> QED BY <1>3, <1>4, LedgerReplacedQuiet

-----------------------------------------------------------------------------
(* What such a step preserves. *)

LEMMA BoundDeployed ==
    ASSUME CommitInv, NEW s \in Sessions, bound[s] # NoDeployment
    PROVE  bound[s] \in Deployments /\ Started(s) /\ Deployed(bound[s])
BY DEF CommitInv, OrchestratorInv, OwnTypeOK, BindingsOK

LEMMA CommitStaysOK ==
    ASSUME CommitInv, Quiet, [MigrationNext]_migrationVars,
           NEW c, CallOK(c), c.op = "commit", CommitOK(c)
    PROVE  CommitOK(c)'
<1> DEFINE m == c.migration
           s == c.session
<1>1. m \in Migrations /\ Planned(m) /\ s \in Sessions /\ Started(s)
  BY DEF CallOK, Calls
<1>2. /\ migration'[m].session = migration[m].session
      /\ migration'[m].from = migration[m].from
      /\ migration'[m].to = migration[m].to
  BY <1>1, PlannedStays DEF CommitInv, OrchestratorInv, SameIdentity
<1>3. session'[s].active = session[s].active /\ bound'[s] = bound[s]
  BY <1>1 DEF Quiet, SessionsQuiet
<1>4. bound[s] # NoDeployment => Active(bound[s])'.candidate = Active(bound[s]).candidate
  <2>1. ASSUME bound[s] # NoDeployment
        PROVE  Active(bound[s])'.candidate = Active(bound[s]).candidate
    <3>1. PICK d : d = bound[s]
      OBVIOUS
    <3>2. d \in Deployments /\ Deployed(d)
      BY <1>1, <2>1, <3>1, BoundDeployed
    <3>3. Active(d)'.candidate = Active(d).candidate /\ bound' = bound
      BY <3>2 DEF Quiet, RoutesQuiet
    <3> QED BY <3>1, <3>3 DEF Active
  <2> QED BY <2>1
<1>5. InState(m, "COMMITTED")' => InState(m, "COMMITTED")
  BY <1>1 DEF Quiet, NoNewCommit
<1>6. ASSUME PassedGates(m), migration[m].state \in {"VERIFIED", "ABORTED"}
      PROVE  PassedGates(m)' /\ migration'[m].state \in {"VERIFIED", "ABORTED"}
  <2>1. PassedGates(m)'
    BY <1>1, <1>6, GatesStayPassed DEF CommitInv, OrchestratorInv
  <2>2. <<migration[m].state, migration'[m].state>> \in
            {<<st, st>> : st \in MigrationStates} \cup
            {<<"VERIFIED", "COMMITTED">>, <<"VERIFIED", "ABORTED">>,
             <<"COMMITTED", "ROLLED_BACK">>}
    BY <1>1, <1>6, StepFreezesEvidence DEF CommitInv, OrchestratorInv
  <2>3. migration'[m].state # "COMMITTED"
    BY <1>5, <1>6, <2>1 DEF InState, PassedGates
  <2> QED BY <1>6, <2>1, <2>2, <2>3
<1> QED BY <1>2, <1>3, <1>4, <1>5, <1>6 DEF CommitOK, Active

\* The route of a bound session, before and after a quiet step.
LEMMA RouteStays ==
    ASSUME CommitInv, Quiet, NEW s \in Sessions, bound[s] # NoDeployment
    PROVE  bound'[s] = bound[s] /\ Active(bound[s])'.candidate = Active(bound[s]).candidate
<1>1. PICK d : d = bound[s]
  OBVIOUS
<1>2. d \in Deployments /\ Deployed(d)
  BY <1>1, BoundDeployed
<1>3. Active(d)'.candidate = Active(d).candidate /\ bound' = bound
  BY <1>2 DEF Quiet, RoutesQuiet
<1> QED BY <1>1, <1>3 DEF Active

LEMMA BindingsStay ==
    ASSUME CommitInv, UNCHANGED bound,
           \A s \in Sessions : Started(s) => Started(s)',
           \A d \in Deployments : Deployed(d) => Deployed(d)'
    PROVE  BindingsOK'
<1>1. ASSUME NEW s \in Sessions, bound'[s] # NoDeployment
      PROVE  Started(s)' /\ Deployed(bound[s])'
  <2>1. PICK d : d = bound[s]
    OBVIOUS
  <2>2. d \in Deployments /\ Deployed(d) /\ Started(s)
    BY <1>1, <2>1, BoundDeployed
  <2>3. Deployed(d)' /\ Started(s)'
    BY <2>2
  <2> QED BY <2>1, <2>3 DEF Deployed
<1>2. \A s, q \in Sessions : bound'[s] # NoDeployment /\ bound'[s] = bound'[q] => s = q
  BY DEF CommitInv, BindingsOK
<1> QED BY <1>1, <1>2 DEF BindingsOK

\* A commit in flight stays so, on the same session.
FlightsGoOn ==
    \A u \in Threads : InFlight(u) => InFlight(u)' /\ call'[u].session = call[u].session

LEMMA SettledStays ==
    ASSUME CommitInv, Quiet, FlightsGoOn, NEW s \in Sessions
    PROVE  Settled(s)'
<1>1. CASE reported[s]
  BY <1>1 DEF Quiet, Settled
<1>2. CASE \E t \in Threads : InFlight(t) /\ call[t].session = s
  BY <1>2 DEF FlightsGoOn, Settled
<1>3. CASE Started(s) => Together(s, session[s].active)
  <2>1. ASSUME bound'[s] # NoDeployment
        PROVE  Active(bound[s])'.candidate = session'[s].active
    <3>1. bound[s] # NoDeployment
      BY <2>1 DEF Quiet
    <3>2. Started(s)
      BY <3>1, BoundDeployed
    <3>3. Active(bound[s]).candidate = session[s].active
      BY <1>3, <3>1, <3>2 DEF Together
    <3>4. session'[s].active = session[s].active
      BY <3>2 DEF Quiet, SessionsQuiet
    <3> QED BY <3>1, <3>3, <3>4, RouteStays
  <2>2. Together(s, session[s].active)'
    BY <2>1 DEF Together
  <2> QED BY <2>2 DEF Settled
<1> QED BY <1>1, <1>2, <1>3 DEF CommitInv, Settled

\* What the calls may be after a quiet step.
QuietCalls ==
    /\ FlightsGoOn
    /\ \A u \in Threads : call'[u] # NoCall =>
           /\ CallOK(call'[u])
           /\ call'[u].op \in Endpoints
           /\ Locked(call'[u]) => lockHolder'[call'[u].orch] = u /\ CommitOK(call'[u])

LEMMA QuietInv ==
    ASSUME CommitInv, OrchestratorInv', [MigrationNext]_migrationVars, Quiet, QuietCalls
    PROVE  CommitInv'
<1>1. BindingsOK'
  BY BindingsStay DEF Quiet, SessionsQuiet, RoutesQuiet
<1>2. CallsServed'
  BY DEF QuietCalls, CallsServed
<1>3. ASSUME NEW u \in Threads, call'[u] # NoCall, Locked(call'[u])
      PROVE  lockHolder'[call'[u].orch] = u /\ CommitOK(call[u])'
  <2>1. PICK c : c = call'[u]
    OBVIOUS
  <2>2. CallOK(c) /\ c.op = "commit" /\ CommitOK(c) /\ lockHolder'[call'[u].orch] = u
    BY <1>3, <2>1 DEF QuietCalls, Locked
  <2>3. CommitOK(c)'
    BY <2>2, CommitStaysOK
  <2> QED BY <2>1, <2>2, <2>3 DEF CommitOK
<1>4. CommitsOK'
  BY <1>3 DEF CommitsOK, Locked
<1>5. \A s \in Sessions : Settled(s)'
  BY SettledStays DEF QuietCalls
<1> QED BY <1>1, <1>2, <1>4, <1>5 DEF CommitInv

-----------------------------------------------------------------------------
(* Steps of the thread that holds the lock. *)

\* There is one lock, so there is one thread inside it.
LEMMA OneHolder ==
    ASSUME CommitInv, OneOrchestrator, NEW t \in Threads, NEW u \in Threads,
           call[t] # NoCall, Locked(call[t]), call[u] # NoCall, Locked(call[u])
    PROVE  u = t
<1>1. call[t].orch = "v2" /\ call[u].orch = "v2"
  BY DEF CommitInv, OrchestratorInv, CallsOK, CallOK, Calls, OneOrchestrator
<1> QED BY <1>1 DEF CommitInv, CommitsOK

\* A thread in flight is inside the lock.
LEMMA FlightIsLocked ==
    ASSUME NEW t, InFlight(t)
    PROVE  call[t] # NoCall /\ Locked(call[t])
BY DEF InFlight, Locked

\* The holder changes its own session and route, and nobody else's.
LEMMA HolderInv ==
    ASSUME CommitInv, OneOrchestrator, OrchestratorInv', NEW t \in Threads,
           call[t] # NoCall, Locked(call[t]), UNCHANGED bound,
           \A u \in Threads : u # t => call'[u] = call[u],
           \A s \in Sessions : Started(s) => Started(s)',
           \A d \in Deployments : Deployed(d) => Deployed(d)',
           \A s \in Sessions : s # call[t].session =>
               /\ session'[s] = session[s] /\ reported'[s] = reported[s]
               /\ bound[s] # NoDeployment => deployment'[bound[s]] = deployment[bound[s]],
           call'[t] # NoCall =>
               /\ call'[t].op = "commit"
               /\ lockHolder'[call'[t].orch] = t /\ CommitOK(call[t])',
           \A s \in Sessions : s = call[t].session =>
               (InFlight(t)' /\ call'[t].session = s) \/ Settled(s)'
    PROVE  CommitInv'
<1>1. BindingsOK'
  BY BindingsStay
<1>2. "commit" \in Endpoints
  BY DEF CommitInv, CallsServed, Locked
<1>3. CallsServed'
  BY <1>2 DEF CommitInv, CallsServed
<1>4. ASSUME NEW u \in Threads, call'[u] # NoCall, Locked(call'[u])
      PROVE  lockHolder'[call'[u].orch] = u /\ CommitOK(call[u])'
  <2>1. u = t
    BY <1>4, OneHolder
  <2> QED BY <1>4, <2>1
<1>5. CommitsOK'
  BY <1>4 DEF CommitsOK, Locked
<1>6. ASSUME NEW s \in Sessions PROVE Settled(s)'
  <2>1. CASE s = call[t].session
    BY <2>1 DEF Settled
  <2>2. CASE s # call[t].session
    <3>1. ~ \E u \in Threads : InFlight(u) /\ call[u].session = s
      BY <2>2, FlightIsLocked, OneHolder
    <3>2. reported[s] \/ (Started(s) => Together(s, session[s].active))
      BY <3>1 DEF CommitInv, Settled
    <3>3. reported'[s] = reported[s] /\ (Started(s)' <=> Started(s))
      BY <2>2 DEF Started
    <3>4. Together(s, session[s].active) => Together(s, session[s].active)'
      BY <2>2 DEF Together, Active
    <3> QED BY <3>2, <3>3, <3>4 DEF Settled
  <2> QED BY <2>1, <2>2
<1> QED BY <1>1, <1>3, <1>5, <1>6 DEF CommitInv

-----------------------------------------------------------------------------
(* Steps of a thread that leave the commit of another alone. *)

OthersKeepLocks(t) ==
    \A u \in Threads, o \in Orchestrators : u # t /\ lockHolder[o] = u => lockHolder'[o] = u

LEMMA KeepLocks ==
    ASSUME OrchestratorInv, NEW t \in Threads,
           UNCHANGED lockHolder \/ Leave(t) \/ (LockFree(t) /\ Lock(t))
    PROVE  OthersKeepLocks(t)
<1>1. CASE UNCHANGED lockHolder
  BY <1>1 DEF OthersKeepLocks
<1>2. CASE Leave(t)
  BY <1>2 DEF OthersKeepLocks, Leave
<1>3. CASE LockFree(t) /\ Lock(t)
  BY <1>3, OrchestratorsAssumption
     DEF OthersKeepLocks, LockFree, Lock, OrchestratorInv, OwnTypeOK
<1> QED BY <1>1, <1>2, <1>3

LEMMA ThreadQuietInv ==
    ASSUME CommitInv, NEW t \in Threads, StepKeeps(t), Quiet, OthersKeepLocks(t),
           call'[t] # NoCall =>
               /\ call'[t].op \in Endpoints
               /\ Locked(call'[t]) => lockHolder'[call'[t].orch] = t /\ CommitOK(call'[t]),
           InFlight(t) => InFlight(t)' /\ call'[t].session = call[t].session
    PROVE  CommitInv'
<1>1. OrchestratorInv /\ OrchestratorInv' /\ [MigrationNext]_migrationVars
  BY KeepsInv DEF CommitInv, StepKeeps, ControllersStep
<1>2. ASSUME NEW u \in Threads, u # t
      PROVE  /\ call'[u] = call[u]
             /\ InFlight(u) => InFlight(u)'
             /\ call[u] # NoCall => CallOK(call[u]) /\ call[u].op \in Endpoints
             /\ call[u] # NoCall /\ Locked(call[u]) =>
                    lockHolder'[call[u].orch] = u /\ CommitOK(call[u])
  <2>1. call'[u] = call[u]
    BY <1>2 DEF StepKeeps, Goes
  <2>2. InFlight(u) => InFlight(u)'
    BY <2>1 DEF InFlight
  <2>3. call[u] # NoCall => CallOK(call[u]) /\ call[u].op \in Endpoints
    BY <1>1 DEF CommitInv, OrchestratorInv, CallsOK, CallsServed
  <2>4. ASSUME call[u] # NoCall, Locked(call[u])
        PROVE  lockHolder'[call[u].orch] = u /\ CommitOK(call[u])
    <3>1. lockHolder[call[u].orch] = u /\ CommitOK(call[u]) /\ call[u].orch \in Orchestrators
      BY <2>3, <2>4 DEF CommitInv, CommitsOK, CallOK, Calls
    <3> QED BY <1>2, <3>1 DEF OthersKeepLocks
  <2> QED BY <2>1, <2>2, <2>3, <2>4
<1>3. FlightsGoOn
  BY <1>2 DEF FlightsGoOn
<1>4. call'[t] # NoCall => CallOK(call'[t])
  BY DEF StepKeeps, Goes
<1>5. QuietCalls
  BY <1>2, <1>3, <1>4 DEF QuietCalls
<1> QED BY <1>1, <1>5, QuietInv

\* A call to plan, stage or abort is never inside the lock between steps.
LEMMA UnlockedInv ==
    ASSUME CommitInv, NEW t \in Threads, StepKeeps(t), Quiet,
           UNCHANGED lockHolder \/ Leave(t),
           call[t] # NoCall, call[t].op \in {"plan", "stage", "abort"},
           call'[t] # NoCall => call'[t].op = call[t].op
    PROVE  CommitInv'
<1>1. OthersKeepLocks(t)
  BY KeepLocks DEF CommitInv
<1>2. ~InFlight(t)
  BY DEF InFlight
<1>3. call'[t] # NoCall => call'[t].op \in Endpoints /\ ~Locked(call'[t])
  BY DEF CommitInv, CallsServed, Locked
<1> QED BY <1>1, <1>2, <1>3, ThreadQuietInv

\* The fields a call keeps when it goes on, and when it ends.
LEMMA GotoKeeps ==
    ASSUME OrchestratorInv, NEW t \in Threads, call[t] # NoCall, NEW label, Goto(t, label)
    PROVE  /\ call'[t].at = label
           /\ call'[t].op = call[t].op /\ call'[t].orch = call[t].orch
           /\ call'[t].session = call[t].session /\ call'[t].migration = call[t].migration
           /\ call'[t].deployment = call[t].deployment /\ call'[t].errors = call[t].errors
<1>1. call[t] \in Calls /\ call \in [Threads -> Calls \cup {NoCall}]
  BY DEF OrchestratorInv, OwnTypeOK
<1>2. call'[t] = [call[t] EXCEPT !.at = label]
  BY <1>1 DEF Goto
<1> QED BY <1>1, <1>2 DEF Calls

LEMMA LeaveEnds ==
    ASSUME OrchestratorInv, NEW t \in Threads, Leave(t)
    PROVE  call'[t] = NoCall
BY DEF Leave, OrchestratorInv, OwnTypeOK

LEMMA EnterInv ==
    ASSUME CommitInv, NEW t \in Threads, StepKeeps(t), NEW o, NEW op, NEW s, NEW m,
           Enter(t, o, op, s, m)
    PROVE  CommitInv'
<1>1. Quiet
  BY UnchangedQuiet DEF Enter, Quiet
<1>2. call'[t].at = "begin" /\ call'[t].op = op /\ op \in Endpoints
  BY DEF Enter, CommitInv, OrchestratorInv, OwnTypeOK
<1>3. OthersKeepLocks(t)
  BY KeepLocks DEF Enter, CommitInv
<1>4. ~InFlight(t)
  BY DEF Enter, InFlight
<1> QED BY <1>1, <1>2, <1>3, <1>4, ThreadQuietInv DEF Locked

LEMMA RequestInv ==
    ASSUME CommitInv, NEW t \in Threads, Request(t)
    PROVE  CommitInv'
<1>1. StepKeeps(t)
  BY RequestKeeps DEF CommitInv
<1> QED BY <1>1, EnterInv DEF Request

\* plan_pending
LEMMA PlanInvOfCommits ==
    ASSUME CommitInv, NEW t \in Threads, PlanRead(t) \/ PlanRecord(t)
    PROVE  CommitInv'
<1>0. OrchestratorInv /\ StepKeeps(t)
  BY PlanReadKeeps, PlanRecordKeeps DEF CommitInv
<1>1. call[t] # NoCall /\ call[t] \in Calls /\ call[t].op = "plan"
  BY <1>0, Caller DEF PlanRead, PlanRecord
<1>2. CASE PlanRead(t)
  <2>1. Quiet
    BY <1>2, UnchangedQuiet DEF PlanRead, Quiet
  <2>2. UNCHANGED lockHolder \/ Leave(t)
    BY <1>2 DEF PlanRead
  <2>3. call'[t] # NoCall => call'[t].op = call[t].op
    BY <1>0, <1>1, <1>2, LeaveEnds DEF PlanRead, Calls, OrchestratorInv, OwnTypeOK
  <2> QED BY <1>0, <1>1, <2>1, <2>2, <2>3, UnlockedInv
<1>3. CASE PlanRecord(t)
  <2>1. /\ call[t].migration \in Migrations /\ call[t].session \in Sessions
        /\ call[t].active \in Candidates /\ call[t].pending \in Candidates
    BY <1>0, <1>3, Caller DEF PlanRecord, CallOK
  <2>2. NoNewCommit
    BY <1>0, <1>3, <2>1, PlanQuiet, UnchangedQuiet DEF PlanRecord, OrchestratorInv
  <2>3. Quiet
    BY <1>3, <2>2, UnchangedQuiet DEF PlanRecord, Quiet
  <2>4. Leave(t) /\ call'[t] = NoCall
    BY <1>0, <1>3, LeaveEnds DEF PlanRecord
  <2> QED BY <1>0, <1>1, <2>3, <2>4, UnlockedInv
<1> QED BY <1>2, <1>3

\* stage_verified_migration
LEMMA StageInvOfCommits ==
    ASSUME CommitInv, NEW t \in Threads, StageRead(t) \/ StageBinding(t) \/ StageRoute(t)
    PROVE  CommitInv'
<1>0. OrchestratorInv /\ StepKeeps(t)
  BY StageReadKeeps, StageBindingKeeps, StageRouteKeeps DEF CommitInv
<1>1. call[t] # NoCall /\ call[t] \in Calls /\ call[t].op = "stage"
  BY <1>0, Caller DEF StageRead, StageBinding, StageRoute
<1>2. CASE StageRead(t)
  <2>1. Quiet
    BY <1>2, UnchangedQuiet DEF StageRead, Quiet
  <2>2. UNCHANGED lockHolder \/ Leave(t)
    BY <1>2 DEF StageRead
  <2>3. call'[t] # NoCall => call'[t].op = call[t].op
    BY <1>0, <1>1, <1>2, LeaveEnds, GotoKeeps DEF StageRead
  <2> QED BY <1>0, <1>1, <2>1, <2>2, <2>3, UnlockedInv
<1>3. CASE StageBinding(t)
  <2>1. Quiet
    BY <1>3, UnchangedQuiet DEF StageBinding, Quiet
  <2>2. UNCHANGED lockHolder \/ Leave(t)
    BY <1>3 DEF StageBinding
  <2>3. call'[t] # NoCall => call'[t].op = call[t].op
    BY <1>0, <1>1, <1>3, LeaveEnds DEF StageBinding, Calls, OrchestratorInv, OwnTypeOK
  <2> QED BY <1>0, <1>1, <2>1, <2>2, <2>3, UnlockedInv
<1>4. CASE StageRoute(t)
  <2> DEFINE m == call[t].migration
             d == call[t].deployment
             r == migration[m]
  <2>1. CallOK(call[t]) /\ call[t].at = "route"
    BY <1>0, <1>4, Caller DEF StageRoute
  <2>2. m \in Migrations /\ d \in Deployments /\ PassedGates(m) /\ r \in MigrationRecords
    BY <1>0, <1>1, <2>1, CallersMigration DEF CallOK
  <2>3. r.to \in Candidates /\ r.artifact \in Artifacts /\ r.manifest \in Manifests /\ m \in Origins
    BY <2>2, OrchestratorsAssumption DEF MigrationRecords, PassedGates
  <2>4. RoutesQuiet
    BY <1>0, <1>4, <2>2, <2>3, StageQuiet, UnchangedQuiet DEF StageRoute, OrchestratorInv
  <2>5. Quiet
    BY <1>4, <2>4, UnchangedQuiet DEF StageRoute, Quiet
  <2>6. Leave(t) /\ call'[t] = NoCall
    BY <1>0, <1>4, LeaveEnds DEF StageRoute
  <2> QED BY <1>0, <1>1, <2>5, <2>6, UnlockedInv
<1> QED BY <1>2, <1>3, <1>4

\* abort: it may drop the staged version and close the migration that a
\* commit is about to use, but it touches neither the session's candidate
\* nor the route.
LEMMA AbortInvOfCommits ==
    ASSUME CommitInv, NEW t \in Threads,
           \/ AbortBegin(t) \/ AbortBinding(t) \/ AbortCheckStaged(t)
           \/ AbortRoute(t) \/ AbortRecord(t) \/ AbortClearPending(t)
    PROVE  CommitInv'
<1>0. OrchestratorInv /\ StepKeeps(t)
  BY AbortBeginKeeps, AbortBindingKeeps, AbortCheckStagedKeeps, AbortRouteKeeps,
     AbortRecordKeeps, AbortClearPendingKeeps DEF CommitInv
<1>1. call[t] # NoCall /\ call[t] \in Calls /\ CallOK(call[t]) /\ call[t].op = "abort"
      /\ call[t].session \in Sessions
  BY <1>0, Caller DEF AbortBegin, AbortBinding, AbortCheckStaged, AbortRoute, AbortRecord,
                      AbortClearPending
<1>2. call[t].migration \in Migrations
  BY <1>0, <1>1, CallersMigration
<1>3. UNCHANGED lockHolder \/ Leave(t)
  BY DEF AbortBegin, AbortBinding, AbortCheckStaged, AbortRoute, AbortRecord, AbortClearPending
<1>4. call'[t] # NoCall => call'[t].op = call[t].op
  <2>1. CASE Leave(t)
    BY <1>0, <2>1, LeaveEnds
  <2>2. CASE \E label \in Places : Goto(t, label)
    BY <1>0, <1>1, <2>2, GotoKeeps
  <2>3. CASE AbortBinding(t)
    BY <1>0, <1>1, <2>3 DEF AbortBinding, Calls, OrchestratorInv, OwnTypeOK
  <2>4. {"binding", "route", "record", "pending"} \subseteq Places
    BY DEF Places
  <2> QED BY <2>1, <2>2, <2>3, <2>4
         DEF AbortBegin, AbortCheckStaged, AbortRoute, AbortRecord, AbortClearPending
<1>5. SessionsQuiet
  BY <1>0, <1>1, AbortPendingQuiet, UnchangedQuiet
     DEF AbortBegin, AbortBinding, AbortCheckStaged, AbortRoute, AbortRecord, AbortClearPending,
         OrchestratorInv
<1>6. RoutesQuiet
  <2>1. CASE AbortRoute(t)
    <3>1. call[t].deployment \in Deployments
      BY <1>0, <1>1, <2>1, Caller DEF AbortRoute, CallOK
    <3> QED BY <1>0, <2>1, <3>1, AbortStagedQuiet, UnchangedQuiet DEF AbortRoute, OrchestratorInv
  <2> QED BY <2>1, UnchangedQuiet
         DEF AbortBegin, AbortBinding, AbortCheckStaged, AbortRecord, AbortClearPending
<1>7. NoNewCommit
  BY <1>0, <1>2, MoveQuiet, UnchangedQuiet
     DEF AbortBegin, AbortBinding, AbortCheckStaged, AbortRoute, AbortRecord, AbortClearPending,
         OrchestratorInv
<1>8. Quiet
  BY <1>5, <1>6, <1>7
     DEF AbortBegin, AbortBinding, AbortCheckStaged, AbortRoute, AbortRecord, AbortClearPending,
         Quiet
<1> QED BY <1>0, <1>1, <1>3, <1>4, <1>8, UnlockedInv

\* The endpoints that call one controller.
LEMMA DirectInvOfCommits ==
    ASSUME CommitInv, ControllersStep, Quiet, UNCHANGED <<lockHolder, call>>
    PROVE  CommitInv'
<1>1. OrchestratorInv' /\ [MigrationNext]_migrationVars
  BY DirectInv DEF CommitInv, Quiet, ControllersStep
<1>2. FlightsGoOn
  BY DEF FlightsGoOn, InFlight
<1>3. QuietCalls
  BY <1>2 DEF QuietCalls, CommitInv, CallsServed, CommitsOK, OrchestratorInv, CallsOK
<1> QED BY <1>1, <1>3, QuietInv

LEMMA DirectRuntimeInv ==
    ASSUME CommitInv, OneOrchestrator, NEW s \in Sessions, DirectRuntime(s)
    PROVE  CommitInv'
<1>1. OrchestratorInv /\ RuntimeInv
  BY DEF CommitInv, OrchestratorInv
<1>2. "runtime confirm" \notin Endpoints /\ "runtime rollback" \notin Endpoints
  BY DEF OneOrchestrator
<1>3. SessionsQuiet
  BY <1>1, <1>2, StartQuiet, ObserveQuiet, AbortPendingQuiet DEF DirectRuntime
<1>4. Quiet
  BY <1>3, UnchangedQuiet DEF DirectRuntime, Quiet
<1> QED BY <1>1, <1>4, DirectRuntimeKeeps, DirectInvOfCommits DEF DirectRuntime

LEMMA DirectMigrationInv ==
    ASSUME CommitInv, NEW m \in Migrations, DirectMigration(m)
    PROVE  CommitInv'
<1>1. OrchestratorInv /\ MigrationInv
  BY DEF CommitInv, OrchestratorInv
<1>2. NoNewCommit
  BY <1>1, ShadowBuiltQuiet, VerifyQuiet DEF DirectMigration
<1>3. Quiet
  BY <1>2, UnchangedQuiet DEF DirectMigration, Quiet
<1> QED BY <1>1, <1>3, DirectMigrationKeeps, DirectInvOfCommits DEF DirectMigration

LEMMA DirectRouterInv ==
    ASSUME CommitInv, NEW d \in Deployments, DirectRouter(d)
    PROVE  CommitInv'
<1>1. OrchestratorInv /\ RouterInv
  BY DEF CommitInv, OrchestratorInv
<1>2. RoutesQuiet
  BY <1>1, BootstrapQuiet DEF DirectRouter
<1>3. Quiet
  BY <1>2, UnchangedQuiet DEF DirectRouter, Quiet
<1> QED BY <1>1, <1>3, DirectRouterKeeps, DirectInvOfCommits DEF DirectRouter

-----------------------------------------------------------------------------
(* authorize_commit and its compensation. *)

\* The lock is taken by a thread whose migration belongs to the session it names.
LEMMA CommitBeginInv ==
    ASSUME CommitInv, NEW t \in Threads, CommitBegin(t)
    PROVE  CommitInv'
<1>0. OrchestratorInv /\ StepKeeps(t)
  BY CommitBeginKeeps DEF CommitInv
<1>1. /\ call[t] # NoCall /\ call[t] \in Calls /\ call[t].op = "commit" /\ call[t].at = "begin"
      /\ call[t].orch \in Orchestrators
  BY <1>0, Caller DEF CommitBegin
<1>2. Quiet /\ ~InFlight(t)
  BY <1>1, UnchangedQuiet DEF CommitBegin, Quiet, InFlight
<1>3. OthersKeepLocks(t)
  BY <1>0, KeepLocks DEF CommitBegin
<1>4. CASE Leave(t)
  BY <1>0, <1>2, <1>3, <1>4, LeaveEnds, ThreadQuietInv
<1>5. CASE OwnMigration(t) /\ InState(call[t].migration, "VERIFIED") /\ Lock(t) /\ Goto(t, "runtime")
  <2>1. /\ call'[t].at = "runtime" /\ call'[t].op = "commit"
        /\ call'[t].orch = call[t].orch /\ call'[t].session = call[t].session
        /\ call'[t].migration = call[t].migration
    BY <1>0, <1>1, <1>5, GotoKeeps
  <2>2. CommitOK(call'[t])
    <3>1. PassedGates(call[t].migration) /\ migration[call[t].migration].state = "VERIFIED"
      BY <1>0, <1>1, <1>5, CallersMigration, MigrationInvGates
         DEF InState, GatesGuardCommit, OrchestratorInv
    <3> QED BY <1>5, <2>1, <3>1 DEF CommitOK, OwnMigration
  <2>3. lockHolder'[call'[t].orch] = t
    BY <1>0, <1>1, <1>5, <2>1 DEF Lock, OrchestratorInv, OwnTypeOK
  <2>4. "commit" \in Endpoints
    BY <1>1 DEF CommitInv, CallsServed
  <2> QED BY <1>0, <1>2, <1>3, <2>1, <2>2, <2>3, <2>4, ThreadQuietInv
<1> QED BY <1>4, <1>5 DEF CommitBegin

\* What the holder knows, and the facts of its call that never change.
LEMMA Holder ==
    ASSUME CommitInv, OneOrchestrator, NEW t \in Threads, NEW label, At(t, "commit", label),
           label # "begin"
    PROVE  /\ call[t] # NoCall /\ call[t] \in Calls /\ call[t].op = "commit" /\ call[t].at = label
           /\ Locked(call[t]) /\ lockHolder[call[t].orch] = t /\ CommitOK(call[t])
           /\ call[t].orch = "v2" /\ DeploymentFor(t) = bound[call[t].session]
           /\ call[t].session \in Sessions /\ Started(call[t].session)
           /\ session[call[t].session] \in SessionRecords
           /\ call[t].migration \in Migrations
           /\ call[t].deployment \in Deployments \cup {NoDeployment}
           /\ migration[call[t].migration] \in MigrationRecords
           /\ From(t) \in Candidates /\ To(t) \in Candidates
           /\ "commit" \in Endpoints
<1>1. OrchestratorInv
  BY DEF CommitInv
<1>2. /\ call[t] # NoCall /\ call[t] \in Calls /\ call[t].op = "commit" /\ call[t].at = label
      /\ call[t].session \in Sessions /\ call[t].orch \in Orchestrators
      /\ call[t].deployment \in Deployments \cup {NoDeployment}
      /\ Started(call[t].session) /\ session[call[t].session] \in SessionRecords
  BY <1>1, Caller
<1>3. Locked(call[t]) /\ lockHolder[call[t].orch] = t /\ CommitOK(call[t])
  BY <1>2 DEF Locked, CommitInv, CommitsOK
<1>4. call[t].orch = "v2" /\ DeploymentFor(t) = bound[call[t].session]
  BY <1>2 DEF OneOrchestrator, DeploymentFor
<1>5. "commit" \in Endpoints
  BY <1>2 DEF CommitInv, CallsServed
<1> QED BY <1>1, <1>2, <1>3, <1>4, <1>5, CallersMigration

\* The holder goes on, or leaves before it has changed anything.
LEMMA HolderGoesOn ==
    ASSUME CommitInv, OneOrchestrator, NEW t \in Threads, NEW label, At(t, "commit", label),
           label # "begin", StepKeeps(t), Quiet, UNCHANGED lockHolder, call'[t] # NoCall,
           call'[t].op = call[t].op, call'[t].orch = call[t].orch,
           call'[t].session = call[t].session,
           InFlight(t) => InFlight(t)',
           CommitOK(call'[t])
    PROVE  CommitInv'
<1>1. OthersKeepLocks(t)
  BY KeepLocks DEF CommitInv
<1>2. call'[t].op \in Endpoints /\ lockHolder'[call'[t].orch] = t
  BY Holder
<1> QED BY <1>1, <1>2, ThreadQuietInv

LEMMA HolderGivesUp ==
    ASSUME CommitInv, NEW t \in Threads, StepKeeps(t), Quiet, Leave(t), ~InFlight(t)
    PROVE  CommitInv'
<1>1. OthersKeepLocks(t)
  BY KeepLocks DEF CommitInv
<1> QED BY <1>1, LeaveEnds, ThreadQuietInv DEF CommitInv

LEMMA CommitCheckRuntimeInv ==
    ASSUME CommitInv, OneOrchestrator, NEW t \in Threads, CommitCheckRuntime(t)
    PROVE  CommitInv'
<1> DEFINE d == DeploymentFor(t)
           label == IF d = NoDeployment THEN "confirm" ELSE "route"
           s == call[t].session
<1>0. OrchestratorInv /\ StepKeeps(t)
  BY CommitCheckRuntimeKeeps DEF CommitInv
<1>1. /\ call[t] # NoCall /\ call[t] \in Calls /\ call[t].op = "commit" /\ call[t].at = "runtime"
      /\ CommitOK(call[t]) /\ d = bound[s]
  BY Holder DEF CommitCheckRuntime
<1>2. Quiet /\ ~InFlight(t)
  BY <1>1, UnchangedQuiet DEF CommitCheckRuntime, Quiet, InFlight
<1>3. CASE Leave(t)
  BY <1>0, <1>2, <1>3, HolderGivesUp
<1>4. CASE /\ session[s].active = From(t)
           /\ call' = [call EXCEPT ![t].deployment = d, ![t].at = label]
           /\ UNCHANGED lockHolder
  <2>1. call'[t] = [call[t] EXCEPT !.deployment = d, !.at = label]
    BY <1>0, <1>4 DEF OrchestratorInv, OwnTypeOK
  <2>2. /\ call'[t].at = label /\ call'[t].deployment = d
        /\ call'[t].op = call[t].op /\ call'[t].orch = call[t].orch
        /\ call'[t].session = s /\ call'[t].migration = call[t].migration
    BY <1>1, <2>1 DEF Calls
  <2>3. call'[t] # NoCall
    <3>1. call'[t] \in Calls
      <4>1. d \in Deployments \cup {NoDeployment}
        BY <1>0, <1>1, DeploymentForTyped
      <4> QED BY <1>1, <2>1, <4>1 DEF Calls
    <3> QED BY <3>1, CallsAssumption
  <2>4. CommitOK(call'[t])
    BY <1>1, <1>4, <2>2 DEF CommitOK, From
  <2> HIDE DEF d, label
  <2> QED BY <1>0, <1>2, <1>4, <2>2, <2>3, <2>4, HolderGoesOn DEF CommitCheckRuntime
<1> QED BY <1>3, <1>4 DEF CommitCheckRuntime

\* The holder moves the session, the route or the ledger entry of its call.
LEMMA HolderMoves ==
    ASSUME CommitInv, OneOrchestrator, NEW t \in Threads, NEW label, At(t, "commit", label),
           label # "begin", NEW place \in Places, StepKeeps(t),
           UNCHANGED <<bound, reported, lockHolder>>, Goto(t, place),
           place \in {"confirm", "record", "undoRoute", "undoRuntime?", "undoRecord?",
                      "verifyRuntime"},
           \A s \in Sessions : Started(s) => Started(s)',
           \A d \in Deployments : Deployed(d) => Deployed(d)',
           \A s \in Sessions : s # call[t].session =>
               /\ session'[s] = session[s]
               /\ bound[s] # NoDeployment => deployment'[bound[s]] = deployment[bound[s]],
           CommitOK(call[t])'
    PROVE  CommitInv'
<1>1. OrchestratorInv /\ OrchestratorInv'
  BY KeepsInv DEF CommitInv
<1>2. /\ call[t] # NoCall /\ Locked(call[t]) /\ call[t].op = "commit"
      /\ lockHolder[call[t].orch] = t
  BY Holder
<1>3. /\ call'[t].at = place /\ call'[t].op = "commit"
      /\ call'[t].orch = call[t].orch /\ call'[t].session = call[t].session
  BY <1>1, <1>2, GotoKeeps
<1>4. \A u \in Threads : u # t => call'[u] = call[u]
  BY DEF StepKeeps, Goes
<1>5. ASSUME NEW s \in Sessions, s = call[t].session
      PROVE  (InFlight(t)' /\ call'[t].session = s) \/ Settled(s)'
  <2>1. PICK c : c = call[t]
    OBVIOUS
  <2>2. call' = [call EXCEPT ![t] = [c EXCEPT !.at = place]]
        /\ c \in Calls /\ call \in [Threads -> Calls \cup {NoCall}]
    BY <1>1, <1>2, <2>1 DEF Goto, OrchestratorInv, OwnTypeOK
  <2>3. [c EXCEPT !.at = place] \in Calls
    BY <2>2 DEF Calls, Places
  <2>4. call'[t] # NoCall
    BY <2>2, <2>3, CallsAssumption
  <2> QED BY <1>3, <1>5, <2>4 DEF InFlight
<1> QED BY <1>1, <1>2, <1>3, <1>4, <1>5, HolderInv

\* The record of one session is replaced.
LEMMA OwnSession ==
    ASSUME RuntimeInv, NEW s \in Sessions, NEW r \in SessionRecords,
           session' = [session EXCEPT ![s] = r]
    PROVE  /\ session'[s] = r
           /\ \A u \in Sessions : u # s => session'[u] = session[u]
           /\ \A u \in Sessions : Started(u) => Started(u)'
BY NoSessionAssumption DEF RuntimeInv, RuntimeTypeOK, Started

\* The record of one deployment is replaced; a binding is nobody else's.
LEMMA OwnRoute ==
    ASSUME CommitInv, NEW s \in Sessions, bound[s] # NoDeployment, NEW r \in DeploymentRecords,
           deployment' = [deployment EXCEPT ![bound[s]] = r]
    PROVE  /\ deployment'[bound[s]] = r
           /\ \A u \in Sessions : u # s /\ bound[u] # NoDeployment =>
                  deployment'[bound[u]] = deployment[bound[u]]
           /\ \A k \in Deployments : Deployed(k) => Deployed(k)'
<1>1. deployment \in [Deployments -> DeploymentRecords \cup {NoDeployment}]
  BY DEF CommitInv, OrchestratorInv, RouterInv, RouterTypeOK
<1>2. bound[s] \in Deployments
  BY BoundDeployed
<1>3. \A u \in Sessions : u # s /\ bound[u] # NoDeployment =>
         bound[u] \in Deployments /\ bound[u] # bound[s]
  BY BoundDeployed DEF CommitInv, BindingsOK
<1> QED BY <1>1, <1>2, <1>3, NoDeploymentAssumption DEF Deployed

\* activate: the route reaches the target because the staged version has it.
LEMMA CommitRouteInv ==
    ASSUME CommitInv, OneOrchestrator, NEW t \in Threads, CommitRoute(t)
    PROVE  CommitInv'
<1> DEFINE s == call[t].session
           d == call[t].deployment
<1>0. OrchestratorInv /\ StepKeeps(t)
  BY CommitRouteKeeps DEF CommitInv
<1>1. /\ At(t, "commit", "route") /\ call[t] # NoCall /\ call[t] \in Calls /\ CallOK(call[t])
      /\ call[t].op = "commit" /\ call[t].at = "route" /\ CommitOK(call[t])
      /\ s \in Sessions
  BY <1>0, Holder, Caller DEF CommitRoute
<1>2. ~InFlight(t)
  BY <1>1 DEF InFlight
<1>3. d = bound[s] /\ d \in Deployments /\ d # NoDeployment
  <2>1. d \in Deployments
    BY <1>1 DEF CallOK
  <2>2. d = bound[s] /\ d # NoDeployment
    BY <1>1 DEF CommitOK
  <2> QED BY <2>1, <2>2
<1>4. CASE Leave(t) /\ UNCHANGED routerVars
  <2>1. Quiet
    BY <1>4, UnchangedQuiet DEF CommitRoute, Quiet
  <2> QED BY <1>0, <1>2, <1>4, <2>1, HolderGivesUp
<1>5. CASE Activate(d, From(t), To(t)) /\ Goto(t, "confirm") /\ UNCHANGED lockHolder
  <2> DEFINE r == Activated(deployment[d])
  <2>1. RecordOK(deployment[d]) /\ Staged(d) # NoVersion /\ Staged(d).candidate = To(t)
    BY <1>0, <1>3, <1>5 DEF Activate, ActivateOk, OrchestratorInv, RouterInv
  <2>2. r \in DeploymentRecords /\ r.active.candidate = To(t)
    BY <2>1, ActivatedRecord DEF RecordOK, Activated, Staged
  <2>3. deployment' = [deployment EXCEPT ![bound[s]] = r]
    BY <1>3, <1>5 DEF Activate, OrchestratorInv, RouterInv, RouterTypeOK
  <2> HIDE DEF r
  <2>4. /\ deployment'[d] = r
        /\ \A u \in Sessions : u # s /\ bound[u] # NoDeployment =>
               deployment'[bound[u]] = deployment[bound[u]]
        /\ \A k \in Deployments : Deployed(k) => Deployed(k)'
    <3>1. bound[s] # NoDeployment /\ s \in Sessions /\ r \in DeploymentRecords
      BY <1>1, <1>3, <2>2
    <3>2. /\ deployment'[bound[s]] = r
          /\ \A u \in Sessions : u # s /\ bound[u] # NoDeployment =>
                 deployment'[bound[u]] = deployment[bound[u]]
          /\ \A k \in Deployments : Deployed(k) => Deployed(k)'
      BY <2>3, <3>1, OwnRoute
    <3> QED BY <1>3, <3>2
  <2>5. UNCHANGED <<session, migration, bound, reported, lockHolder>>
    BY <1>5 DEF CommitRoute
  <2>6. CommitOK(call[t])'
    <3>1. /\ call'[t].at = "confirm" /\ call'[t].session = s
          /\ call'[t].migration = call[t].migration /\ call'[t].deployment = d
      BY <1>0, <1>1, <1>5, GotoKeeps
    <3>2. bound'[s] = d /\ deployment'[bound'[s]].active.candidate = To(t)
      BY <1>3, <2>2, <2>4, <2>5
    <3> QED BY <1>1, <2>5, <3>1, <3>2 DEF CommitOK, To, From, Active
  <2> QED BY <1>0, <1>1, <1>5, <2>4, <2>5, <2>6, HolderMoves DEF Places, Started
<1> QED BY <1>4, <1>5 DEF CommitRoute

\* confirm_migration: a session that accepts the target runs it.
LEMMA CommitConfirmInv ==
    ASSUME CommitInv, OneOrchestrator, NEW t \in Threads, CommitConfirm(t)
    PROVE  CommitInv'
<1> DEFINE s == call[t].session
<1>0. OrchestratorInv /\ RuntimeInv /\ StepKeeps(t)
  BY CommitConfirmKeeps DEF CommitInv, OrchestratorInv
<1>1. /\ At(t, "commit", "confirm") /\ call[t] # NoCall /\ call[t] \in Calls
      /\ call[t].op = "commit" /\ call[t].at = "confirm" /\ CommitOK(call[t])
      /\ s \in Sessions /\ Started(s)
  BY Holder DEF CommitConfirm
<1>2. UNCHANGED <<migration, routerVars, bound, reported, lockHolder>>
  BY DEF CommitConfirm
<1>3. CASE Goto(t, "undoRoute") /\ UNCHANGED session
  <2>1. /\ call'[t].at = "undoRoute" /\ call'[t].session = s
        /\ call'[t].migration = call[t].migration /\ call'[t].deployment = call[t].deployment
    BY <1>0, <1>1, <1>3, GotoKeeps
  <2>2. CommitOK(call[t])'
    BY <1>1, <1>2, <2>1 DEF CommitOK
  <2> QED BY <1>0, <1>1, <1>2, <1>3, <2>2, HolderMoves DEF Places, Started, routerVars, Deployed
<1>4. CASE Confirm(s, To(t)) /\ \E place \in {"record", "undoRoute"} : Goto(t, place)
  <2>1. PICK place \in {"record", "undoRoute"} : Goto(t, place)
    BY <1>4
  <2> DEFINE r == Confirmed(session[s])
  <2>2. RecordInv(session[s]) /\ session[s].pendingCandidate = To(t)
        /\ session[s].pendingCandidate # NoCandidate
    BY <1>0, <1>1, <1>4, StartedRecord DEF Confirm, ConfirmOk
  <2>3. r \in SessionRecords /\ r.active = To(t)
    BY <2>2, ConfirmedInv DEF RecordInv, Confirmed, SessionRecords
  <2>4. session' = [session EXCEPT ![s] = r]
    BY <1>0, <1>4 DEF Confirm, RuntimeInv, RuntimeTypeOK
  <2> HIDE DEF r
  <2>5. /\ session'[s] = r
        /\ \A u \in Sessions : u # s => session'[u] = session[u]
        /\ \A u \in Sessions : Started(u) => Started(u)'
    BY <1>0, <1>1, <2>3, <2>4, OwnSession
  <2>6. /\ call'[t].at = place /\ call'[t].session = s
        /\ call'[t].migration = call[t].migration /\ call'[t].deployment = call[t].deployment
    BY <1>0, <1>1, <2>1, GotoKeeps
  <2>7. CommitOK(call[t])'
    <3>1. session'[s].active = To(t) /\ migration' = migration /\ bound' = bound
          /\ deployment' = deployment
      BY <1>2, <2>3, <2>5 DEF routerVars
    <3> QED BY <1>1, <2>6, <3>1 DEF CommitOK, To, Active
  <2>8. place \in Places /\ \A d \in Deployments : Deployed(d) => Deployed(d)'
    BY <1>2 DEF Places, routerVars, Deployed
  <2>9. UNCHANGED deployment
    BY <1>2 DEF routerVars
  <2> QED BY <1>0, <1>1, <1>2, <2>1, <2>5, <2>7, <2>8, <2>9, HolderMoves
<1> QED BY <1>3, <1>4 DEF CommitConfirm

\* The ledger's commit: the session and the route are on the target by then.
LEMMA CommitRecordInv ==
    ASSUME CommitInv, OneOrchestrator, NEW t \in Threads, CommitRecord(t)
    PROVE  CommitInv'
<1> DEFINE s == call[t].session
           m == call[t].migration
<1>0. OrchestratorInv /\ OrchestratorInv' /\ StepKeeps(t)
  BY CommitRecordKeeps, KeepsInv DEF CommitInv
<1>1. /\ At(t, "commit", "record") /\ call[t] # NoCall /\ call[t] \in Calls
      /\ call[t].op = "commit" /\ call[t].at = "record" /\ CommitOK(call[t]) /\ Locked(call[t])
      /\ s \in Sessions /\ Started(s) /\ m \in Migrations
  BY Holder DEF CommitRecord
<1>2. UNCHANGED <<session, routerVars, bound, reported>>
  BY DEF CommitRecord
<1>3. /\ \A q \in Sessions : Started(q) => Started(q)'
      /\ \A d \in Deployments : Deployed(d) => Deployed(d)'
      /\ UNCHANGED deployment
  BY <1>2 DEF Started, Deployed, routerVars
<1>4. migration'[m].session = migration[m].session
  <2>1. Planned(m)
    BY <1>0, <1>1, Caller DEF CallOK
  <2>2. [MigrationNext]_migrationVars
    BY <1>0 DEF StepKeeps, ControllersStep
  <2> QED BY <1>0, <1>1, <2>1, <2>2, PlannedStays DEF OrchestratorInv, SameIdentity
<1>5. CASE Goto(t, "undoRoute") /\ UNCHANGED lockHolder
  <2>1. /\ call'[t].at = "undoRoute" /\ call'[t].session = s
        /\ call'[t].migration = m /\ call'[t].deployment = call[t].deployment
    BY <1>0, <1>1, <1>5, GotoKeeps
  <2>2. CommitOK(call[t])'
    BY <1>1, <1>2, <1>4, <2>1 DEF CommitOK
  <2> QED BY <1>0, <1>1, <1>2, <1>3, <1>5, <2>2, HolderMoves DEF Places
<1>6. CASE Leave(t)
  <2>1. call'[t] = NoCall /\ \A u \in Threads : u # t => call'[u] = call[u]
    BY <1>0, <1>6, LeaveEnds DEF StepKeeps, Goes
  <2>2. ASSUME NEW q \in Sessions, q = s PROVE Settled(q)'
    <3>1. /\ session[q].active = To(t)
          /\ bound[q] # NoDeployment => Active(bound[q]).candidate = To(t)
      BY <1>1, <2>2 DEF CommitOK, To
    <3>2. session' = session /\ bound' = bound /\ deployment' = deployment
      BY <1>2, <1>3
    <3>3. Together(q, session[q].active)'
      BY <3>1, <3>2 DEF Together, Active
    <3> QED BY <3>3 DEF Settled
  <2> QED BY <1>0, <1>1, <1>2, <1>3, <2>1, <2>2, HolderInv
<1> QED BY <1>5, <1>6 DEF CommitRecord

\* The compensation of the route.
LEMMA UndoRouteInv ==
    ASSUME CommitInv, OneOrchestrator, NEW t \in Threads, UndoRoute(t)
    PROVE  CommitInv'
<1> DEFINE s == call[t].session
           d == call[t].deployment
<1>0. OrchestratorInv /\ StepKeeps(t)
  BY UndoRouteKeeps DEF CommitInv
<1>1. /\ At(t, "commit", "undoRoute") /\ call[t] # NoCall /\ call[t] \in Calls
      /\ call[t].op = "commit" /\ call[t].at = "undoRoute" /\ CommitOK(call[t]) /\ d = bound[s]
      /\ s \in Sessions
  BY Holder DEF UndoRoute, CommitOK
<1>2. UNCHANGED <<session, migration, bound, reported, lockHolder>> /\ Goto(t, "undoRuntime?")
  BY DEF UndoRoute
<1>3. CommitOK(call[t])'
  <2>1. /\ call'[t].at = "undoRuntime?" /\ call'[t].session = s
        /\ call'[t].migration = call[t].migration /\ call'[t].deployment = d
    BY <1>0, <1>1, <1>2, GotoKeeps
  <2> QED BY <1>1, <1>2, <2>1 DEF CommitOK
<1>4. CASE UNCHANGED routerVars
  BY <1>0, <1>1, <1>2, <1>3, <1>4, HolderMoves DEF Places, Started, Deployed, routerVars
<1>5. CASE d # NoDeployment /\ RouterRollback(d)
  <2> DEFINE r == Restored(deployment[d])
  <2>1. d \in Deployments
    BY <1>1, <1>5, BoundDeployed
  <2>2. RecordOK(deployment[d]) /\ Len(deployment[d].rollbackStack) > 0
        /\ deployment[d].active.generation + 1 \in Generations
    BY <1>0, <1>5, <2>1
       DEF RouterRollback, RouterRollbackOk, RollbackDepth, Active, OrchestratorInv, RouterInv
  <2>3. r \in DeploymentRecords
    BY <2>2, RestoredRecord DEF RecordOK
  <2>4. deployment' = [deployment EXCEPT ![bound[s]] = r]
    BY <1>0, <1>1, <1>5, <2>1 DEF RouterRollback, OrchestratorInv, RouterInv, RouterTypeOK
  <2> HIDE DEF r
  <2>5. /\ \A u \in Sessions : u # s /\ bound[u] # NoDeployment =>
               deployment'[bound[u]] = deployment[bound[u]]
        /\ \A k \in Deployments : Deployed(k) => Deployed(k)'
    <3>1. bound[s] # NoDeployment
      BY <1>1, <1>5
    <3> QED BY <1>1, <2>3, <2>4, <3>1, OwnRoute
  <2> QED BY <1>0, <1>1, <1>2, <1>3, <2>5, HolderMoves DEF Places, Started
<1> QED BY <1>4, <1>5 DEF UndoRoute

\* A step of the holder that only writes its own call.
LEMMA HolderNotes ==
    ASSUME CommitInv, OneOrchestrator, NEW t \in Threads, NEW label, At(t, "commit", label),
           label \in {"undoRuntime?", "undoRuntime", "undoRecord?", "undoRecord", "verifyRuntime"},
           StepKeeps(t), UNCHANGED <<controllers, bound, reported, lockHolder>>,
           NEW place, NEW errors \in BOOLEAN,
           place \in {"undoRuntime", "undoRecord?", "undoRecord", "verifyRuntime", "verifyRoute"},
           call' = [call EXCEPT ![t].at = place, ![t].errors = errors],
           place \in {"verifyRuntime", "verifyRoute"} /\ ~errors =>
               ~InState(call[t].migration, "COMMITTED"),
           place = "verifyRoute" /\ ~errors => session[call[t].session].active = From(t)
    PROVE  CommitInv'
<1>0. OrchestratorInv
  BY DEF CommitInv
<1>1. /\ call[t] # NoCall /\ call[t] \in Calls /\ call[t].op = "commit" /\ call[t].at = label
      /\ CommitOK(call[t])
  BY Holder
<1> DEFINE c == [call[t] EXCEPT !.at = place, !.errors = errors]
<1>2. call'[t] = c
  BY <1>0 DEF OrchestratorInv, OwnTypeOK
<1>3. c \in Calls
  BY <1>1 DEF Calls
<1>4. /\ c.at = place /\ c.errors = errors
      /\ c.op = call[t].op /\ c.orch = call[t].orch /\ c.session = call[t].session
      /\ c.migration = call[t].migration /\ c.deployment = call[t].deployment
  BY <1>1 DEF Calls
<1> HIDE DEF c
<1>5. CommitOK(c)
  <2>1. /\ migration[c.migration].session = c.session
        /\ c.deployment = bound[c.session]
    BY <1>1, <1>4 DEF CommitOK
  <2> QED BY <1>4, <2>1 DEF CommitOK, From
<1>6. Quiet
  BY UnchangedQuiet DEF Quiet
<1>7. c # NoCall /\ InFlight(t)'
  BY <1>1, <1>2, <1>3, <1>4, CallsAssumption DEF InFlight
<1>8. CommitOK(call'[t])
  BY <1>2, <1>5
<1> QED BY <1>1, <1>2, <1>4, <1>6, <1>7, <1>8, HolderGoesOn

\* Such a step written as a change of place only.
LEMMA NotesOnlyPlace ==
    ASSUME OrchestratorInv, NEW t \in Threads, call[t] # NoCall, NEW place, Goto(t, place)
    PROVE  /\ call[t].errors \in BOOLEAN
           /\ call' = [call EXCEPT ![t].at = place, ![t].errors = call[t].errors]
<1>1. call[t] \in Calls /\ call \in [Threads -> Calls \cup {NoCall}]
  BY DEF OrchestratorInv, OwnTypeOK
<1>2. [call[t] EXCEPT !.at = place] = [call[t] EXCEPT !.at = place, !.errors = call[t].errors]
  BY <1>1 DEF Calls
<1>3. call[t].errors \in BOOLEAN
  BY <1>1 DEF Calls
<1> QED BY <1>1, <1>2, <1>3 DEF Goto

LEMMA UndoRuntimeNeededInv ==
    ASSUME CommitInv, OneOrchestrator, NEW t \in Threads, UndoRuntimeNeeded(t)
    PROVE  CommitInv'
<1>0. OrchestratorInv /\ StepKeeps(t)
  BY UndoRuntimeNeededKeeps DEF CommitInv
<1>1. At(t, "commit", "undoRuntime?") /\ call[t] # NoCall
  BY DEF UndoRuntimeNeeded, At
<1>2. PICK place \in {"undoRuntime", "undoRecord?"} : Goto(t, place)
  BY DEF UndoRuntimeNeeded
<1>3. call[t].errors \in BOOLEAN /\ call' = [call EXCEPT ![t].at = place, ![t].errors = call[t].errors]
  BY <1>0, <1>1, <1>2, NotesOnlyPlace
<1> QED BY <1>0, <1>1, <1>3, HolderNotes DEF UndoRuntimeNeeded

\* The compensation of the session: put back, or noted as an error.
LEMMA UndoRuntimeInv ==
    ASSUME CommitInv, OneOrchestrator, NEW t \in Threads, UndoRuntime(t)
    PROVE  CommitInv'
<1> DEFINE s == call[t].session
<1>0. OrchestratorInv /\ RuntimeInv /\ StepKeeps(t)
  BY UndoRuntimeKeeps DEF CommitInv, OrchestratorInv
<1>1. /\ At(t, "commit", "undoRuntime") /\ call[t] # NoCall /\ call[t] \in Calls
      /\ call[t].op = "commit" /\ call[t].at = "undoRuntime" /\ CommitOK(call[t])
      /\ s \in Sessions /\ Started(s)
  BY Holder DEF UndoRuntime
<1>2. UNCHANGED <<migration, routerVars, bound, reported, lockHolder>>
  BY DEF UndoRuntime
<1>3. CASE /\ call' = [call EXCEPT ![t].at = "undoRecord?", ![t].errors = TRUE]
           /\ UNCHANGED session
  <2>1. UNCHANGED <<controllers, bound, reported, lockHolder>>
    BY <1>2, <1>3 DEF controllers, routerVars
  <2> QED BY <1>0, <1>1, <1>3, <2>1, HolderNotes
<1>4. CASE RollbackLastSwitch(s) /\ Goto(t, "undoRecord?")
  <2> DEFINE r == RolledBack(session[s])
  <2>1. r \in SessionRecords
    BY <1>0, <1>1, <1>4, StartedRecord, RolledBackInv
       DEF RollbackLastSwitch, RollbackLastSwitchOk, RecordInv
  <2>2. session' = [session EXCEPT ![s] = r]
    BY <1>0, <1>4 DEF RollbackLastSwitch, RuntimeInv, RuntimeTypeOK
  <2> HIDE DEF r
  <2>3. /\ \A u \in Sessions : u # s => session'[u] = session[u]
        /\ \A u \in Sessions : Started(u) => Started(u)'
    BY <1>0, <1>1, <2>1, <2>2, OwnSession
  <2>4. /\ call'[t].at = "undoRecord?" /\ call'[t].session = s
        /\ call'[t].migration = call[t].migration /\ call'[t].deployment = call[t].deployment
    BY <1>0, <1>1, <1>4, GotoKeeps
  <2>5. CommitOK(call[t])'
    <3>1. migration' = migration /\ bound' = bound
      BY <1>2
    <3> QED BY <1>1, <2>4, <3>1 DEF CommitOK
  <2>6. UNCHANGED deployment /\ \A d \in Deployments : Deployed(d) => Deployed(d)'
    BY <1>2 DEF routerVars, Deployed
  <2> QED BY <1>0, <1>1, <1>2, <1>4, <2>3, <2>5, <2>6, HolderMoves DEF Places
<1> QED BY <1>3, <1>4 DEF UndoRuntime

\* A migration that is not COMMITTED when this is read will not be: only the
\* holder records commits.
LEMMA UndoRecordNeededInv ==
    ASSUME CommitInv, OneOrchestrator, NEW t \in Threads, UndoRecordNeeded(t)
    PROVE  CommitInv'
<1>0. OrchestratorInv /\ StepKeeps(t)
  BY UndoRecordNeededKeeps DEF CommitInv
<1>1. At(t, "commit", "undoRecord?") /\ call[t] # NoCall
  BY DEF UndoRecordNeeded, At
<1>2. PICK place \in {"undoRecord", "verifyRuntime"} :
         Goto(t, place) /\ (place = "verifyRuntime" => ~InState(call[t].migration, "COMMITTED"))
  BY DEF UndoRecordNeeded
<1>3. call[t].errors \in BOOLEAN /\ call' = [call EXCEPT ![t].at = place, ![t].errors = call[t].errors]
  BY <1>0, <1>1, <1>2, NotesOnlyPlace
<1> QED BY <1>0, <1>1, <1>2, <1>3, HolderNotes DEF UndoRecordNeeded

\* The compensation of the ledger.
LEMMA UndoRecordInv ==
    ASSUME CommitInv, OneOrchestrator, NEW t \in Threads, UndoRecord(t)
    PROVE  CommitInv'
<1> DEFINE s == call[t].session
           m == call[t].migration
<1>0. OrchestratorInv /\ MigrationInv /\ StepKeeps(t)
  BY UndoRecordKeeps DEF CommitInv, OrchestratorInv
<1>1. /\ At(t, "commit", "undoRecord") /\ call[t] # NoCall /\ call[t] \in Calls
      /\ call[t].op = "commit" /\ call[t].at = "undoRecord" /\ CommitOK(call[t])
      /\ s \in Sessions /\ m \in Migrations /\ migration[m] \in MigrationRecords
  BY Holder DEF UndoRecord
<1>2. UNCHANGED <<session, routerVars, bound, reported, lockHolder>>
  BY DEF UndoRecord
<1>3. CASE /\ call' = [call EXCEPT ![t].at = "verifyRuntime", ![t].errors = TRUE]
           /\ UNCHANGED migration
  <2>1. UNCHANGED <<controllers, bound, reported, lockHolder>>
    BY <1>2, <1>3 DEF controllers, routerVars
  <2> QED BY <1>0, <1>1, <1>3, <2>1, HolderNotes
<1>4. CASE MigrationRollback(m) /\ Goto(t, "verifyRuntime")
  <2>1. migration'[m] = [migration[m] EXCEPT !.state = "ROLLED_BACK"]
    BY <1>0, <1>1, <1>4 DEF MigrationRollback, MigrationInv, MigrationTypeOK
  <2>2. migration'[m].session = migration[m].session /\ migration'[m].state = "ROLLED_BACK"
    BY <1>1, <2>1 DEF MigrationRecords
  <2>3. /\ call'[t].at = "verifyRuntime" /\ call'[t].session = s
        /\ call'[t].migration = m /\ call'[t].deployment = call[t].deployment
    BY <1>0, <1>1, <1>4, GotoKeeps
  <2>4. CommitOK(call[t])'
    <3>1. bound' = bound
      BY <1>2
    <3> QED BY <1>1, <2>2, <2>3, <3>1 DEF CommitOK, InState
  <2>5. /\ \A q \in Sessions : Started(q) => Started(q)'
        /\ \A d \in Deployments : Deployed(d) => Deployed(d)'
        /\ UNCHANGED deployment
    BY <1>2 DEF Started, Deployed, routerVars
  <2> QED BY <1>0, <1>1, <1>2, <1>4, <2>4, <2>5, HolderMoves DEF Places
<1> QED BY <1>3, <1>4 DEF UndoRecord

LEMMA VerifyRuntimeInv ==
    ASSUME CommitInv, OneOrchestrator, NEW t \in Threads, VerifyRuntime(t)
    PROVE  CommitInv'
<1> DEFINE errors == call[t].errors \/ session[call[t].session].active # From(t)
<1>0. OrchestratorInv /\ StepKeeps(t)
  BY VerifyRuntimeKeeps DEF CommitInv
<1>1. /\ At(t, "commit", "verifyRuntime") /\ call[t] \in Calls /\ call[t].at = "verifyRuntime"
      /\ CommitOK(call[t])
  BY Holder DEF VerifyRuntime
<1>2. call[t].errors \in BOOLEAN
  BY <1>1 DEF Calls
<1>3. call' = [call EXCEPT ![t].at = "verifyRoute", ![t].errors = errors]
  BY <1>0, <1>1, <1>2 DEF VerifyRuntime, OrchestratorInv, OwnTypeOK
<1>4. ~errors => ~InState(call[t].migration, "COMMITTED") /\ session[call[t].session].active = From(t)
  BY <1>1, <1>2 DEF CommitOK
<1>5. errors \in BOOLEAN
  BY <1>2
<1>6. UNCHANGED <<controllers, bound, reported, lockHolder>>
  BY DEF VerifyRuntime
<1> HIDE DEF errors
<1> QED BY <1>0, <1>1, <1>3, <1>4, <1>5, <1>6, HolderNotes

\* The caller of a commit that ends here without an error finds the session
\* and the route on the source, and the migration not COMMITTED.
LEMMA VerifiedRestored ==
    ASSUME CommitInv, OneOrchestrator, NEW t \in Threads, At(t, "commit", "verifyRoute"),
           ~call[t].errors, RouteRestored(t)
    PROVE  /\ Together(call[t].session, From(t))
           /\ ~InState(call[t].migration, "COMMITTED")
<1>1. call[t].at = "verifyRoute" /\ CommitOK(call[t])
  BY Holder
<1>2. /\ call[t].deployment = bound[call[t].session]
      /\ session[call[t].session].active = From(t)
      /\ ~InState(call[t].migration, "COMMITTED")
  BY <1>1 DEF CommitOK, From
<1> QED BY <1>2 DEF Together, RouteRestored

LEMMA VerifyRouteInv ==
    ASSUME CommitInv, OneOrchestrator, NEW t \in Threads, VerifyRoute(t)
    PROVE  CommitInv'
<1> DEFINE s == call[t].session
<1>0. OrchestratorInv /\ OrchestratorInv' /\ StepKeeps(t)
  BY VerifyRouteKeeps, KeepsInv DEF CommitInv
<1>1. /\ At(t, "commit", "verifyRoute") /\ call[t] # NoCall /\ Locked(call[t])
      /\ s \in Sessions /\ call[t] \in Calls
  BY Holder DEF VerifyRoute
<1>2. UNCHANGED <<session, deployment, bound>>
  BY DEF VerifyRoute, controllers
<1>3. call'[t] = NoCall /\ \A u \in Threads : u # t => call'[u] = call[u]
  BY <1>0, LeaveEnds DEF VerifyRoute, StepKeeps, Goes
<1>4. /\ \A q \in Sessions : q # s => reported'[q] = reported[q]
      /\ reported'[s] = (reported[s] \/ call[t].errors \/ ~RouteRestored(t))
  BY <1>0, <1>1 DEF VerifyRoute, OrchestratorInv, OwnTypeOK
<1>5. ASSUME NEW q \in Sessions, q = s PROVE Settled(q)'
  <2>1. CASE reported'[q]
    BY <2>1 DEF Settled
  <2>2. CASE ~reported'[q]
    <3>1. Together(q, From(t))
      BY <1>1, <1>4, <1>5, <2>2, VerifiedRestored
    <3>2. Together(q, session[q].active)'
      BY <1>2, <3>1 DEF Together, Active
    <3> QED BY <3>2 DEF Settled
  <2> QED BY <2>1, <2>2
<1>6. /\ \A q \in Sessions : Started(q) => Started(q)'
      /\ \A d \in Deployments : Deployed(d) => Deployed(d)'
  BY <1>2 DEF Started, Deployed
<1> QED BY <1>0, <1>1, <1>2, <1>3, <1>4, <1>5, <1>6, HolderInv

LEMMA CommitInvOfCommits ==
    ASSUME CommitInv, OneOrchestrator, NEW t \in Threads,
           \/ CommitBegin(t) \/ CommitCheckRuntime(t) \/ CommitRoute(t)
           \/ CommitConfirm(t) \/ CommitRecord(t)
           \/ UndoRoute(t) \/ UndoRuntimeNeeded(t) \/ UndoRuntime(t)
           \/ UndoRecordNeeded(t) \/ UndoRecord(t) \/ VerifyRuntime(t) \/ VerifyRoute(t)
    PROVE  CommitInv'
BY CommitBeginInv, CommitCheckRuntimeInv, CommitRouteInv, CommitConfirmInv, CommitRecordInv,
   UndoRouteInv, UndoRuntimeNeededInv, UndoRuntimeInv, UndoRecordNeededInv, UndoRecordInv,
   VerifyRuntimeInv, VerifyRouteInv, Zenon

-----------------------------------------------------------------------------
(* The invariant and what it promises. *)

\* Nobody is inside an operation that this instance does not serve.
LEMMA OnlyServed ==
    ASSUME CommitInv, OneOrchestrator, NEW t \in Threads
    PROVE  /\ ~(BindRead(t) \/ BindWrite(t) \/ \E d \in Deployments : BindCheck(t, d))
           /\ ~(\/ RollbackBegin(t) \/ RollbackCheckRuntime(t) \/ RollbackRoute(t)
                \/ RollbackRuntime(t) \/ RollbackRecord(t))
<1>1. call[t] # NoCall => call[t].op \notin {"bind", "rollback"}
  BY DEF CommitInv, CallsServed, OneOrchestrator
<1>2. \A label : ~At(t, "bind", label) /\ ~At(t, "rollback", label)
  BY <1>1 DEF At
<1> QED BY <1>2 DEF BindRead, BindWrite, BindCheck, RollbackBegin, RollbackCheckRuntime,
                    RollbackRoute, RollbackRuntime, RollbackRecord

LEMMA StepInvOfCommits ==
    ASSUME CommitInv, OneOrchestrator, NEW t \in Threads, Step(t)
    PROVE  CommitInv'
BY OnlyServed, PlanInvOfCommits, StageInvOfCommits, AbortInvOfCommits, CommitInvOfCommits, Zenon
   DEF Step

LEMMA CommitInvNext ==
    ASSUME OneOrchestrator, CommitInv, [OrchestratorNext]_orchestratorVars
    PROVE  CommitInv'
<1>1. CASE UNCHANGED orchestratorVars
  <2>1. UNCHANGED controllers /\ UNCHANGED <<bound, reported, lockHolder, call>>
    BY <1>1 DEF orchestratorVars
  <2>2. Quiet
    BY <2>1, UnchangedQuiet DEF Quiet
  <2>3. ControllersStep
    BY <2>1, QuietControllers DEF CommitInv
  <2> QED BY <2>1, <2>2, <2>3, DirectInvOfCommits
<1>2. CASE OrchestratorNext
  BY <1>2, RequestInv, StepInvOfCommits, DirectRuntimeInv, DirectMigrationInv, DirectRouterInv, Zenon
     DEF OrchestratorNext
<1> QED BY <1>1, <1>2

\* The sessions that were started, bootstrapped and bound.
LEMMA FirstSession ==
    ASSUME NEW candidate \in Candidates
    PROVE  LET r == NewSession(candidate, [sequence |-> 0, mix |-> mix], 0) IN
           RecordInv(r) /\ r.active = candidate /\ r.rollbackAvailable = FALSE
<1> DEFINE r == NewSession(candidate, [sequence |-> 0, mix |-> mix], 0)
<1>1. RecordInv(r)
  <2>1. [sequence |-> 0, mix |-> mix] \in Snapshots /\ 0 \in Cooldowns
    BY BoundAssumption DEF Snapshots
  <2> QED BY <2>1, NewSessionInv
<1>2. r.active = candidate /\ r.rollbackAvailable = FALSE
  BY DEF NewSession
<1> QED BY <1>1, <1>2

FirstVersion(candidate) ==
    [ generation |-> 1, candidate |-> candidate, artifact |-> base,
      manifest |-> baseManifest, origin |-> NoMigration ]

FirstRecord(candidate) ==
    [ active |-> FirstVersion(candidate), staged |-> NoVersion, rollbackStack |-> <<>> ]

LEMMA FirstDeployment ==
    ASSUME NEW candidate \in Candidates
    PROVE  LET q == FirstRecord(candidate) IN
           /\ RecordOK(q)
           /\ q.active \in Versions /\ q.active.candidate = candidate
           /\ q.active.origin = NoMigration
           /\ q.staged = NoVersion /\ Len(q.rollbackStack) = 0
<1> DEFINE v == FirstVersion(candidate)
           q == FirstRecord(candidate)
<1>1. v \in Versions /\ v.candidate = candidate /\ v.origin = NoMigration
  BY BoundAssumption, GenerationsAssumption, OrchestratorsAssumption DEF Versions, FirstVersion
<1> HIDE DEF v
<1>2. q = [active |-> v, staged |-> NoVersion, rollbackStack |-> <<>>]
  BY DEF FirstRecord, v
<1>3. RecordOK(q) /\ q.active = v /\ q.staged = NoVersion /\ Len(q.rollbackStack) = 0
  BY <1>1, <1>2, BootstrapRecord
<1> QED BY <1>1, <1>3

\* What the first records are, one by one.
LEMMA FirstState ==
    ASSUME BoundInit
    PROVE  /\ \A s \in Sessions :
                  /\ bound[s] = Home[s]
                  /\ Home[s] = NoDeployment => session[s] = NoSession
                  /\ Home[s] # NoDeployment =>
                         /\ Home[s] \in Deployments /\ StartsOn[Home[s]] \in Candidates
                         /\ Started(s) /\ RecordInv(session[s])
                         /\ session[s].active = StartsOn[Home[s]]
                         /\ session[s].rollbackAvailable = FALSE
           /\ \A d \in Deployments :
                  IF \E s \in Sessions : Home[s] = d
                  THEN /\ StartsOn[d] \in Candidates
                       /\ deployment[d] = FirstRecord(StartsOn[d])
                  ELSE deployment[d] = NoDeployment
<1>1. ASSUME NEW s \in Sessions, Home[s] # NoDeployment
      PROVE  /\ Home[s] \in Deployments /\ StartsOn[Home[s]] \in Candidates
             /\ Started(s) /\ RecordInv(session[s])
             /\ session[s].active = StartsOn[Home[s]]
             /\ session[s].rollbackAvailable = FALSE
  <2>1. Home[s] \in Deployments /\ StartsOn[Home[s]] \in Candidates
    BY <1>1, BoundAssumption DEF Homes
  <2>2. PICK candidate \in Candidates : candidate = StartsOn[Home[s]]
    BY <2>1
  <2>3. PICK r : r = NewSession(candidate, [sequence |-> 0, mix |-> mix], 0)
    OBVIOUS
  <2>4. session[s] = r
    BY <1>1, <2>2, <2>3 DEF BoundInit
  <2>5. RecordInv(r) /\ r.active = candidate /\ r.rollbackAvailable = FALSE
    BY <2>3, FirstSession
  <2>6. Started(s)
    BY <2>4, <2>5, NoSessionAssumption DEF Started, RecordInv
  <2> QED BY <2>1, <2>2, <2>4, <2>5, <2>6
<1>2. ASSUME NEW s \in Sessions
      PROVE  bound[s] = Home[s] /\ (Home[s] = NoDeployment => session[s] = NoSession)
  BY <1>2 DEF BoundInit
<1>3. ASSUME NEW d \in Deployments
      PROVE  IF \E s \in Sessions : Home[s] = d
             THEN StartsOn[d] \in Candidates /\ deployment[d] = FirstRecord(StartsOn[d])
             ELSE deployment[d] = NoDeployment
  BY <1>3, BoundAssumption DEF BoundInit, FirstRecord, FirstVersion
<1> QED BY <1>1, <1>2, <1>3

LEMMA BoundInitInv == BoundInit => OrchestratorInv
<1> SUFFICES ASSUME BoundInit PROVE OrchestratorInv
  OBVIOUS
<1>1. RuntimeInv
  <2>1. \A s \in Sessions : session[s] = NoSession \/ RecordInv(session[s])
    BY FirstState
  <2>2. session = [s \in Sessions |-> session[s]]
    BY DEF BoundInit
  <2> QED BY <2>1, <2>2, InvByRecord
<1>2. MigrationInv
  BY MigrationInvInit DEF BoundInit
<1>3. ASSUME NEW d \in Deployments, Deployed(d)
      PROVE  /\ RecordOK(deployment[d]) /\ deployment[d].active \in Versions
             /\ deployment[d].active.origin = NoMigration
             /\ deployment[d].staged = NoVersion /\ Len(deployment[d].rollbackStack) = 0
  <2>1. PICK candidate \in Candidates : deployment[d] = FirstRecord(candidate)
    BY <1>3, FirstState DEF Deployed
  <2> QED BY <2>1, FirstDeployment
<1>4. RouterInv
  <2>1. lease = [reader \in Readers |-> [d \in Deployments |-> NoVersion]]
    BY DEF BoundInit
  <2>2. \A d \in Deployments : deployment[d] = NoDeployment \/ deployment[d] \in DeploymentRecords
    BY <1>3 DEF Deployed, RecordOK
  <2>3. deployment = [d \in Deployments |-> deployment[d]]
    BY DEF BoundInit
  <2>4. RouterTypeOK
    <3>1. deployment \in [Deployments -> DeploymentRecords \cup {NoDeployment}]
      BY <2>2, <2>3
    <3> QED BY <2>1, <3>1 DEF RouterTypeOK
  <2>5. \A d \in Deployments : LeasesAreOld(d) /\ LeasesAgree(d)
    BY <2>1 DEF LeasesAreOld, LeasesAgree
  <2> QED BY <1>3, <2>4, <2>5 DEF RouterInv
<1>5. OwnTypeOK
  BY BoundAssumption DEF BoundInit, OwnTypeOK, Homes
<1>6. CallsOK
  BY DEF BoundInit, CallsOK
<1>7. VersionsGated
  <2>1. ASSUME NEW d \in Deployments, Deployed(d), NEW w \in RoutedVersions(d)
        PROVE  VersionGated(w)
    <3>1. w = deployment[d].active \/ w = NoVersion
      BY <1>3, <2>1 DEF RoutedVersions, Active, Staged, RollbackDepth
    <3> QED BY <1>3, <2>1, <3>1 DEF VersionGated
  <2> QED BY <2>1 DEF VersionsGated
<1> QED BY <1>1, <1>2, <1>4, <1>5, <1>6, <1>7 DEF OrchestratorInv

LEMMA FirstBindings ==
    ASSUME BoundInit
    PROVE  /\ BindingsOK
           /\ \A s \in Sessions :
                  Started(s) => Together(s, session[s].active) /\ ~session[s].rollbackAvailable
<1>1. ASSUME NEW s \in Sessions, bound[s] # NoDeployment
      PROVE  /\ Started(s) /\ ~session[s].rollbackAvailable
             /\ Deployed(bound[s]) /\ Active(bound[s]).candidate = session[s].active
  <2>1. /\ bound[s] = Home[s] /\ Home[s] # NoDeployment /\ Home[s] \in Deployments
        /\ Started(s) /\ session[s].rollbackAvailable = FALSE
        /\ session[s].active = StartsOn[Home[s]]
    BY <1>1, FirstState
  <2>2. PICK d \in Deployments : d = Home[s]
    BY <2>1
  <2>3. StartsOn[d] \in Candidates /\ deployment[d] = FirstRecord(StartsOn[d])
    BY <2>2, FirstState
  <2>4. RecordOK(deployment[d]) /\ deployment[d].active.candidate = StartsOn[d]
    BY <2>3, FirstDeployment
  <2>5. Deployed(d)
    BY <2>4, NoDeploymentAssumption DEF Deployed, RecordOK
  <2> QED BY <2>1, <2>2, <2>4, <2>5 DEF Active
<1>2. \A s, q \in Sessions : bound[s] # NoDeployment /\ bound[s] = bound[q] => s = q
  BY BoundAssumption DEF BoundInit, Homes
<1>3. ASSUME NEW s \in Sessions, Started(s) PROVE bound[s] # NoDeployment
  BY <1>3, FirstState DEF Started
<1> QED BY <1>1, <1>2, <1>3 DEF BindingsOK, Together

LEMMA CommitInvInit == BoundInit => CommitInv
<1> SUFFICES ASSUME BoundInit PROVE CommitInv
  OBVIOUS
<1>1. CallsServed /\ CommitsOK
  BY DEF BoundInit, CallsServed, CommitsOK
<1>2. \A s \in Sessions : Settled(s)
  BY FirstBindings DEF Settled
<1> QED BY <1>1, <1>2, FirstBindings, BoundInitInv DEF CommitInv

(***************************************************************************)
(* The inductive invariant of one orchestrator, its commits, and the       *)
(* aborts, plans, stagings and observations that race with them.           *)
(***************************************************************************)
THEOREM CommitInvariant ==
    ASSUME OneOrchestrator
    PROVE  BoundSpec => []CommitInv
<1>1. CommitInv /\ [OrchestratorNext]_orchestratorVars => CommitInv'
  BY CommitInvNext
<1> QED BY <1>1, CommitInvInit, PTL DEF BoundSpec

LEMMA CommitInvSplit ==
    ASSUME CommitInv PROVE SplitIsReported
<1>1. ASSUME NEW s \in Sessions
      PROVE  \/ reported[s]
             \/ \E t \in Threads : call[t] # NoCall /\ call[t].op \in {"commit", "rollback"}
             \/ Started(s) => Together(s, session[s].active)
  <2>1. Settled(s)
    BY DEF CommitInv
  <2> QED BY <2>1 DEF Settled, InFlight
<1> QED BY <1>1 DEF SplitIsReported

(***************************************************************************)
(* A session and its deployment disagree only while a commit is under way, *)
(* or after a compensation that failed and was reported.                   *)
(***************************************************************************)
THEOREM SplitsAreReported ==
    ASSUME OneOrchestrator
    PROVE  BoundSpec => []SplitIsReported
BY CommitInvariant, CommitInvSplit, PTL

\* Only authorize_commit records a commit.
LEMMA OnlyRecordCommits ==
    ASSUME OrchestratorInv, NEW t \in Threads, Step(t), ~CommitRecord(t)
    PROVE  NoNewCommit
<1>1. CASE PlanRecord(t)
  <2>1. /\ call[t].migration \in Migrations /\ call[t].session \in Sessions
        /\ call[t].active \in Candidates /\ call[t].pending \in Candidates
    BY <1>1, Caller DEF PlanRecord, CallOK
  <2> QED BY <1>1, <2>1, PlanQuiet, UnchangedQuiet DEF PlanRecord, OrchestratorInv
<1>2. CASE AbortRecord(t) \/ UndoRecord(t) \/ RollbackRecord(t)
  <2>1. call[t].migration \in Migrations
    BY <1>2, Caller, CallersMigration DEF AbortRecord, UndoRecord, RollbackRecord
  <2> QED BY <1>2, <2>1, MoveQuiet, UnchangedQuiet
          DEF AbortRecord, UndoRecord, RollbackRecord, OrchestratorInv
<1>3. CASE UNCHANGED migration
  BY <1>3, UnchangedQuiet
<1>4. \/ PlanRecord(t) \/ AbortRecord(t) \/ UndoRecord(t) \/ RollbackRecord(t)
      \/ UNCHANGED migration
  BY DEF Step, PlanRead, BindRead, BindCheck, BindWrite, StageRead, StageBinding, StageRoute,
         CommitBegin, CommitCheckRuntime, CommitRoute, CommitConfirm,
         UndoRoute, UndoRuntimeNeeded, UndoRuntime, UndoRecordNeeded, VerifyRuntime, VerifyRoute,
         AbortBegin, AbortBinding, AbortCheckStaged, AbortRoute, AbortClearPending,
         RollbackBegin, RollbackCheckRuntime, RollbackRoute, RollbackRuntime, controllers
<1> QED BY <1>1, <1>2, <1>3, <1>4

-----------------------------------------------------------------------------
(* The commit of one orchestrator implements AtomicAdaptation.  First what  *)
(* the refinement mapping is when nobody is past the checks of a commit,    *)
(* and when one thread is.                                                  *)

Running(s) == IF Started(s) THEN session[s].active ELSE NoCandidate
Routing(d) == IF Deployed(d) THEN Active(d).candidate ELSE NoCandidate

NobodyCommits == \A u \in Threads : ~InFlight(u)
OnlyCommits(t) == \A u \in Threads : InFlight(u) <=> u = t

RestingView ==
    /\ \A s \in Sessions : CurrentOf(s) = IF reported[s] THEN Split ELSE Running(s)
    /\ \A d \in Deployments : RoutedOf(d) = Routing(d)
    /\ \A m \in Migrations : ~Committing(m)

FlightView(t) ==
    LET s == call[t].session IN
    /\ \A q \in Sessions :
           CurrentOf(q) = IF reported[q] THEN Split ELSE IF q = s THEN From(t) ELSE Running(q)
    /\ \A d \in Deployments :
           RoutedOf(d) = IF bound[s] = d /\ ~reported[s] THEN From(t) ELSE Routing(d)
    /\ \A m \in Migrations : Committing(m) <=> m = call[t].migration

MappedViews ==
    /\ NobodyCommits => RestingView
    /\ \A t \in Threads : OnlyCommits(t) /\ call[t].session \in Sessions => FlightView(t)

LEMMA ViewsAreMapped == MappedViews
<1>1. ASSUME NobodyCommits PROVE RestingView
  <2>1. \A s \in Sessions : CommitsOf(s) = {}
    BY <1>1 DEF NobodyCommits, CommitsOf
  <2>2. \A d \in Deployments : Settling(d) = {}
    BY <2>1 DEF Settling
  <2>3. \A s \in Sessions : CurrentOf(s) = IF reported[s] THEN Split ELSE Running(s)
    BY <2>1 DEF CurrentOf, Running
  <2>4. \A d \in Deployments : RoutedOf(d) = Routing(d)
    BY <2>2 DEF RoutedOf, Routing
  <2>5. \A m \in Migrations : ~Committing(m)
    BY <1>1 DEF NobodyCommits, Committing
  <2> QED BY <2>3, <2>4, <2>5 DEF RestingView
<1>2. ASSUME NEW t \in Threads, OnlyCommits(t), call[t].session \in Sessions
      PROVE  FlightView(t)
  <2> DEFINE s == call[t].session
  <2>1. \A q \in Sessions : CommitsOf(q) = IF q = s THEN {t} ELSE {}
    BY <1>2 DEF OnlyCommits, CommitsOf
  <2>2. SourceOf(s) = From(t)
    BY <1>2, <2>1 DEF SourceOf
  <2>3. \A d \in Deployments : Settling(d) = IF bound[s] = d /\ ~reported[s] THEN {s} ELSE {}
    BY <1>2, <2>1 DEF Settling
  <2>4. \A q \in Sessions :
           CurrentOf(q) = IF reported[q] THEN Split ELSE IF q = s THEN From(t) ELSE Running(q)
    BY <2>1, <2>2 DEF CurrentOf, Running
  <2>5. \A d \in Deployments :
           RoutedOf(d) = IF bound[s] = d /\ ~reported[s] THEN From(t) ELSE Routing(d)
    BY <2>2, <2>3 DEF RoutedOf, Routing
  <2>6. \A m \in Migrations : Committing(m) <=> m = call[t].migration
    BY <1>2 DEF OnlyCommits, Committing
  <2> QED BY <2>4, <2>5, <2>6 DEF FlightView
<1> QED BY <1>1, <1>2 DEF MappedViews

LEMMA ViewsStayMapped == MappedViews'
BY ViewsAreMapped, PTL

\* The same commits are in flight before and after a step.
FlightsKept ==
    \A u \in Threads :
        /\ InFlight(u)' <=> InFlight(u)
        /\ InFlight(u) =>
               call'[u].session = call[u].session /\ call'[u].migration = call[u].migration

\* Then a session whose commit is in flight counts as before, and so does its route.
LEMMA KeptViews ==
    ASSUME OrchestratorInv, [MigrationNext]_migrationVars, FlightsKept, UNCHANGED <<bound, reported>>
    PROVE  /\ \A s \in Sessions :
                  CommitsOf(s) # {} \/ reported[s] \/ Running(s)' = Running(s) =>
                      CurrentOf(s)' = CurrentOf(s)
           /\ \A d \in Deployments :
                  Settling(d) # {} \/ Routing(d)' = Routing(d) => RoutedOf(d)' = RoutedOf(d)
           /\ \A m \in Migrations : Committing(m)' = Committing(m)
<1>1. ASSUME NEW s \in Sessions PROVE CommitsOf(s)' = CommitsOf(s)
  BY DEF FlightsKept, CommitsOf
<1>2. ASSUME NEW s \in Sessions, CommitsOf(s) # {} PROVE SourceOf(s)' = SourceOf(s)
  <2>1. PICK t : t = CHOOSE u \in CommitsOf(s) : TRUE
    OBVIOUS
  <2>2. t \in Threads /\ InFlight(t)
    BY <1>2, <2>1 DEF CommitsOf
  <2>3. PICK m : m = call[t].migration
    OBVIOUS
  <2>4. m \in Migrations /\ Planned(m) /\ call'[t].migration = m
    BY <2>2, <2>3 DEF InFlight, OrchestratorInv, CallsOK, CallOK, FlightsKept
  <2>5. migration'[m].from = migration[m].from
    BY <2>4, PlannedStays DEF OrchestratorInv, SameIdentity
  <2>6. SourceOf(s) = migration[m].from
    BY <2>1, <2>3 DEF SourceOf, From
  <2>7. SourceOf(s)' = migration'[m].from
    BY <1>1, <2>1, <2>4 DEF SourceOf, From
  <2> QED BY <2>5, <2>6, <2>7
<1>3. ASSUME NEW d \in Deployments PROVE Settling(d)' = Settling(d)
  BY <1>1 DEF Settling
<1>4. ASSUME NEW d \in Deployments, Settling(d) # {}
      PROVE  RoutedOf(d)' = RoutedOf(d)
  <2>1. PICK q : q = CHOOSE s \in Settling(d) : TRUE
    OBVIOUS
  <2>2. q \in Sessions /\ CommitsOf(q) # {}
    BY <1>4, <2>1 DEF Settling
  <2>3. SourceOf(q)' = SourceOf(q)
    BY <1>2, <2>2
  <2>4. RoutedOf(d) = SourceOf(q)
    BY <1>4, <2>1 DEF RoutedOf
  <2>5. RoutedOf(d)' = SourceOf(q)'
    BY <1>3, <1>4, <2>1 DEF RoutedOf
  <2> QED BY <2>3, <2>4, <2>5
<1>5. ASSUME NEW d \in Deployments, Routing(d)' = Routing(d)
      PROVE  RoutedOf(d)' = RoutedOf(d)
  <2>1. CASE Settling(d) # {}
    BY <1>4, <2>1
  <2>2. CASE Settling(d) = {}
    BY <1>3, <1>5, <2>2 DEF RoutedOf, Routing
  <2> QED BY <2>1, <2>2
<1>6. ASSUME NEW s \in Sessions, CommitsOf(s) # {} \/ reported[s] \/ Running(s)' = Running(s)
      PROVE  CurrentOf(s)' = CurrentOf(s)
  <2>1. CASE reported[s]
    BY <2>1 DEF CurrentOf
  <2>2. CASE ~reported[s] /\ CommitsOf(s) # {}
    BY <1>1, <1>2, <2>2 DEF CurrentOf
  <2>3. CASE ~reported[s] /\ CommitsOf(s) = {}
    BY <1>1, <1>6, <2>3 DEF CurrentOf, Running
  <2> QED BY <2>1, <2>2, <2>3
<1>7. \A m \in Migrations : Committing(m)' = Committing(m)
  BY DEF FlightsKept, Committing
<1> QED BY <1>4, <1>5, <1>6, <1>7

-----------------------------------------------------------------------------
(* Steps of the views are steps of AtomicAdaptation. *)

Refines == [Abstract!Next]_(Abstract!vars)

LEMMA ViewsUnchanged ==
    ASSUME \A s \in Sessions : CurrentOf(s)' = CurrentOf(s),
           \A d \in Deployments : RoutedOf(d)' = RoutedOf(d),
           \A m \in Migrations : LedgerOf(m)' = LedgerOf(m),
           UNCHANGED bound
    PROVE  Refines
<1>1. CurrentView' = CurrentView /\ RoutedView' = RoutedView /\ LedgerView' = LedgerView
  BY DEF CurrentView, RoutedView, LedgerView
<1> QED BY <1>1 DEF Refines, Abstract!vars

\* A deployment's route is moved by the commit of a session that is lost anyway.
LEMMA Loses ==
    ASSUME UNCHANGED bound, NEW s \in Sessions, CurrentOf(s)' = Split,
           \A q \in Sessions : q # s => CurrentOf(q)' = CurrentOf(q),
           NEW candidate \in Candidates,
           \A d \in Deployments :
               RoutedOf(d)' = IF d = bound[s] THEN candidate ELSE RoutedOf(d),
           \/ LedgerView' = LedgerView
           \/ \E m \in Migrations, state \in {"committed", "rolledBack"} :
                  /\ Abstract!InLedger(m, "open") /\ LedgerView[m].session = s
                  /\ Abstract!Move(m, state)
    PROVE  Refines
<1>1. CurrentView' = [CurrentView EXCEPT ![s] = Split]
  BY DEF CurrentView
<1>2. RoutedView' = [d \in Deployments |-> IF d = bound[s] THEN candidate ELSE RoutedView[d]]
  BY DEF RoutedView
<1>3. Abstract!Lose(s)
  BY <1>1, <1>2 DEF Abstract!Lose
<1> QED BY <1>3 DEF Refines, Abstract!Next

\* What is known of the ledger entry of a planned migration.
LEMMA EntryTyped ==
    ASSUME MigrationInv, NEW m \in Migrations, Planned(m)
    PROVE  /\ LedgerOf(m) \in Entries /\ LedgerOf(m) # NoMigration
           /\ LedgerOf(m).session = migration[m].session
           /\ LedgerOf(m).from = migration[m].from
           /\ LedgerOf(m).to = migration[m].to
           /\ LedgerOf(m).state = StateInLedger(migration[m].state, Committing(m))
<1>1. migration[m] \in MigrationRecords
  BY GatedRecord
<1>2. StateInLedger(migration[m].state, Committing(m)) \in
          {"open", "committed", "rolledBack", "aborted"}
  BY <1>1 DEF StateInLedger, MigrationRecords, MigrationStates
<1>3. LedgerOf(m) \in Entries
  BY <1>1, <1>2 DEF LedgerOf, Entries, MigrationRecords
<1> QED BY <1>3, EntriesAssumption DEF LedgerOf

\* One entry moves from open to another state.
LEMMA MovesInLedger ==
    ASSUME MigrationInv, NEW m \in Migrations, Planned(m), Planned(m)',
           SameIdentity(migration[m], migration'[m]),
           StateInLedger(migration[m].state, Committing(m)) = "open",
           NEW state, StateInLedger(migration'[m].state, Committing(m)') = state,
           \A k \in Migrations : k # m => LedgerOf(k)' = LedgerOf(k)
    PROVE  Abstract!InLedger(m, "open") /\ Abstract!Move(m, state)
<1>1. LedgerView[m] = LedgerOf(m)
  BY DEF LedgerView
<1>2. LedgerOf(m)' = [LedgerOf(m) EXCEPT !.state = state]
  BY DEF LedgerOf, SameIdentity
<1>3. LedgerView' = [LedgerView EXCEPT ![m].state = state]
  BY <1>2 DEF LedgerView
<1> QED BY <1>1, <1>3, EntryTyped DEF Abstract!InLedger, Abstract!Move

LEMMA EntryKept ==
    ASSUME NEW m \in Migrations, migration'[m] = migration[m], Committing(m)' = Committing(m)
    PROVE  LedgerOf(m)' = LedgerOf(m)
BY DEF LedgerOf, Planned

\* An entry is closed, by an abort or a compensated commit.
LEMMA Closes ==
    ASSUME \A s \in Sessions : CurrentOf(s)' = CurrentOf(s),
           \A d \in Deployments : RoutedOf(d)' = RoutedOf(d),
           UNCHANGED bound,
           NEW m \in Migrations, NEW state \in {"aborted", "rolledBack"},
           Abstract!InLedger(m, "open"), Abstract!Move(m, state)
    PROVE  Refines
<1>1. CurrentView' = CurrentView /\ RoutedView' = RoutedView
  BY DEF CurrentView, RoutedView
<1>2. Abstract!Close(m, state)
  BY <1>1 DEF Abstract!Close
<1> QED BY <1>2 DEF Refines, Abstract!Next

-----------------------------------------------------------------------------
(* Steps of the controllers while the commits in flight stay the same. *)

\* What every such step is given.
Beside == FlightsKept /\ [MigrationNext]_migrationVars /\ UNCHANGED <<bound, reported>>

NoNewSession == \A s \in Sessions : Started(s)' => Started(s)
NoNewDeployment == \A d \in Deployments : Deployed(d)' => Deployed(d)

\* The ledger rests, sessions and routes keep their candidates.
LEMMA QuietRefines ==
    ASSUME OrchestratorInv, Beside, UNCHANGED migration,
           SessionsQuiet, NoNewSession, RoutesQuiet, NoNewDeployment
    PROVE  Refines
<1>1. \A s \in Sessions : Running(s)' = Running(s)
  BY DEF SessionsQuiet, NoNewSession, Running
<1>2. \A d \in Deployments : Routing(d)' = Routing(d)
  BY DEF RoutesQuiet, NoNewDeployment, Routing
<1>3. /\ \A s \in Sessions : CurrentOf(s)' = CurrentOf(s)
      /\ \A d \in Deployments : RoutedOf(d)' = RoutedOf(d)
      /\ \A m \in Migrations : Committing(m)' = Committing(m)
  BY <1>1, <1>2, KeptViews DEF Beside
<1>4. \A m \in Migrations : LedgerOf(m)' = LedgerOf(m)
  BY <1>3, EntryKept
<1> QED BY <1>3, <1>4, ViewsUnchanged DEF Beside

\* Only the ledger moves, and outside the commits in flight.
LEMMA LedgerStepViews ==
    ASSUME OrchestratorInv, Beside, UNCHANGED <<session, routerVars>>
    PROVE  /\ \A s \in Sessions : CurrentOf(s)' = CurrentOf(s)
           /\ \A d \in Deployments : RoutedOf(d)' = RoutedOf(d)
           /\ \A m \in Migrations : Committing(m)' = Committing(m)
<1>1. \A s \in Sessions : Running(s)' = Running(s)
  BY DEF Running, Started
<1>2. \A d \in Deployments : Routing(d)' = Routing(d)
  BY DEF Routing, Deployed, Active, routerVars
<1> QED BY <1>1, <1>2, KeptViews DEF Beside

\* A record of the table is replaced by one that is started as before.
LEMMA NoSessionAdded ==
    ASSUME RuntimeInv, NEW s \in Sessions, Started(s),
           \A q \in Sessions : q # s => session'[q] = session[q]
    PROVE  NoNewSession
BY DEF NoNewSession, Started

LEMMA ObserveRefines ==
    ASSUME OrchestratorInv, Beside, UNCHANGED <<migration, routerVars>>, NEW s \in Sessions,
           \/ AbortPending(s)
           \/ \E snapshot \in Snapshots, alternative \in Candidates, pays \in BOOLEAN :
                  Observe(s, snapshot, alternative, pays)
    PROVE  Refines
<1>1. RuntimeInv /\ session \in [Sessions -> SessionRecords \cup {NoSession}]
  BY DEF OrchestratorInv, RuntimeInv, RuntimeTypeOK
<1>2. SessionsQuiet
  BY <1>1, ObserveQuiet, AbortPendingQuiet
<1>3. Started(s) /\ \A q \in Sessions : q # s => session'[q] = session[q]
  BY <1>1 DEF Observe, AbortPending
<1>4. NoNewSession
  BY <1>1, <1>3, NoSessionAdded
<1>5. RoutesQuiet /\ NoNewDeployment
  BY UnchangedQuiet DEF NoNewDeployment, Deployed, routerVars
<1> QED BY <1>2, <1>4, <1>5, QuietRefines

LEMMA StartRefines ==
    ASSUME OrchestratorInv, Beside, UNCHANGED <<migration, routerVars>>, NEW s \in Sessions,
           NEW candidate \in Candidates, NEW baseline \in Snapshots, NEW cooldown \in Cooldowns,
           Start(s, candidate, baseline, cooldown)
    PROVE  Refines
<1> DEFINE r == NewSession(candidate, baseline, cooldown)
<1>1. r \in SessionRecords /\ r.active = candidate
  BY NewSessionInv DEF RecordInv, NewSession
<1>2. session' = [session EXCEPT ![s] = r] /\ ~Started(s)
  BY DEF Start
<1>3. session \in [Sessions -> SessionRecords \cup {NoSession}]
  BY DEF OrchestratorInv, RuntimeInv, RuntimeTypeOK
<1> HIDE DEF r
<1>4. /\ Running(s) = NoCandidate /\ Running(s)' = candidate
      /\ \A q \in Sessions : q # s => Running(q)' = Running(q)
  BY <1>1, <1>2, <1>3, NoSessionAssumption DEF Running, Started
<1>5. \A d \in Deployments : Routing(d)' = Routing(d)
  BY DEF Routing, Deployed, Active, routerVars
<1>6. /\ \A q \in Sessions : q # s => CurrentOf(q)' = CurrentOf(q)
      /\ \A d \in Deployments : RoutedOf(d)' = RoutedOf(d)
      /\ \A m \in Migrations : Committing(m)' = Committing(m)
  BY <1>4, <1>5, KeptViews DEF Beside
<1>7. \A m \in Migrations : LedgerOf(m)' = LedgerOf(m)
  BY <1>6, EntryKept
<1>8. CASE CurrentOf(s)' = CurrentOf(s)
  BY <1>6, <1>7, <1>8, ViewsUnchanged DEF Beside
<1>9. CASE CurrentOf(s)' # CurrentOf(s)
  <2>1. ~reported[s] /\ CommitsOf(s) = {}
    BY <1>9, KeptViews DEF Beside
  <2>2. CurrentOf(s) = NoCandidate
    BY <1>4, <2>1 DEF CurrentOf, Running
  <2>3. CommitsOf(s)' = {} /\ ~reported'[s]
    BY <2>1 DEF Beside, FlightsKept, CommitsOf
  <2>4. CurrentOf(s)' = candidate
    BY <1>4, <2>3 DEF CurrentOf, Running
  <2>5. CurrentView' = [CurrentView EXCEPT ![s] = candidate] /\ CurrentView[s] = NoCandidate
    BY <1>6, <2>2, <2>4 DEF CurrentView
  <2>6. RoutedView' = RoutedView /\ LedgerView' = LedgerView /\ bound' = bound
    BY <1>6, <1>7 DEF RoutedView, LedgerView, Beside
  <2>7. Abstract!Begin(s, candidate)
    BY <2>5, <2>6 DEF Abstract!Begin
  <2> QED BY <2>7 DEF Refines, Abstract!Next
<1> QED BY <1>8, <1>9

LEMMA BootstrapRefines ==
    ASSUME OrchestratorInv, Beside, UNCHANGED <<migration, session>>, NEW d \in Deployments,
           NEW candidate \in Candidates, NEW artifact \in Artifacts,
           NEW manifest \in Manifests \cup {NoManifest},
           Bootstrap(d, candidate, artifact, manifest, NoMigration)
    PROVE  Refines
<1> DEFINE v == [ generation |-> 1, candidate |-> candidate, artifact |-> artifact,
                  manifest |-> manifest, origin |-> NoMigration ]
           r == [active |-> v, staged |-> NoVersion, rollbackStack |-> <<>>]
<1>1. v \in Versions
  BY GenerationsAssumption, OrchestratorsAssumption DEF Versions
<1>2. r \in DeploymentRecords /\ r.active.candidate = candidate
  BY <1>1, BootstrapRecord DEF RecordOK
<1>3. deployment' = [deployment EXCEPT ![d] = r] /\ ~Deployed(d)
  BY DEF Bootstrap
<1>4. deployment \in [Deployments -> DeploymentRecords \cup {NoDeployment}]
  BY DEF OrchestratorInv, RouterInv, RouterTypeOK
<1> HIDE DEF r
<1>5. /\ Routing(d) = NoCandidate /\ Routing(d)' = candidate
      /\ \A k \in Deployments : k # d => Routing(k)' = Routing(k)
  BY <1>2, <1>3, <1>4, NoDeploymentAssumption DEF Routing, Deployed, Active
<1>6. \A s \in Sessions : Running(s)' = Running(s)
  BY DEF Running, Started
<1>7. /\ \A s \in Sessions : CurrentOf(s)' = CurrentOf(s)
      /\ \A k \in Deployments : k # d => RoutedOf(k)' = RoutedOf(k)
      /\ \A m \in Migrations : Committing(m)' = Committing(m)
  BY <1>5, <1>6, KeptViews DEF Beside
<1>8. \A m \in Migrations : LedgerOf(m)' = LedgerOf(m)
  BY <1>7, EntryKept
<1>9. CASE RoutedOf(d)' = RoutedOf(d)
  BY <1>7, <1>8, <1>9, ViewsUnchanged DEF Beside
<1>10. CASE RoutedOf(d)' # RoutedOf(d)
  <2>1. Settling(d) = {}
    BY <1>10, KeptViews DEF Beside
  <2>2. RoutedOf(d) = NoCandidate
    BY <1>5, <2>1 DEF RoutedOf, Routing
  <2>3. Settling(d)' = {}
    <3>1. \A s \in Sessions : CommitsOf(s)' = CommitsOf(s)
      BY DEF Beside, FlightsKept, CommitsOf
    <3> QED BY <2>1, <3>1 DEF Beside, Settling
  <2>4. RoutedOf(d)' = candidate
    BY <1>5, <2>3 DEF RoutedOf, Routing
  <2>5. RoutedView' = [RoutedView EXCEPT ![d] = candidate] /\ RoutedView[d] = NoCandidate
    BY <1>7, <2>2, <2>4 DEF RoutedView
  <2>6. CurrentView' = CurrentView /\ LedgerView' = LedgerView /\ bound' = bound
    BY <1>7, <1>8 DEF CurrentView, LedgerView, Beside
  <2>7. Abstract!Deploy(d, candidate)
    BY <2>5, <2>6 DEF Abstract!Deploy
  <2> QED BY <2>7 DEF Refines, Abstract!Next
<1> QED BY <1>9, <1>10

LEMMA StageRefines ==
    ASSUME OrchestratorInv, Beside, UNCHANGED <<migration, session>>, NEW d \in Deployments,
           \/ AbortStaged(d)
           \/ \E candidate \in Candidates, artifact \in Artifacts, manifest \in Manifests,
                 origin \in Origins : Stage(d, candidate, artifact, manifest, origin)
    PROVE  Refines
<1>1. RouterInv /\ deployment \in [Deployments -> DeploymentRecords \cup {NoDeployment}]
  BY DEF OrchestratorInv, RouterInv, RouterTypeOK
<1>2. RoutesQuiet
  BY <1>1, StageQuiet, AbortStagedQuiet
<1>3. Deployed(d) /\ \A k \in Deployments : k # d => deployment'[k] = deployment[k]
  BY <1>1 DEF Stage, StageOk, AbortStaged, AbortStagedOk
<1>4. NoNewDeployment
  BY <1>3 DEF NoNewDeployment, Deployed
<1>5. SessionsQuiet /\ NoNewSession
  BY UnchangedQuiet DEF NoNewSession, Started
<1> QED BY <1>2, <1>4, <1>5, QuietRefines

\* plan opens an entry.
LEMMA PlanRefines ==
    ASSUME OrchestratorInv, Beside, UNCHANGED <<session, routerVars>>, NEW m \in Migrations,
           NEW s \in Sessions, NEW from \in Candidates, NEW to \in Candidates, Plan(m, s, from, to)
    PROVE  Refines
<1> DEFINE r == [ session |-> s, from |-> from, to |-> to, state |-> "PLANNED",
                  artifact |-> NoArtifact, manifest |-> NoManifest,
                  compileVerified |-> FALSE, correctnessVerified |-> FALSE ]
           e == [session |-> s, from |-> from, to |-> to, state |-> "open"]
<1>1. /\ r \in MigrationRecords
      /\ r.session = s /\ r.from = from /\ r.to = to /\ r.state = "PLANNED"
  BY DEF MigrationRecords, MigrationStates
<1>2. migration' = [migration EXCEPT ![m] = r] /\ ~Planned(m) /\ from # to
  BY DEF Plan, PlanOk
<1> HIDE DEF r
<1>3. migration \in [Migrations -> MigrationRecords \cup {NoMigration}]
  BY DEF OrchestratorInv, MigrationInv, MigrationTypeOK
<1>4. migration'[m] = r /\ \A k \in Migrations : k # m => migration'[k] = migration[k]
  BY <1>2, <1>3
<1>5. /\ CurrentView' = CurrentView /\ RoutedView' = RoutedView /\ bound' = bound
      /\ \A k \in Migrations : k # m => LedgerOf(k)' = LedgerOf(k)
  BY <1>4, LedgerStepViews, EntryKept DEF CurrentView, RoutedView, Beside
<1>6. LedgerOf(m) = NoMigration
  BY <1>2 DEF LedgerOf
<1>7. LedgerOf(m)' = e
  BY <1>1, <1>4, NoMigrationAssumption DEF LedgerOf, Planned, StateInLedger
<1>8. LedgerView' = [LedgerView EXCEPT ![m] = e] /\ LedgerView[m] = NoMigration
  BY <1>5, <1>6, <1>7 DEF LedgerView
<1>9. Abstract!Open(m, s, from, to)
  BY <1>2, <1>5, <1>8 DEF Abstract!Open
<1> QED BY <1>9 DEF Refines, Abstract!Next

\* shadow_built and verify move a migration among the states that are open.
LEMMA GateRefines ==
    ASSUME OrchestratorInv, Beside, UNCHANGED <<session, routerVars>>, NEW m \in Migrations,
           \/ \E artifact \in Artifacts : ShadowBuilt(m, artifact)
           \/ \E compiles, correct \in BOOLEAN, manifest \in Manifests :
                  Verify(m, compiles, correct, manifest)
    PROVE  Refines
<1>1. /\ MigrationInv /\ Planned(m) /\ migration[m] \in MigrationRecords
      /\ migration[m].state \in {"PLANNED", "SHADOW_BUILT"}
  BY GatedRecord DEF OrchestratorInv, ShadowBuilt, Verify, InState
<1>2. /\ migration'[m].state \in {"SHADOW_BUILT", "VERIFIED"}
      /\ \A k \in Migrations : k # m => migration'[k] = migration[k]
  <2>1. migration \in [Migrations -> MigrationRecords \cup {NoMigration}]
    BY <1>1 DEF MigrationInv, MigrationTypeOK
  <2>2. CASE \E artifact \in Artifacts : ShadowBuilt(m, artifact)
    BY <1>1, <2>1, <2>2 DEF ShadowBuilt, MigrationRecords
  <2>3. CASE \E compiles, correct \in BOOLEAN, manifest \in Manifests :
                 Verify(m, compiles, correct, manifest)
    <3>1. migration[m].state = "SHADOW_BUILT"
      BY <2>3 DEF Verify, InState
    <3>2. PICK compiles, correct \in BOOLEAN, manifest \in Manifests :
             migration' = [migration EXCEPT ![m] = Verified(@, compiles, correct, manifest)]
      BY <2>3 DEF Verify
    <3>3. Verified(migration[m], compiles, correct, manifest).state \in {"SHADOW_BUILT", "VERIFIED"}
      BY <1>1, <3>1 DEF Verified, MigrationRecords
    <3> QED BY <1>1, <2>1, <3>2, <3>3
  <2> QED BY <2>2, <2>3
<1>3. Planned(m)' /\ SameIdentity(migration[m], migration'[m])
  BY <1>1, PlannedStays DEF Beside
<1>4. LedgerOf(m)' = LedgerOf(m)
  BY <1>1, <1>2, <1>3 DEF LedgerOf, SameIdentity, StateInLedger
<1>5. \A k \in Migrations : LedgerOf(k)' = LedgerOf(k)
  BY <1>2, <1>4, LedgerStepViews, EntryKept
<1> QED BY <1>5, LedgerStepViews, ViewsUnchanged DEF Beside

\* abort closes an entry, that of a commit in flight too.
LEMMA AbortRefines ==
    ASSUME OrchestratorInv, Beside, UNCHANGED <<session, routerVars>>, NEW m \in Migrations, Abort(m)
    PROVE  Refines
<1>1. /\ MigrationInv /\ Planned(m) /\ migration[m] \in MigrationRecords
      /\ migration[m].state \in {"PLANNED", "SHADOW_BUILT", "VERIFIED"}
      /\ migration \in [Migrations -> MigrationRecords \cup {NoMigration}]
  <2>1. Planned(m) /\ MigrationInv
    BY DEF OrchestratorInv, Abort, AbortOk
  <2>2. migration[m] \in MigrationRecords
    BY <2>1, GatedRecord
  <2>3. migration[m].state \in {"PLANNED", "SHADOW_BUILT", "VERIFIED"}
    BY <2>2 DEF Abort, AbortOk, MigrationRecords, MigrationStates
  <2> QED BY <2>1, <2>2, <2>3 DEF MigrationInv, MigrationTypeOK
<1>2. /\ migration'[m].state = "ABORTED"
      /\ \A k \in Migrations : k # m => migration'[k] = migration[k]
  BY <1>1 DEF Abort, MigrationRecords
<1>3. Planned(m)' /\ SameIdentity(migration[m], migration'[m])
  BY <1>1, PlannedStays DEF Beside
<1>4. \A k \in Migrations : k # m => LedgerOf(k)' = LedgerOf(k)
  BY <1>2, LedgerStepViews, EntryKept
<1>5. StateInLedger(migration[m].state, Committing(m)) = "open"
  BY <1>1 DEF StateInLedger
<1>6. StateInLedger(migration'[m].state, Committing(m)') = "aborted"
  BY <1>2 DEF StateInLedger
<1>7. Abstract!InLedger(m, "open") /\ Abstract!Move(m, "aborted")
  BY <1>1, <1>3, <1>4, <1>5, <1>6, MovesInLedger
<1> QED BY <1>7, LedgerStepViews, Closes DEF Beside

-----------------------------------------------------------------------------
(* Steps of threads that are not past the checks of a commit, and stay so. *)

LEMMA BesideFlights ==
    ASSUME NEW t \in Threads, StepKeeps(t), UNCHANGED <<bound, reported>>,
           ~InFlight(t), ~InFlight(t)'
    PROVE  Beside
<1>1. \A u \in Threads : u # t => call'[u] = call[u]
  BY DEF StepKeeps, Goes
<1>2. FlightsKept
  BY <1>1 DEF FlightsKept, InFlight
<1> QED BY <1>2 DEF Beside, StepKeeps, ControllersStep

\* A step that changes no controller.
LEMMA IdleRefines ==
    ASSUME OrchestratorInv, Beside, UNCHANGED controllers
    PROVE  Refines
<1>1. UNCHANGED migration /\ SessionsQuiet /\ RoutesQuiet
  BY UnchangedQuiet DEF controllers
<1>2. NoNewSession /\ NoNewDeployment
  BY DEF NoNewSession, NoNewDeployment, Started, Deployed, controllers
<1> QED BY <1>1, <1>2, QuietRefines

\* What is not a commit past its checks, before and after.
LEMMA NotInFlight ==
    ASSUME OrchestratorInv, NEW t \in Threads, call[t] # NoCall,
           call[t].op # "commit",
           Leave(t) \/ (call'[t] # NoCall => call'[t].op = call[t].op)
    PROVE  ~InFlight(t) /\ ~InFlight(t)'
<1>1. ~InFlight(t)
  BY DEF InFlight
<1>2. CASE Leave(t)
  BY <1>1, <1>2, LeaveEnds DEF InFlight
<1>3. CASE call'[t] # NoCall => call'[t].op = call[t].op
  BY <1>3 DEF InFlight
<1> QED BY <1>1, <1>2, <1>3

LEMMA RequestRefines ==
    ASSUME CommitInv, NEW t \in Threads, Request(t)
    PROVE  Refines
<1>1. OrchestratorInv /\ StepKeeps(t)
  BY RequestKeeps DEF CommitInv
<1>2. PICK c : call' = [call EXCEPT ![t] = c] /\ c.at = "begin" /\ call[t] = NoCall
  BY DEF Request, Enter
<1>3. ~InFlight(t) /\ ~InFlight(t)'
  BY <1>1, <1>2 DEF InFlight, OrchestratorInv, OwnTypeOK
<1>4. UNCHANGED controllers /\ UNCHANGED <<bound, reported>>
  BY DEF Request, Enter
<1> QED BY <1>1, <1>3, <1>4, BesideFlights, IdleRefines

\* A call to plan, stage or abort remains one until it ends.
LEMMA UnlockedCalls ==
    ASSUME OrchestratorInv, NEW t \in Threads,
           \/ PlanRead(t) \/ PlanRecord(t)
           \/ StageRead(t) \/ StageBinding(t) \/ StageRoute(t)
           \/ AbortBegin(t) \/ AbortBinding(t) \/ AbortCheckStaged(t)
           \/ AbortRoute(t) \/ AbortRecord(t) \/ AbortClearPending(t)
    PROVE  ~InFlight(t) /\ ~InFlight(t)'
<1>1. call[t] # NoCall /\ call[t] \in Calls /\ call[t].op \in {"plan", "stage", "abort"}
  BY Caller DEF PlanRead, PlanRecord, StageRead, StageBinding, StageRoute, AbortBegin,
                AbortBinding, AbortCheckStaged, AbortRoute, AbortRecord, AbortClearPending
<1>2. CASE Leave(t)
  BY <1>1, <1>2, NotInFlight
<1>3. CASE \E label \in Places : Goto(t, label)
  BY <1>1, <1>3, GotoKeeps, NotInFlight
<1>4. CASE PlanRead(t) \/ StageBinding(t) \/ AbortBinding(t)
  <2>1. Leave(t) \/ (call'[t] # NoCall => call'[t].op = call[t].op)
    BY <1>1, <1>4 DEF PlanRead, StageBinding, AbortBinding, Calls, OrchestratorInv, OwnTypeOK
  <2> QED BY <1>1, <2>1, NotInFlight
<1>5. {"binding", "route", "record", "pending"} \subseteq Places
  BY DEF Places
<1> QED BY <1>2, <1>3, <1>4, <1>5
        DEF PlanRecord, StageRead, StageRoute, AbortBegin, AbortCheckStaged, AbortRoute,
            AbortRecord, AbortClearPending

LEMMA PlanStageRefine ==
    ASSUME CommitInv, NEW t \in Threads,
           \/ PlanRead(t) \/ PlanRecord(t)
           \/ StageRead(t) \/ StageBinding(t) \/ StageRoute(t)
    PROVE  Refines
<1>0. OrchestratorInv /\ StepKeeps(t)
  BY PlanReadKeeps, PlanRecordKeeps, StageReadKeeps, StageBindingKeeps, StageRouteKeeps
     DEF CommitInv
<1>1. UNCHANGED <<bound, reported>>
  BY DEF PlanRead, PlanRecord, StageRead, StageBinding, StageRoute
<1>2. Beside
  BY <1>0, <1>1, UnlockedCalls, BesideFlights
<1>3. CASE UNCHANGED controllers
  BY <1>0, <1>2, <1>3, IdleRefines
<1>4. CASE PlanRecord(t)
  <2>1. /\ call[t].migration \in Migrations /\ call[t].session \in Sessions
        /\ call[t].active \in Candidates /\ call[t].pending \in Candidates
    BY <1>0, <1>4, Caller DEF PlanRecord, CallOK
  <2>2. CASE UNCHANGED migration
    BY <1>3, <1>4, <2>2 DEF PlanRecord, controllers, routerVars
  <2> QED BY <1>0, <1>2, <1>4, <2>1, <2>2, PlanRefines DEF PlanRecord
<1>5. CASE StageRoute(t)
  <2> DEFINE m == call[t].migration
             d == call[t].deployment
             r == migration[m]
  <2>1. CallOK(call[t]) /\ call[t].at = "route" /\ call[t].op = "stage" /\ call[t] # NoCall
    BY <1>0, <1>5, Caller DEF StageRoute
  <2>2. m \in Migrations /\ d \in Deployments /\ PassedGates(m) /\ r \in MigrationRecords
    BY <1>0, <2>1, CallersMigration DEF CallOK
  <2>3. r.to \in Candidates /\ r.artifact \in Artifacts /\ r.manifest \in Manifests /\ m \in Origins
    BY <2>2, OrchestratorsAssumption DEF MigrationRecords, PassedGates
  <2>4. CASE UNCHANGED routerVars
    BY <1>3, <1>5, <2>4 DEF StageRoute, controllers, routerVars
  <2>5. CASE Stage(d, r.to, r.artifact, r.manifest, m)
    BY <1>0, <1>2, <1>5, <2>2, <2>3, <2>5, StageRefines DEF StageRoute
  <2> QED BY <1>5, <2>4, <2>5 DEF StageRoute
<1> QED BY <1>3, <1>4, <1>5 DEF PlanRead, StageRead, StageBinding

LEMMA AbortStepsRefine ==
    ASSUME CommitInv, NEW t \in Threads,
           \/ AbortBegin(t) \/ AbortBinding(t) \/ AbortCheckStaged(t)
           \/ AbortRoute(t) \/ AbortRecord(t) \/ AbortClearPending(t)
    PROVE  Refines
<1>0. OrchestratorInv /\ StepKeeps(t)
  BY AbortBeginKeeps, AbortBindingKeeps, AbortCheckStagedKeeps, AbortRouteKeeps,
     AbortRecordKeeps, AbortClearPendingKeeps DEF CommitInv
<1>1. UNCHANGED <<bound, reported>>
  BY DEF AbortBegin, AbortBinding, AbortCheckStaged, AbortRoute, AbortRecord, AbortClearPending
<1>2. Beside
  BY <1>0, <1>1, UnlockedCalls, BesideFlights
<1>3. CASE UNCHANGED controllers
  BY <1>0, <1>2, <1>3, IdleRefines
<1>4. CASE AbortRoute(t)
  <2>1. call[t].deployment \in Deployments
    BY <1>0, <1>4, Caller DEF AbortRoute, CallOK
  <2>2. CASE UNCHANGED routerVars
    BY <1>3, <1>4, <2>2 DEF AbortRoute, controllers, routerVars
  <2> QED BY <1>0, <1>2, <1>4, <2>1, <2>2, StageRefines DEF AbortRoute
<1>5. CASE AbortRecord(t)
  <2>1. call[t].migration \in Migrations
    BY <1>0, <1>5, Caller, CallersMigration DEF AbortRecord
  <2>2. CASE UNCHANGED migration
    BY <1>3, <1>5, <2>2 DEF AbortRecord, controllers, routerVars
  <2> QED BY <1>0, <1>2, <1>5, <2>1, <2>2, AbortRefines DEF AbortRecord
<1>6. CASE AbortClearPending(t)
  <2>1. call[t].session \in Sessions
    BY <1>0, <1>6, Caller DEF AbortClearPending
  <2> QED BY <1>0, <1>2, <1>6, <2>1, ObserveRefines DEF AbortClearPending
<1> QED BY <1>3, <1>4, <1>5, <1>6 DEF AbortBegin, AbortBinding, AbortCheckStaged

\* The endpoints that call one controller.
LEMMA BesideDirect ==
    ASSUME ControllersStep, UNCHANGED <<bound, reported, call>>
    PROVE  Beside
BY DEF Beside, ControllersStep, FlightsKept, InFlight

LEMMA DirectRefines ==
    ASSUME CommitInv, OneOrchestrator,
           \/ \E s \in Sessions : DirectRuntime(s)
           \/ \E m \in Migrations : DirectMigration(m)
           \/ \E d \in Deployments : DirectRouter(d)
    PROVE  Refines
<1>0. OrchestratorInv
  BY DEF CommitInv
<1>1. ASSUME NEW s \in Sessions, DirectRuntime(s) PROVE Refines
  <2>1. Beside /\ UNCHANGED <<migration, routerVars>>
    BY <1>0, <1>1, DirectRuntimeKeeps, BesideDirect DEF DirectRuntime
  <2>2. \/ \E candidate \in Candidates, baseline \in Snapshots, cooldown \in Cooldowns :
               Start(s, candidate, baseline, cooldown)
        \/ \E snapshot \in Snapshots, alternative \in Candidates, pays \in BOOLEAN :
               Observe(s, snapshot, alternative, pays)
        \/ AbortPending(s)
    BY <1>1 DEF DirectRuntime, OneOrchestrator
  <2> QED BY <1>0, <2>1, <2>2, StartRefines, ObserveRefines, Zenon
<1>2. ASSUME NEW m \in Migrations, DirectMigration(m) PROVE Refines
  <2>1. Beside /\ UNCHANGED <<session, routerVars>>
    BY <1>0, <1>2, DirectMigrationKeeps, BesideDirect DEF DirectMigration
  <2> QED BY <1>0, <1>2, <2>1, GateRefines DEF DirectMigration
<1>3. ASSUME NEW d \in Deployments, DirectRouter(d) PROVE Refines
  <2>1. Beside /\ UNCHANGED <<session, migration>>
    BY <1>0, <1>3, DirectRouterKeeps, BesideDirect DEF DirectRouter
  <2> QED BY <1>0, <1>3, <2>1, BootstrapRefines DEF DirectRouter
<1> QED BY <1>1, <1>2, <1>3

-----------------------------------------------------------------------------
(* Steps of the thread that holds the lock. *)

\* A thread past the checks is alone there, and works on an entry of its session.
LEMMA Flight ==
    ASSUME CommitInv, OneOrchestrator, NEW t \in Threads, InFlight(t)
    PROVE  /\ OnlyCommits(t) /\ FlightView(t)
           /\ call[t].session \in Sessions /\ Started(call[t].session)
           /\ call[t].migration \in Migrations /\ Planned(call[t].migration)
           /\ migration[call[t].migration] \in MigrationRecords
           /\ migration[call[t].migration].session = call[t].session
           /\ CommitOK(call[t])
           /\ call[t].deployment = bound[call[t].session]
<1>1. call[t] # NoCall /\ Locked(call[t]) /\ call[t].op = "commit"
  BY FlightIsLocked DEF InFlight
<1>2. OrchestratorInv /\ CallOK(call[t]) /\ CommitOK(call[t])
  BY <1>1 DEF CommitInv, OrchestratorInv, CallsOK, CommitsOK
<1>3. OnlyCommits(t)
  BY <1>1, FlightIsLocked, OneHolder DEF OnlyCommits
<1>4. /\ call[t].session \in Sessions /\ Started(call[t].session)
      /\ call[t].migration \in Migrations /\ Planned(call[t].migration)
  BY <1>1, <1>2 DEF CallOK, Calls
<1>5. migration[call[t].migration] \in MigrationRecords
  BY <1>2, <1>4, GatedRecord DEF OrchestratorInv
<1>6. /\ migration[call[t].migration].session = call[t].session
      /\ call[t].deployment = bound[call[t].session]
  BY <1>2 DEF CommitOK, InFlight
<1>7. FlightView(t)
  BY <1>3, <1>4, ViewsAreMapped DEF MappedViews
<1> QED BY <1>2, <1>3, <1>4, <1>5, <1>6, <1>7

\* A thread inside the lock that is not past the checks keeps others out.
LEMMA AtRest ==
    ASSUME CommitInv, OneOrchestrator, NEW t \in Threads, call[t] # NoCall, Locked(call[t]),
           ~InFlight(t)
    PROVE  NobodyCommits /\ RestingView
<1>1. NobodyCommits
  BY FlightIsLocked, OneHolder DEF NobodyCommits
<1> QED BY <1>1, ViewsAreMapped DEF MappedViews

LEMMA RoutingTyped ==
    ASSUME RouterInv', NEW d \in Deployments, Deployed(d)'
    PROVE  Routing(d)' \in Candidates
<1>1. deployment'[d] \in DeploymentRecords
  BY DEF RouterInv, RouterTypeOK, Deployed
<1>2. deployment'[d].active \in Versions
  BY <1>1 DEF DeploymentRecords
<1> QED BY <1>2 DEF Versions, Routing, Active

\* What a step of the holder on its own session, route and entry looks like
\* while the commit is in flight: nothing, or a route that is lost moves.
LEMMA InFlightRefines ==
    ASSUME CommitInv, OneOrchestrator, NEW t \in Threads, InFlight(t), StepKeeps(t), InFlight(t)',
           call'[t].session = call[t].session, call'[t].migration = call[t].migration,
           UNCHANGED <<bound, reported>>,
           \A q \in Sessions : q # call[t].session => session'[q] = session[q],
           \A d \in Deployments : d # bound[call[t].session] => deployment'[d] = deployment[d],
           \A d \in Deployments : Deployed(d) => Deployed(d)',
           \A k \in Migrations : k # call[t].migration => migration'[k] = migration[k],
           \/ migration'[call[t].migration] = migration[call[t].migration]
           \/ /\ migration[call[t].migration].state # "ABORTED"
              /\ migration'[call[t].migration].state # "ABORTED"
    PROVE  Refines
<1>0. OrchestratorInv /\ OrchestratorInv'
  BY KeepsInv DEF CommitInv
<1>1. PICK s : s = call[t].session
  OBVIOUS
<1>2. PICK m : m = call[t].migration
  OBVIOUS
<1>3. s \in Sessions /\ m \in Migrations /\ Planned(m) /\ OnlyCommits(t)
  BY <1>1, <1>2, Flight
<1>4. \A u \in Threads : u # t => call'[u] = call[u]
  BY DEF StepKeeps, Goes
<1>5. Beside
  BY <1>4 DEF Beside, StepKeeps, ControllersStep, FlightsKept, InFlight
<1>6. CommitsOf(s) # {}
  BY <1>1 DEF CommitsOf
<1>7. \A q \in Sessions : q # s => Running(q)' = Running(q)
  BY <1>1 DEF Running, Started
<1>8. \A d \in Deployments : d # bound[s] => Routing(d)' = Routing(d)
  BY <1>1 DEF Routing, Deployed, Active
<1>9. /\ \A q \in Sessions : CurrentOf(q)' = CurrentOf(q)
      /\ \A d \in Deployments : d # bound[s] \/ Settling(d) # {} => RoutedOf(d)' = RoutedOf(d)
      /\ \A k \in Migrations : Committing(k)' = Committing(k)
  BY <1>0, <1>5, <1>6, <1>7, <1>8, KeptViews DEF Beside
<1>10. LedgerOf(m)' = LedgerOf(m)
  <2>1. CASE migration'[m] = migration[m]
    BY <1>3, <1>9, <2>1, EntryKept
  <2>2. CASE migration[m].state # "ABORTED" /\ migration'[m].state # "ABORTED"
    <3>1. Planned(m)' /\ SameIdentity(migration[m], migration'[m])
      BY <1>0, <1>3, <1>5, PlannedStays DEF OrchestratorInv, Beside
    <3>2. Committing(m)
      BY <1>2 DEF Committing
    <3> QED BY <1>3, <1>9, <2>2, <3>1, <3>2 DEF LedgerOf, SameIdentity, StateInLedger
  <2> QED BY <1>2, <2>1, <2>2
<1>11. \A k \in Migrations : LedgerOf(k)' = LedgerOf(k)
  BY <1>2, <1>9, <1>10, EntryKept
<1>12. CASE ~reported[s] \/ bound[s] = NoDeployment
  <2>1. \A d \in Deployments : d # bound[s] \/ Settling(d) # {}
    BY <1>3, <1>6, <1>12, BoundAssumption DEF Settling
  <2> QED BY <1>9, <1>11, <2>1, ViewsUnchanged
<1>13. CASE reported[s] /\ bound[s] # NoDeployment
  <2>1. PICK d : d = bound[s]
    OBVIOUS
  <2>2. d \in Deployments /\ Deployed(d)
    BY <1>3, <1>13, <2>1, BoundDeployed
  <2>3. Routing(d)' \in Candidates
    BY <1>0, <2>2, RoutingTyped DEF OrchestratorInv
  <2>4. RoutedOf(d)' = Routing(d)'
    <3>1. OnlyCommits(t)' /\ call'[t].session \in Sessions
      BY <1>1, <1>3, <1>5 DEF Beside, FlightsKept, OnlyCommits
    <3>2. FlightView(t)'
      BY <3>1, ViewsStayMapped DEF MappedViews
    <3> QED BY <1>1, <1>13, <2>2, <3>2 DEF FlightView
  <2>5. CurrentOf(s)' = Split
    BY <1>13 DEF CurrentOf
  <2>6. LedgerView' = LedgerView
    BY <1>11 DEF LedgerView
  <2>7. \A k \in Deployments : RoutedOf(k)' = IF k = bound[s] THEN Routing(d)' ELSE RoutedOf(k)
    BY <1>9, <2>1, <2>4
  <2>8. PICK candidate : candidate = Routing(d)'
    OBVIOUS
  <2> QED BY <1>3, <1>9, <2>3, <2>5, <2>6, <2>7, <2>8, Loses
<1> QED BY <1>12, <1>13

\* Passing the checks: the source still counts, and it is where things are.
LEMMA EntersFlight ==
    ASSUME CommitInv, OneOrchestrator, NEW t \in Threads, call[t] # NoCall, Locked(call[t]),
           ~InFlight(t), StepKeeps(t), InFlight(t)',
           call'[t].session = call[t].session, call'[t].migration = call[t].migration,
           UNCHANGED <<session, migration, bound, reported>>,
           session[call[t].session].active = From(t),
           migration[call[t].migration].state \in {"VERIFIED", "ABORTED"},
           \A d \in Deployments : d # bound[call[t].session] => deployment'[d] = deployment[d],
           \A d \in Deployments : Deployed(d) => Deployed(d)',
           bound[call[t].session] # NoDeployment =>
               Active(bound[call[t].session]).candidate = From(t)
    PROVE  Refines
<1>0. OrchestratorInv /\ OrchestratorInv'
  BY KeepsInv DEF CommitInv
<1>1. PICK s : s = call[t].session
  OBVIOUS
<1>2. PICK m : m = call[t].migration
  OBVIOUS
<1>3. s \in Sessions /\ Started(s) /\ m \in Migrations
  <2>1. CallOK(call[t]) /\ call[t].op = "commit"
    BY <1>0 DEF OrchestratorInv, CallsOK, Locked
  <2> QED BY <1>1, <1>2, <2>1 DEF CallOK, Calls
<1>4. RestingView /\ NobodyCommits
  BY AtRest
<1>5. OnlyCommits(t)'
  BY <1>4 DEF StepKeeps, Goes, OnlyCommits, NobodyCommits, InFlight
<1>6. FlightView(t)'
  <2>1. call'[t].session \in Sessions
    BY <1>1, <1>3
  <2> QED BY <1>5, <2>1, ViewsStayMapped DEF MappedViews
<1>7. PICK source : source = From(t)
  OBVIOUS
<1>8. /\ \A q \in Sessions :
             CurrentOf(q)' = IF reported[q] THEN Split ELSE IF q = s THEN source ELSE Running(q)'
      /\ \A d \in Deployments :
             RoutedOf(d)' = IF bound[s] = d /\ ~reported[s] THEN source ELSE Routing(d)'
      /\ \A k \in Migrations : Committing(k)' <=> k = m
  BY <1>1, <1>2, <1>6, <1>7 DEF FlightView, From
<1>9. /\ \A q \in Sessions : CurrentOf(q) = IF reported[q] THEN Split ELSE Running(q)
      /\ \A d \in Deployments : RoutedOf(d) = Routing(d)
      /\ \A k \in Migrations : ~Committing(k)
  BY <1>4 DEF RestingView
<1>10. \A q \in Sessions : CurrentOf(q)' = CurrentOf(q)
  <2>1. Running(s) = source /\ \A q \in Sessions : Running(q)' = Running(q)
    BY <1>1, <1>3, <1>7 DEF Running, Started
  <2> QED BY <1>8, <1>9, <2>1
<1>11. \A d \in Deployments : d # bound[s] => RoutedOf(d)' = RoutedOf(d)
  <2>1. \A d \in Deployments : d # bound[s] => Routing(d)' = Routing(d)
    BY <1>1 DEF Routing, Deployed, Active
  <2> QED BY <1>8, <1>9, <2>1
<1>12. \A k \in Migrations : LedgerOf(k)' = LedgerOf(k)
  BY <1>2, <1>8, <1>9 DEF LedgerOf, Planned, StateInLedger
<1>13. CASE bound[s] = NoDeployment
  BY <1>10, <1>11, <1>12, <1>13, BoundAssumption, ViewsUnchanged
<1>14. CASE bound[s] # NoDeployment
  <2>1. PICK d : d = bound[s]
    OBVIOUS
  <2>2. d \in Deployments /\ Deployed(d)
    BY <1>3, <1>14, <2>1, BoundDeployed
  <2>3. CASE ~reported[s]
    <3>1. RoutedOf(d) = source /\ RoutedOf(d)' = source
      BY <1>1, <1>7, <1>8, <1>9, <1>14, <2>1, <2>2, <2>3 DEF Routing
    <3>2. \A k \in Deployments : RoutedOf(k)' = RoutedOf(k)
      BY <1>11, <2>1, <3>1
    <3> QED BY <1>10, <1>12, <3>2, ViewsUnchanged
  <2>4. CASE reported[s]
    <3>1. PICK candidate : candidate = Routing(d)'
      OBVIOUS
    <3>2. candidate \in Candidates
      BY <1>0, <2>2, <3>1, RoutingTyped DEF OrchestratorInv
    <3>3. \A k \in Deployments : RoutedOf(k)' = IF k = bound[s] THEN candidate ELSE RoutedOf(k)
      BY <1>8, <1>11, <2>1, <2>4, <3>1
    <3>4. CurrentOf(s)' = Split
      BY <1>3, <1>8, <2>4
    <3>5. LedgerView' = LedgerView
      BY <1>12 DEF LedgerView
    <3> QED BY <1>3, <1>10, <3>2, <3>3, <3>4, <3>5, Loses
  <2> QED BY <2>3, <2>4
<1> QED BY <1>13, <1>14

\* The views before and after the call of a thread in flight ends.
LEMMA LeavesFlight ==
    ASSUME CommitInv, OneOrchestrator, NEW t \in Threads, InFlight(t), StepKeeps(t),
           call'[t] = NoCall, UNCHANGED <<session, deployment, bound>>
    PROVE  /\ RestingView'
           /\ \A q \in Sessions : Running(q)' = Running(q)
           /\ \A d \in Deployments : Routing(d)' = Routing(d)
           /\ \A k \in Migrations : k # call[t].migration /\ migration'[k] = migration[k] =>
                  LedgerOf(k)' = LedgerOf(k)
<1>1. NobodyCommits'
  BY Flight DEF StepKeeps, Goes, OnlyCommits, NobodyCommits, InFlight
<1>2. RestingView'
  BY <1>1, ViewsStayMapped DEF MappedViews
<1>3. \A q \in Sessions : Running(q)' = Running(q)
  BY DEF Running, Started
<1>4. \A d \in Deployments : Routing(d)' = Routing(d)
  BY DEF Routing, Deployed, Active
<1>5. ASSUME NEW k \in Migrations, k # call[t].migration, migration'[k] = migration[k]
      PROVE  LedgerOf(k)' = LedgerOf(k)
  <2>1. ~Committing(k) /\ ~Committing(k)'
    BY <1>2, <1>5, Flight DEF FlightView, RestingView
  <2>2. Committing(k)' = Committing(k)
    BY <2>1 DEF Committing
  <2> QED BY <1>5, <2>2, EntryKept
<1> QED BY <1>2, <1>3, <1>4, <1>5

LEMMA CommitBeginRefines ==
    ASSUME CommitInv, NEW t \in Threads, CommitBegin(t)
    PROVE  Refines
<1>0. OrchestratorInv /\ StepKeeps(t)
  BY CommitBeginKeeps DEF CommitInv
<1>1. call[t] # NoCall /\ call[t] \in Calls /\ call[t].op = "commit" /\ call[t].at = "begin"
  BY <1>0, Caller DEF CommitBegin
<1>2. ~InFlight(t)
  BY <1>1 DEF InFlight
<1>3. ~InFlight(t)'
  BY <1>0, <1>1, LeaveEnds, GotoKeeps DEF CommitBegin, InFlight
<1> QED BY <1>0, <1>2, <1>3, BesideFlights, IdleRefines DEF CommitBegin

LEMMA CommitCheckRuntimeRefines ==
    ASSUME CommitInv, OneOrchestrator, NEW t \in Threads, CommitCheckRuntime(t)
    PROVE  Refines
<1> DEFINE d == DeploymentFor(t)
           label == IF d = NoDeployment THEN "confirm" ELSE "route"
           s == call[t].session
<1>0. OrchestratorInv /\ StepKeeps(t)
  BY CommitCheckRuntimeKeeps DEF CommitInv
<1>1. /\ call[t] # NoCall /\ call[t] \in Calls /\ call[t].op = "commit" /\ call[t].at = "runtime"
      /\ CommitOK(call[t]) /\ d = bound[s] /\ Locked(call[t])
  BY Holder DEF CommitCheckRuntime
<1>2. ~InFlight(t)
  BY <1>1 DEF InFlight
<1>3. UNCHANGED controllers /\ UNCHANGED <<bound, reported>>
  BY DEF CommitCheckRuntime
<1>4. CASE ~InFlight(t)'
  BY <1>0, <1>2, <1>3, <1>4, BesideFlights, IdleRefines
<1>5. CASE InFlight(t)'
  <2>1. /\ session[s].active = From(t)
        /\ call' = [call EXCEPT ![t].deployment = d, ![t].at = label]
    BY <1>0, <1>5, LeaveEnds DEF CommitCheckRuntime, InFlight
  <2>2. call'[t] = [call[t] EXCEPT !.deployment = d, !.at = label]
    BY <1>0, <2>1 DEF OrchestratorInv, OwnTypeOK
  <2>3. call'[t].at = label /\ call'[t].session = s /\ call'[t].migration = call[t].migration
    BY <1>1, <2>2 DEF Calls
  <2>4. bound[s] = NoDeployment
    BY <1>1, <1>5, <2>3 DEF InFlight
  <2>5. migration[call[t].migration].state \in {"VERIFIED", "ABORTED"}
    BY <1>1 DEF CommitOK
  <2>6. UNCHANGED <<session, migration, deployment>>
    BY <1>3 DEF controllers
  <2>7. \A k \in Deployments : Deployed(k) => Deployed(k)'
    BY <2>6 DEF Deployed
  <2> HIDE DEF d, label
  <2> QED BY <1>0, <1>1, <1>2, <1>3, <1>5, <2>1, <2>3, <2>4, <2>5, <2>6, <2>7, EntersFlight
<1> QED BY <1>4, <1>5

LEMMA CommitRouteRefines ==
    ASSUME CommitInv, OneOrchestrator, NEW t \in Threads, CommitRoute(t)
    PROVE  Refines
<1> DEFINE s == call[t].session
           d == call[t].deployment
<1>0. OrchestratorInv /\ StepKeeps(t)
  BY CommitRouteKeeps DEF CommitInv
<1>1. /\ call[t] # NoCall /\ call[t] \in Calls /\ CallOK(call[t]) /\ Locked(call[t])
      /\ call[t].op = "commit" /\ call[t].at = "route" /\ CommitOK(call[t])
      /\ s \in Sessions
  BY <1>0, Holder, Caller DEF CommitRoute
<1>2. ~InFlight(t)
  BY <1>1 DEF InFlight
<1>3. UNCHANGED <<session, migration, bound, reported>>
  BY DEF CommitRoute
<1>4. CASE Leave(t) /\ UNCHANGED routerVars
  <2>1. ~InFlight(t)' /\ UNCHANGED controllers
    BY <1>0, <1>3, <1>4, LeaveEnds DEF InFlight, controllers, routerVars
  <2> QED BY <1>0, <1>2, <1>3, <2>1, BesideFlights, IdleRefines
<1>5. CASE Activate(d, From(t), To(t)) /\ Goto(t, "confirm")
  <2>1. d = bound[s] /\ d \in Deployments
    BY <1>1 DEF CommitOK, CallOK
  <2>2. /\ Active(d).candidate = From(t)
        /\ deployment' = [deployment EXCEPT ![d] = Activated(deployment[d])]
        /\ RecordOK(deployment[d]) /\ Staged(d) # NoVersion
        /\ deployment \in [Deployments -> DeploymentRecords \cup {NoDeployment}]
    BY <1>0, <1>5, <2>1
       DEF Activate, ActivateOk, Active, OrchestratorInv, RouterInv, RouterTypeOK
  <2>3. Activated(deployment[d]) \in DeploymentRecords
    BY <2>2, ActivatedRecord DEF RecordOK, Staged
  <2>4. /\ \A k \in Deployments : k # d => deployment'[k] = deployment[k]
        /\ \A k \in Deployments : Deployed(k) => Deployed(k)'
    BY <2>1, <2>2, <2>3, NoDeploymentAssumption DEF Deployed
  <2>5. /\ call'[t].at = "confirm" /\ call'[t].op = "commit"
        /\ call'[t].session = s /\ call'[t].migration = call[t].migration
    BY <1>0, <1>1, <1>5, GotoKeeps
  <2>6. InFlight(t)'
    <3>1. [call[t] EXCEPT !.at = "confirm"] \in Calls /\ call \in [Threads -> Calls \cup {NoCall}]
      BY <1>0, <1>1 DEF Calls, OrchestratorInv, OwnTypeOK
    <3>2. call'[t] # NoCall
      BY <1>5, <3>1, CallsAssumption DEF Goto
    <3> QED BY <2>5, <3>2 DEF InFlight
  <2>7. /\ session[s].active = From(t)
        /\ migration[call[t].migration].state \in {"VERIFIED", "ABORTED"}
    BY <1>1 DEF CommitOK, From
  <2> QED BY <1>0, <1>1, <1>2, <1>3, <2>1, <2>2, <2>4, <2>5, <2>6, <2>7, EntersFlight
<1> QED BY <1>4, <1>5 DEF CommitRoute

\* A thread in flight that goes on there, as one controller call or a note does.
LEMMA FlightGoesOn ==
    ASSUME OrchestratorInv, NEW t \in Threads, InFlight(t), NEW place, NEW errors \in BOOLEAN,
           place \in {"confirm", "record", "undoRoute", "undoRuntime?", "undoRuntime",
                      "undoRecord?", "undoRecord", "verifyRuntime", "verifyRoute"},
           \/ Goto(t, place)
           \/ call' = [call EXCEPT ![t].at = place, ![t].errors = errors]
    PROVE  /\ InFlight(t)'
           /\ call'[t].session = call[t].session /\ call'[t].migration = call[t].migration
<1>1. /\ call[t] # NoCall /\ call[t].op = "commit" /\ call[t] \in Calls
      /\ call \in [Threads -> Calls \cup {NoCall}]
  BY DEF InFlight, OrchestratorInv, OwnTypeOK
<1>2. PICK flag \in BOOLEAN : call' = [call EXCEPT ![t].at = place, ![t].errors = flag]
  BY <1>1, NotesOnlyPlace
<1> DEFINE c == [call[t] EXCEPT !.at = place, !.errors = flag]
<1>3. call'[t] = c
  BY <1>1, <1>2
<1>4. c \in Calls
  BY <1>1 DEF Calls
<1>5. /\ c.at = place /\ c.op = "commit"
      /\ c.session = call[t].session /\ c.migration = call[t].migration
  BY <1>1 DEF Calls
<1> HIDE DEF c
<1> QED BY <1>3, <1>4, <1>5, CallsAssumption DEF InFlight

\* The steps that write nothing but the call: what is needed, what was found.
LEMMA NotesRefine ==
    ASSUME CommitInv, OneOrchestrator, NEW t \in Threads,
           UndoRuntimeNeeded(t) \/ UndoRecordNeeded(t) \/ VerifyRuntime(t)
    PROVE  Refines
<1>0. OrchestratorInv /\ StepKeeps(t)
  BY UndoRuntimeNeededKeeps, UndoRecordNeededKeeps, VerifyRuntimeKeeps DEF CommitInv
<1>1. InFlight(t) /\ call[t].errors \in BOOLEAN
  <2>1. InFlight(t) /\ call[t] \in Calls
    BY <1>0, Caller
       DEF UndoRuntimeNeeded, UndoRecordNeeded, VerifyRuntime, At, InFlight, OrchestratorInv,
           OwnTypeOK
  <2> QED BY <2>1 DEF Calls
<1>2. UNCHANGED controllers /\ UNCHANGED <<bound, reported>>
  BY DEF UndoRuntimeNeeded, UndoRecordNeeded, VerifyRuntime
<1>3. /\ InFlight(t)'
      /\ call'[t].session = call[t].session /\ call'[t].migration = call[t].migration
  <2>1. CASE UndoRuntimeNeeded(t)
    <3>1. PICK place \in {"undoRuntime", "undoRecord?"} : Goto(t, place)
      BY <2>1 DEF UndoRuntimeNeeded
    <3> QED BY <1>0, <1>1, <3>1, FlightGoesOn
  <2>2. CASE UndoRecordNeeded(t)
    <3>1. PICK place \in {"undoRecord", "verifyRuntime"} : Goto(t, place)
      BY <2>2 DEF UndoRecordNeeded
    <3> QED BY <1>0, <1>1, <3>1, FlightGoesOn
  <2>3. CASE VerifyRuntime(t)
    <3> DEFINE errors == call[t].errors \/ session[call[t].session].active # From(t)
    <3>1. call' = [call EXCEPT ![t].at = "verifyRoute", ![t].errors = errors]
      BY <1>0, <1>1, <2>3 DEF VerifyRuntime, OrchestratorInv, OwnTypeOK
    <3>2. errors \in BOOLEAN
      BY <1>1
    <3> HIDE DEF errors
    <3> QED BY <1>0, <1>1, <3>1, <3>2, FlightGoesOn
  <2> QED BY <2>1, <2>2, <2>3
<1>4. UNCHANGED <<session, migration, deployment>> /\ \A d \in Deployments : Deployed(d) => Deployed(d)'
  BY <1>2 DEF controllers, Deployed
<1>5. Beside
  BY <1>0, <1>1, <1>2, <1>3 DEF Beside, StepKeeps, ControllersStep, Goes, FlightsKept, InFlight
<1> QED BY <1>0, <1>2, <1>5, IdleRefines

\* confirm_migration, and its compensation.
LEMMA SessionCallsRefine ==
    ASSUME CommitInv, OneOrchestrator, NEW t \in Threads, CommitConfirm(t) \/ UndoRuntime(t)
    PROVE  Refines
<1> DEFINE s == call[t].session
<1>0. OrchestratorInv /\ StepKeeps(t) /\ session \in [Sessions -> SessionRecords \cup {NoSession}]
  BY CommitConfirmKeeps, UndoRuntimeKeeps DEF CommitInv, OrchestratorInv, RuntimeInv, RuntimeTypeOK
<1>1. InFlight(t)
  BY DEF CommitConfirm, UndoRuntime, At, InFlight
<1>2. UNCHANGED <<migration, deployment, bound, reported>>
  BY DEF CommitConfirm, UndoRuntime, routerVars
<1>3. \A q \in Sessions : q # s => session'[q] = session[q]
  BY <1>0 DEF CommitConfirm, UndoRuntime, Confirm, RollbackLastSwitch
<1>4. /\ InFlight(t)'
      /\ call'[t].session = s /\ call'[t].migration = call[t].migration
  <2>1. \/ \E place \in {"record", "undoRoute", "undoRecord?"} : Goto(t, place)
        \/ call' = [call EXCEPT ![t].at = "undoRecord?", ![t].errors = TRUE]
    BY DEF CommitConfirm, UndoRuntime
  <2>2. CASE \E place \in {"record", "undoRoute", "undoRecord?"} : Goto(t, place)
    BY <1>0, <1>1, <2>2, FlightGoesOn
  <2>3. CASE call' = [call EXCEPT ![t].at = "undoRecord?", ![t].errors = TRUE]
    BY <1>0, <1>1, <2>3, FlightGoesOn
  <2> QED BY <2>1, <2>2, <2>3
<1>5. \A d \in Deployments : Deployed(d) => Deployed(d)'
  BY <1>2 DEF Deployed
<1> QED BY <1>0, <1>1, <1>2, <1>3, <1>4, <1>5, InFlightRefines

\* The compensation of the route.
LEMMA UndoRouteRefines ==
    ASSUME CommitInv, OneOrchestrator, NEW t \in Threads, UndoRoute(t)
    PROVE  Refines
<1> DEFINE s == call[t].session
           d == call[t].deployment
<1>0. /\ OrchestratorInv /\ StepKeeps(t)
      /\ deployment \in [Deployments -> DeploymentRecords \cup {NoDeployment}]
  BY UndoRouteKeeps DEF CommitInv, OrchestratorInv, RouterInv, RouterTypeOK
<1>1. InFlight(t)
  BY DEF UndoRoute, At, InFlight
<1>2. UNCHANGED <<session, migration, bound, reported>> /\ Goto(t, "undoRuntime?")
  BY DEF UndoRoute
<1>3. /\ InFlight(t)'
      /\ call'[t].session = s /\ call'[t].migration = call[t].migration
  BY <1>0, <1>1, <1>2, FlightGoesOn
<1>4. d = bound[s] /\ s \in Sessions
  BY <1>1, Flight
<1>5. CASE UNCHANGED routerVars
  <2>1. UNCHANGED deployment /\ \A k \in Deployments : Deployed(k) => Deployed(k)'
    BY <1>5 DEF routerVars, Deployed
  <2> QED BY <1>0, <1>1, <1>2, <1>3, <2>1, InFlightRefines
<1>6. CASE d # NoDeployment /\ RouterRollback(d)
  <2> DEFINE r == Restored(deployment[d])
  <2>1. d \in Deployments
    BY <1>4, <1>6, BoundDeployed
  <2>2. RecordOK(deployment[d]) /\ Len(deployment[d].rollbackStack) > 0
        /\ deployment[d].active.generation + 1 \in Generations
    BY <1>0, <1>6, <2>1
       DEF RouterRollback, RouterRollbackOk, RollbackDepth, Active, OrchestratorInv, RouterInv
  <2>3. r \in DeploymentRecords
    BY <2>2, RestoredRecord DEF RecordOK
  <2>4. deployment' = [deployment EXCEPT ![d] = r]
    BY <1>0, <1>6, <2>1 DEF RouterRollback
  <2> HIDE DEF r
  <2>5. /\ \A k \in Deployments : k # d => deployment'[k] = deployment[k]
        /\ \A k \in Deployments : Deployed(k) => Deployed(k)'
    BY <1>0, <2>1, <2>3, <2>4, NoDeploymentAssumption DEF Deployed
  <2>6. \A k \in Deployments : k # bound[call[t].session] => deployment'[k] = deployment[k]
    BY <1>4, <2>5
  <2> HIDE DEF d, s
  <2> QED BY <1>0, <1>1, <1>2, <1>3, <2>5, <2>6, InFlightRefines DEF s
<1> QED BY <1>5, <1>6 DEF UndoRoute

\* The compensation of the ledger: the entry is not settled yet.
LEMMA UndoRecordRefines ==
    ASSUME CommitInv, OneOrchestrator, NEW t \in Threads, UndoRecord(t)
    PROVE  Refines
<1> DEFINE m == call[t].migration
<1>0. /\ OrchestratorInv /\ StepKeeps(t)
      /\ migration \in [Migrations -> MigrationRecords \cup {NoMigration}]
  BY UndoRecordKeeps DEF CommitInv, OrchestratorInv, MigrationInv, MigrationTypeOK
<1>1. InFlight(t)
  BY DEF UndoRecord, At, InFlight
<1>2. UNCHANGED <<session, deployment, bound, reported>>
  BY DEF UndoRecord, routerVars
<1>3. /\ InFlight(t)'
      /\ call'[t].session = call[t].session /\ call'[t].migration = m
  <2>1. CASE Goto(t, "verifyRuntime")
    BY <1>0, <1>1, <2>1, FlightGoesOn
  <2>2. CASE call' = [call EXCEPT ![t].at = "verifyRuntime", ![t].errors = TRUE]
    BY <1>0, <1>1, <2>2, FlightGoesOn
  <2> QED BY <2>1, <2>2 DEF UndoRecord
<1>4. m \in Migrations /\ migration[m] \in MigrationRecords
  BY <1>1, Flight
<1>5. /\ \A k \in Migrations : k # m => migration'[k] = migration[k]
      /\ \/ migration'[m] = migration[m]
         \/ migration[m].state # "ABORTED" /\ migration'[m].state # "ABORTED"
  <2>1. CASE UNCHANGED migration
    BY <2>1
  <2>2. CASE MigrationRollback(m)
    <3>1. /\ \A k \in Migrations : k # m => migration'[k] = migration[k]
          /\ migration'[m] = [migration[m] EXCEPT !.state = "ROLLED_BACK"]
          /\ migration[m].state = "COMMITTED"
      BY <1>0, <1>4, <2>2 DEF MigrationRollback, MigrationRollbackOk, InState
    <3> QED BY <1>4, <3>1 DEF MigrationRecords
  <2> QED BY <2>1, <2>2 DEF UndoRecord
<1>6. \A d \in Deployments : Deployed(d) => Deployed(d)'
  BY <1>2 DEF Deployed
<1> QED BY <1>0, <1>1, <1>2, <1>3, <1>5, <1>6, InFlightRefines

\* A lost session's commit ends: what its route is, is anybody's guess.
LEMMA LosesInPlace ==
    ASSUME CommitInv, UNCHANGED bound, NEW s \in Sessions, Started(s), CurrentOf(s)' = Split,
           \A q \in Sessions : q # s => CurrentOf(q)' = CurrentOf(q),
           \A d \in Deployments : d # bound[s] => RoutedOf(d)' = RoutedOf(d),
           \A d \in Deployments : RoutedOf(d)' = Routing(d),
           \/ LedgerView' = LedgerView
           \/ \E m \in Migrations, state \in {"committed", "rolledBack"} :
                  /\ Abstract!InLedger(m, "open") /\ LedgerView[m].session = s
                  /\ Abstract!Move(m, state)
    PROVE  Refines
<1>1. CASE bound[s] = NoDeployment
  <2>1. PICK candidate : candidate = session[s].active
    OBVIOUS
  <2>2. candidate \in Candidates
    BY <2>1, StartedRecord DEF CommitInv, OrchestratorInv, RuntimeInv, RecordInv, SessionRecords
  <2>3. \A d \in Deployments : RoutedOf(d)' = IF d = bound[s] THEN candidate ELSE RoutedOf(d)
    BY <1>1, BoundAssumption
  <2> QED BY <2>2, <2>3, Loses
<1>2. CASE bound[s] # NoDeployment
  <2>1. PICK d : d = bound[s]
    OBVIOUS
  <2>2. d \in Deployments /\ Deployed(d)
    BY <1>2, <2>1, BoundDeployed
  <2>3. PICK candidate : candidate = Routing(d)
    OBVIOUS
  <2>4. candidate \in Candidates
    <3>1. deployment[d] \in DeploymentRecords
      BY <2>2 DEF CommitInv, OrchestratorInv, RouterInv, RouterTypeOK, Deployed
    <3>2. deployment[d].active \in Versions
      BY <3>1 DEF DeploymentRecords
    <3> QED BY <2>2, <2>3, <3>2 DEF Versions, Routing, Active
  <2>5. \A k \in Deployments : RoutedOf(k)' = IF k = bound[s] THEN candidate ELSE RoutedOf(k)
    BY <2>1, <2>3
  <2> QED BY <2>4, <2>5, Loses
<1> QED BY <1>1, <1>2

\* The commit ends, the ledger counts what it recorded.
LEMMA CommitEndsRefines ==
    ASSUME CommitInv, OneOrchestrator, NEW t \in Threads, At(t, "commit", "record"),
           StepKeeps(t), Leave(t), Commit(call[t].migration),
           UNCHANGED <<session, routerVars, bound, reported>>
    PROVE  Refines
<1>0. /\ OrchestratorInv /\ MigrationInv /\ InFlight(t)
      /\ migration \in [Migrations -> MigrationRecords \cup {NoMigration}]
  BY DEF CommitInv, OrchestratorInv, MigrationInv, MigrationTypeOK, At, InFlight
<1>1. PICK s : s = call[t].session
  OBVIOUS
<1>2. PICK m : m = call[t].migration
  OBVIOUS
<1>3. /\ s \in Sessions /\ Started(s) /\ m \in Migrations /\ Planned(m)
      /\ migration[m] \in MigrationRecords /\ migration[m].session = s
      /\ FlightView(t) /\ CommitOK(call[t])
  BY <1>0, <1>1, <1>2, Flight
<1>4. UNCHANGED deployment
  BY DEF routerVars
<1>5. call'[t] = NoCall
  BY <1>0, LeaveEnds
<1>6. /\ RestingView'
      /\ \A q \in Sessions : Running(q)' = Running(q)
      /\ \A d \in Deployments : Routing(d)' = Routing(d)
      /\ \A k \in Migrations : k # m /\ migration'[k] = migration[k] => LedgerOf(k)' = LedgerOf(k)
  BY <1>0, <1>2, <1>4, <1>5, LeavesFlight
<1>7. PICK source, target : source = migration[m].from /\ target = migration[m].to
  OBVIOUS
<1>8. /\ session[s].active = target
      /\ bound[s] # NoDeployment => Active(bound[s]).candidate = target
  BY <1>1, <1>2, <1>3, <1>7 DEF CommitOK, At
<1>9. /\ \A k \in Migrations : k # m => migration'[k] = migration[k]
      /\ migration'[m] = [migration[m] EXCEPT !.state = "COMMITTED"]
      /\ migration[m].state = "VERIFIED"
  BY <1>0, <1>2, <1>3 DEF Commit, CommitOk, InState
<1>10. Abstract!InLedger(m, "open") /\ Abstract!Move(m, "committed")
  <2>1. Planned(m)' /\ SameIdentity(migration[m], migration'[m])
    BY <1>0, <1>3, PlannedStays DEF StepKeeps, ControllersStep
  <2>2. migration'[m].state = "COMMITTED"
    BY <1>3, <1>9 DEF MigrationRecords
  <2>3. ~Committing(m)'
    BY <1>3, <1>6 DEF RestingView
  <2>4. StateInLedger(migration'[m].state, Committing(m)') = "committed"
    BY <2>2, <2>3 DEF StateInLedger
  <2>5. StateInLedger(migration[m].state, Committing(m)) = "open"
    BY <1>9 DEF StateInLedger
  <2>6. \A k \in Migrations : k # m => LedgerOf(k)' = LedgerOf(k)
    BY <1>6, <1>9
  <2> QED BY <1>0, <1>3, <2>1, <2>4, <2>5, <2>6, MovesInLedger
<1>11. /\ LedgerView[m].session = s /\ LedgerView[m].from = source /\ LedgerView[m].to = target
  BY <1>0, <1>3, <1>7, EntryTyped DEF LedgerView
<1>12. /\ \A q \in Sessions :
              CurrentOf(q) = IF reported[q] THEN Split ELSE IF q = s THEN source ELSE Running(q)
       /\ \A d \in Deployments :
              RoutedOf(d) = IF bound[s] = d /\ ~reported[s] THEN source ELSE Routing(d)
  BY <1>1, <1>2, <1>3, <1>7 DEF FlightView, From
<1>13. /\ \A q \in Sessions : CurrentOf(q)' = IF reported[q] THEN Split ELSE Running(q)
       /\ \A d \in Deployments : RoutedOf(d)' = Routing(d)
  BY <1>6 DEF RestingView
<1>14. CASE reported[s]
  <2>1. CurrentOf(s)' = Split /\ \A q \in Sessions : q # s => CurrentOf(q)' = CurrentOf(q)
    BY <1>3, <1>12, <1>13, <1>14
  <2>2. \A d \in Deployments : RoutedOf(d)' = RoutedOf(d)
    BY <1>12, <1>13, <1>14
  <2> QED BY <1>3, <1>10, <1>11, <1>13, <2>1, <2>2, LosesInPlace
<1>15. CASE ~reported[s]
  <2>1. Running(s) = target
    BY <1>3, <1>8 DEF Running
  <2>2. CurrentView[s] = source /\ CurrentView' = [CurrentView EXCEPT ![s] = target]
    BY <1>3, <1>12, <1>13, <1>15, <2>1 DEF CurrentView
  <2>3. CASE bound[s] = NoDeployment
    <3>1. RoutedView' = RoutedView
      BY <1>12, <1>13, <2>3, BoundAssumption DEF RoutedView
    <3>2. Abstract!Switch(m)
      BY <1>10, <1>11, <2>2, <2>3, <3>1 DEF Abstract!Switch
    <3> QED BY <1>3, <3>2 DEF Refines, Abstract!Next
  <2>4. CASE bound[s] # NoDeployment
    <3>1. PICK d : d = bound[s]
      OBVIOUS
    <3>2. d \in Deployments /\ Deployed(d)
      BY <1>3, <2>4, <3>1, BoundDeployed
    <3>3. Routing(d) = target
      BY <1>8, <2>4, <3>1, <3>2 DEF Routing
    <3>4. RoutedView[d] = source /\ RoutedView' = [RoutedView EXCEPT ![d] = target]
      BY <1>12, <1>13, <1>15, <3>1, <3>2, <3>3 DEF RoutedView
    <3>5. Abstract!Switch(m)
      BY <1>10, <1>11, <2>2, <2>4, <3>1, <3>4 DEF Abstract!Switch
    <3> QED BY <1>3, <3>5 DEF Refines, Abstract!Next
  <2> QED BY <2>3, <2>4
<1> QED BY <1>14, <1>15

LEMMA CommitRecordRefines ==
    ASSUME CommitInv, OneOrchestrator, NEW t \in Threads, CommitRecord(t)
    PROVE  Refines
<1> DEFINE m == call[t].migration
<1>0. /\ OrchestratorInv /\ StepKeeps(t) /\ InFlight(t)
      /\ migration \in [Migrations -> MigrationRecords \cup {NoMigration}]
  BY CommitRecordKeeps
     DEF CommitInv, OrchestratorInv, MigrationInv, MigrationTypeOK, CommitRecord, At, InFlight
<1>1. At(t, "commit", "record") /\ UNCHANGED <<session, routerVars, bound, reported>>
  BY DEF CommitRecord
<1>2. CASE Commit(m) /\ Leave(t)
  BY <1>0, <1>1, <1>2, CommitEndsRefines
<1>3. CASE Goto(t, "undoRoute") /\ (Commit(m) \/ UNCHANGED migration)
  <2>1. /\ InFlight(t)'
        /\ call'[t].session = call[t].session /\ call'[t].migration = m
    BY <1>0, <1>3, FlightGoesOn
  <2>2. m \in Migrations /\ migration[m] \in MigrationRecords
    BY <1>0, Flight
  <2>3. /\ \A k \in Migrations : k # m => migration'[k] = migration[k]
        /\ \/ migration'[m] = migration[m]
           \/ migration[m].state # "ABORTED" /\ migration'[m].state # "ABORTED"
    <3>1. CASE UNCHANGED migration
      BY <3>1
    <3>2. CASE Commit(m)
      <4>1. /\ \A k \in Migrations : k # m => migration'[k] = migration[k]
            /\ migration'[m] = [migration[m] EXCEPT !.state = "COMMITTED"]
            /\ migration[m].state = "VERIFIED"
        BY <1>0, <2>2, <3>2 DEF Commit, CommitOk, InState
      <4> QED BY <2>2, <4>1 DEF MigrationRecords
    <3> QED BY <1>3, <3>1, <3>2
  <2>4. UNCHANGED deployment /\ \A d \in Deployments : Deployed(d) => Deployed(d)'
    BY <1>1 DEF routerVars, Deployed
  <2> QED BY <1>0, <1>1, <2>1, <2>3, <2>4, InFlightRefines
<1> QED BY <1>2, <1>3 DEF CommitRecord

\* The compensated commit ends: the source was restored, or a caller was told.
LEMMA VerifyRouteRefines ==
    ASSUME CommitInv, OneOrchestrator, NEW t \in Threads, VerifyRoute(t)
    PROVE  Refines
<1>0. /\ OrchestratorInv /\ MigrationInv /\ StepKeeps(t) /\ InFlight(t)
      /\ reported \in [Sessions -> BOOLEAN]
  BY VerifyRouteKeeps
     DEF CommitInv, OrchestratorInv, OwnTypeOK, VerifyRoute, At, InFlight
<1>1. PICK s : s = call[t].session
  OBVIOUS
<1>2. PICK m : m = call[t].migration
  OBVIOUS
<1>3. /\ s \in Sessions /\ Started(s) /\ m \in Migrations /\ Planned(m)
      /\ migration[m] \in MigrationRecords /\ migration[m].session = s
      /\ FlightView(t) /\ CommitOK(call[t])
  BY <1>0, <1>1, <1>2, Flight
<1>4. UNCHANGED <<session, migration, deployment, bound>> /\ At(t, "commit", "verifyRoute")
  BY DEF VerifyRoute, controllers
<1>5. call'[t] = NoCall
  BY <1>0, LeaveEnds DEF VerifyRoute
<1>6. /\ RestingView'
      /\ \A q \in Sessions : Running(q)' = Running(q)
      /\ \A d \in Deployments : Routing(d)' = Routing(d)
      /\ \A k \in Migrations : k # m => LedgerOf(k)' = LedgerOf(k)
  BY <1>0, <1>2, <1>4, <1>5, LeavesFlight
<1>7. PICK source : source = From(t)
  OBVIOUS
<1>8. /\ \A q \in Sessions : q # s => reported'[q] = reported[q]
      /\ reported'[s] = (reported[s] \/ call[t].errors \/ ~RouteRestored(t))
  BY <1>0, <1>1, <1>3 DEF VerifyRoute
<1>9. /\ \A q \in Sessions :
             CurrentOf(q) = IF reported[q] THEN Split ELSE IF q = s THEN source ELSE Running(q)
      /\ \A d \in Deployments :
             RoutedOf(d) = IF bound[s] = d /\ ~reported[s] THEN source ELSE Routing(d)
      /\ Committing(m)
  BY <1>1, <1>2, <1>3, <1>7 DEF FlightView
<1>10. /\ \A q \in Sessions : CurrentOf(q)' = IF reported'[q] THEN Split ELSE Running(q)
       /\ \A d \in Deployments : RoutedOf(d)' = Routing(d)
       /\ ~Committing(m)'
  BY <1>3, <1>6 DEF RestingView
<1>11. \A q \in Sessions : q # s => CurrentOf(q)' = CurrentOf(q)
  BY <1>8, <1>9, <1>10
<1>12. \A d \in Deployments : d # bound[s] => RoutedOf(d)' = RoutedOf(d)
  BY <1>9, <1>10
<1>13. LedgerView[m].session = s
  BY <1>0, <1>3, EntryTyped DEF LedgerView
<1>14. ASSUME NEW state, StateInLedger(migration[m].state, FALSE) = state,
              migration[m].state \in {"COMMITTED", "ROLLED_BACK"}
       PROVE  Abstract!InLedger(m, "open") /\ Abstract!Move(m, state)
  <2>1. Planned(m)' /\ SameIdentity(migration[m], migration'[m])
    BY <1>3, <1>4 DEF Planned, SameIdentity
  <2>2. StateInLedger(migration'[m].state, Committing(m)') = state
    <3>1. migration'[m].state = migration[m].state
      BY <1>4
    <3> QED BY <1>10, <1>14, <3>1 DEF StateInLedger
  <2>3. StateInLedger(migration[m].state, Committing(m)) = "open"
    BY <1>9, <1>14 DEF StateInLedger
  <2> QED BY <1>0, <1>3, <1>6, <2>1, <2>2, <2>3, MovesInLedger
<1>15. migration[m].state \notin {"COMMITTED", "ROLLED_BACK"} => LedgerOf(m)' = LedgerOf(m)
  <2> SUFFICES ASSUME migration[m].state \notin {"COMMITTED", "ROLLED_BACK"}
               PROVE  LedgerOf(m)' = LedgerOf(m)
    OBVIOUS
  <2>1. migration[m].state \in {"PLANNED", "SHADOW_BUILT", "VERIFIED", "ABORTED"}
    BY <1>3 DEF MigrationRecords, MigrationStates
  <2>2. migration'[m] = migration[m]
    BY <1>4
  <2>3. StateInLedger(migration'[m].state, Committing(m)') = StateInLedger(migration[m].state, Committing(m))
    BY <2>1, <2>2 DEF StateInLedger
  <2> QED BY <1>3, <2>2, <2>3 DEF LedgerOf, Planned
<1>16. CASE reported'[s]
  <2>1. CurrentOf(s)' = Split
    BY <1>3, <1>10, <1>16
  <2>2. \/ LedgerView' = LedgerView
        \/ \E k \in Migrations, state \in {"committed", "rolledBack"} :
               /\ Abstract!InLedger(k, "open") /\ LedgerView[k].session = s
               /\ Abstract!Move(k, state)
    <3>1. CASE migration[m].state = "COMMITTED"
      <4>1. StateInLedger(migration[m].state, FALSE) = "committed"
        BY <3>1 DEF StateInLedger
      <4> QED BY <1>3, <1>13, <1>14, <3>1, <4>1
    <3>2. CASE migration[m].state = "ROLLED_BACK"
      <4>1. StateInLedger(migration[m].state, FALSE) = "rolledBack"
        BY <3>2 DEF StateInLedger
      <4> QED BY <1>3, <1>13, <1>14, <3>2, <4>1
    <3>3. CASE migration[m].state \notin {"COMMITTED", "ROLLED_BACK"}
      BY <1>6, <1>15, <3>3 DEF LedgerView
    <3> QED BY <3>1, <3>2, <3>3
  <2> QED BY <1>3, <1>4, <1>10, <1>11, <1>12, <2>1, <2>2, LosesInPlace
<1>17. CASE ~reported'[s]
  <2>1. ~reported[s] /\ ~call[t].errors /\ RouteRestored(t)
    BY <1>0, <1>3, <1>8, <1>17
  <2>2. Together(s, source) /\ ~InState(m, "COMMITTED")
    BY <1>1, <1>2, <1>4, <1>7, <2>1, VerifiedRestored
  <2>3. \A q \in Sessions : CurrentOf(q)' = CurrentOf(q)
    <3>1. Running(s) = source
      BY <1>3, <2>2 DEF Together, Running
    <3> QED BY <1>3, <1>9, <1>10, <1>11, <1>17, <2>1, <3>1
  <2>4. \A d \in Deployments : RoutedOf(d)' = RoutedOf(d)
    <3>1. ASSUME NEW d \in Deployments, d = bound[s] PROVE Routing(d) = source
      <4>1. bound[s] # NoDeployment
        BY <3>1, BoundAssumption
      <4>2. Deployed(d)
        BY <1>3, <3>1, <4>1, BoundDeployed
      <4> QED BY <2>2, <3>1, <4>1, <4>2 DEF Together, Routing
    <3> QED BY <1>9, <1>10, <2>1, <3>1
  <2>5. CASE migration[m].state = "ROLLED_BACK"
    <3>1. StateInLedger(migration[m].state, FALSE) = "rolledBack"
      BY <2>5 DEF StateInLedger
    <3> QED BY <1>3, <1>4, <1>14, <2>3, <2>4, <2>5, <3>1, Closes
  <2>6. CASE migration[m].state # "ROLLED_BACK"
    <3>1. migration[m].state \notin {"COMMITTED", "ROLLED_BACK"}
      BY <1>3, <2>2, <2>6 DEF InState
    <3> QED BY <1>4, <1>6, <1>15, <2>3, <2>4, <3>1, ViewsUnchanged
  <2> QED BY <2>5, <2>6
<1> QED BY <1>16, <1>17

-----------------------------------------------------------------------------
(* Every step, and the initial states. *)

LEMMA CommitStepsRefine ==
    ASSUME CommitInv, OneOrchestrator, NEW t \in Threads,
           \/ CommitBegin(t) \/ CommitCheckRuntime(t) \/ CommitRoute(t)
           \/ CommitConfirm(t) \/ CommitRecord(t)
           \/ UndoRoute(t) \/ UndoRuntimeNeeded(t) \/ UndoRuntime(t)
           \/ UndoRecordNeeded(t) \/ UndoRecord(t) \/ VerifyRuntime(t) \/ VerifyRoute(t)
    PROVE  Refines
BY CommitBeginRefines, CommitCheckRuntimeRefines, CommitRouteRefines, SessionCallsRefine,
   CommitRecordRefines, UndoRouteRefines, NotesRefine, UndoRecordRefines, VerifyRouteRefines, Zenon

LEMMA StepRefines ==
    ASSUME CommitInv, OneOrchestrator, NEW t \in Threads, Step(t)
    PROVE  Refines
BY OnlyServed, PlanStageRefine, AbortStepsRefine, CommitStepsRefine, Zenon DEF Step

LEMMA NextRefines ==
    ASSUME OneOrchestrator, CommitInv, [OrchestratorNext]_orchestratorVars
    PROVE  Refines
<1>1. CASE UNCHANGED orchestratorVars
  <2>1. UNCHANGED controllers /\ UNCHANGED <<bound, reported, call>>
    BY <1>1 DEF orchestratorVars
  <2>2. ControllersStep
    BY <2>1, QuietControllers DEF CommitInv
  <2>3. Beside
    BY <2>1, <2>2, BesideDirect
  <2> QED BY <2>1, <2>3, IdleRefines DEF CommitInv
<1>2. CASE OrchestratorNext
  BY <1>2, RequestRefines, StepRefines, DirectRefines, Zenon DEF OrchestratorNext
<1> QED BY <1>1, <1>2

LEMMA InitRefines == BoundInit => Abstract!Init
<1> SUFFICES ASSUME BoundInit PROVE Abstract!Init
  OBVIOUS
<1>0. OrchestratorInv /\ CommitInv
  BY CommitInvInit DEF CommitInv
<1>1. RestingView
  <2>1. NobodyCommits
    BY DEF BoundInit, NobodyCommits, InFlight
  <2> QED BY <2>1, ViewsAreMapped DEF MappedViews
<1>2. /\ \A s \in Sessions : ~reported[s]
      /\ \A m \in Migrations : ~Planned(m)
  BY DEF BoundInit, MigrationInit, Planned
<1>3. \A s \in Sessions : CurrentOf(s) = Running(s)
  BY <1>1, <1>2 DEF RestingView
<1>4. \A d \in Deployments : RoutedOf(d) = Routing(d)
  BY <1>1 DEF RestingView
<1>5. \A s \in Sessions : Running(s) \in Candidates \cup {NoCandidate}
  <2>1. ASSUME NEW s \in Sessions, Started(s) PROVE session[s].active \in Candidates
    BY <1>0, <2>1, StartedRecord DEF OrchestratorInv, RuntimeInv, RecordInv, SessionRecords
  <2> QED BY <2>1 DEF Running
<1>6. \A d \in Deployments : Routing(d) \in Candidates \cup {NoCandidate}
  <2>1. ASSUME NEW d \in Deployments, Deployed(d) PROVE Active(d).candidate \in Candidates
    <3>1. deployment[d] \in DeploymentRecords
      BY <1>0, <2>1 DEF OrchestratorInv, RouterInv, RouterTypeOK, Deployed
    <3> QED BY <3>1 DEF DeploymentRecords, Versions, Active
  <2> QED BY <2>1 DEF Routing
<1>7. bound \in [Sessions -> Deployments \cup {NoDeployment}]
  BY <1>0 DEF OrchestratorInv, OwnTypeOK
<1>8. CurrentView \in [Sessions -> Candidates \cup {NoCandidate}]
  BY <1>3, <1>5 DEF CurrentView
<1>9. RoutedView \in [Deployments -> Candidates \cup {NoCandidate}]
  BY <1>4, <1>6 DEF RoutedView
<1>10. ASSUME NEW s \in Sessions, bound[s] # NoDeployment
       PROVE  RoutedView[bound[s]] = CurrentView[s] /\ CurrentView[s] # NoCandidate
  <2>1. bound[s] \in Deployments /\ Started(s) /\ Deployed(bound[s])
    BY <1>0, <1>10, BoundDeployed
  <2>2. Together(s, session[s].active)
    <3>1. Settled(s) /\ \A t \in Threads : ~InFlight(t)
      BY <1>0 DEF CommitInv, BoundInit, InFlight
    <3> QED BY <1>2, <2>1, <3>1 DEF Settled
  <2>3. Routing(bound[s]) = Running(s)
    BY <1>10, <2>1, <2>2 DEF Together, Routing, Running
  <2>4. Running(s) # NoCandidate
    BY <1>0, <2>1, StartedRecord, NoCandidateAssumption
       DEF OrchestratorInv, RuntimeInv, RecordInv, SessionRecords, Running
  <2> QED BY <1>3, <1>4, <2>1, <2>3, <2>4 DEF RoutedView, CurrentView
<1>11. LedgerView = [m \in Migrations |-> NoMigration]
  BY <1>2 DEF LedgerView, LedgerOf
<1> QED BY <1>7, <1>8, <1>9, <1>10, <1>11 DEF Abstract!Init

(***************************************************************************)
(* One orchestrator's commits implement AtomicAdaptation: however the      *)
(* lock-free endpoints interleave with them, and whatever controller call  *)
(* fails after it has changed something, to callers the ledger, the        *)
(* session and the route change in one step, or not at all, or a caller is *)
(* told that they may differ.                                              *)
(***************************************************************************)
THEOREM CommitsImplementAtomic ==
    ASSUME OneOrchestrator
    PROVE  BoundSpec => CommitsAreAtomic
<1>1. CommitInv /\ [OrchestratorNext]_orchestratorVars => [Abstract!Next]_(Abstract!vars)
  BY NextRefines DEF Refines
<1> QED BY <1>1, InitRefines, CommitInvariant, PTL
        DEF BoundSpec, CommitsAreAtomic, Abstract!Spec

-----------------------------------------------------------------------------
(* The rollback of one orchestrator.  The route goes back to the top of    *)
(* its stack and the session to its checkpoint: two histories, kept by two *)
(* controllers, of which the orchestrator checks only that both have an    *)
(* entry.  That the entries name the same candidate is an invariant of all *)
(* the commits, compensations and rollbacks before.                        *)

(***************************************************************************)
(* The instance: the v2 orchestrator alone, and no request that moves a    *)
(* session or a binding behind its back; rollbacks are allowed.            *)
(***************************************************************************)
OneOrchestratorWithRollback ==
    /\ Orchestrators \subseteq {"v2"}
    /\ Endpoints \cap {"bind", "runtime confirm", "runtime rollback"} = {}

\* The commits and rollbacks between their first check and their end.
InsideLock(c) == c.op \in {"commit", "rollback"} /\ c.at # "begin"

(***************************************************************************)
(* Of a session's record r and the record q of its deployment.  When the   *)
(* two agree, the version under the active one has the candidate of the    *)
(* checkpoint.  When they do not, they never agree again: a commit wants   *)
(* both on its source, a rollback both on its target.                      *)
(***************************************************************************)
Aligned(r, q) ==
    r.rollbackAvailable /\ q.active.candidate = r.active =>
        /\ Len(q.rollbackStack) > 0
        /\ q.rollbackStack[Len(q.rollbackStack)].candidate = r.previousCandidate

\* The route has been switched by a commit, and the session is still on the
\* source, or has followed: popping the route makes the two aligned again.
Switched(r, q, from, to) ==
    LET stack == q.rollbackStack
        depth == Len(stack) IN
    /\ q.active.candidate = to
    /\ from # to
    /\ depth > 0
    /\ stack[depth].candidate = from
    /\ r.rollbackAvailable /\ r.active = from =>
           depth > 1 /\ stack[depth - 1].candidate = r.previousCandidate

\* What the thread inside the lock knows at each place of its operation.
SwitchFacts(c, d, r, q, from, to) ==
    /\ c.at # "runtime" => c.deployment = d
    /\ c.at = "route" => d # NoDeployment
    /\ c.op = "commit" =>
           /\ c.at \in {"route", "confirm"} => r.active = from
           /\ c.at = "record" => r.active = to
           /\ c.at = "verifyRoute" /\ ~c.errors => r.active = from
           /\ c.at \in {"confirm", "record", "undoRoute"} /\ d # NoDeployment =>
                  Switched(r, q, from, to)
    /\ c.op = "rollback" =>
           /\ c.at = "route" => r.active = to /\ r.rollbackAvailable
           /\ c.at = "restore" /\ d # NoDeployment => q.active.candidate = r.previousCandidate
           /\ c.at = "record" /\ d # NoDeployment => q.active.candidate = r.active

SwitchOK(c) ==
    LET m == c.migration
        s == c.session IN
    /\ migration[m].session = s
    /\ c.op = "commit" /\ c.at \in {"verifyRuntime", "verifyRoute"} /\ ~c.errors =>
           ~InState(m, "COMMITTED")
    /\ SwitchFacts(c, bound[s], session[s], deployment[bound[s]],
                   migration[m].from, migration[m].to)

SwitchesOK ==
    \A t \in Threads : call[t] # NoCall /\ InsideLock(call[t]) =>
        lockHolder[call[t].orch] = t /\ SwitchOK(call[t])

BoundAligned(s) == bound[s] # NoDeployment => Aligned(session[s], deployment[bound[s]])

SwitchInv ==
    /\ OrchestratorInv
    /\ BindingsOK /\ CallsServed /\ SwitchesOK
    /\ \A s \in Sessions : BoundAligned(s)

-----------------------------------------------------------------------------
(* What the controllers' methods do to two aligned records. *)

LEMMA ActivatedSwitches ==
    ASSUME NEW r, NEW q, RecordOK(q), q.staged # NoVersion, r.active = q.active.candidate,
           Aligned(r, q)
    PROVE  /\ Switched(r, Activated(q), q.active.candidate, q.staged.candidate)
           /\ Aligned(r, Activated(q))
<1> DEFINE stack == q.rollbackStack
           p == Activated(q)
<1>1. q.active \in Versions /\ stack \in Seq(Versions) /\ q.staged.candidate # q.active.candidate
  BY DEF RecordOK, DeploymentRecords, SuccessorStaged
<1>2. p.active = q.staged /\ p.rollbackStack = Append(stack, q.active)
  BY DEF Activated
<1>3. /\ Len(stack) \in Nat
      /\ Len(p.rollbackStack) = Len(stack) + 1
      /\ p.rollbackStack[Len(stack) + 1] = q.active
      /\ \A i \in 1 .. Len(stack) : p.rollbackStack[i] = stack[i]
  BY <1>1, <1>2, AppendProperties, LenProperties
<1>4. r.rollbackAvailable => Len(stack) > 0 /\ stack[Len(stack)].candidate = r.previousCandidate
  BY DEF Aligned
<1>5. (Len(stack) + 1) - 1 = Len(stack) /\ (Len(stack) > 0 => Len(stack) \in 1 .. Len(stack))
  BY <1>3
<1>6. r.rollbackAvailable =>
         Len(stack) + 1 > 1 /\ p.rollbackStack[(Len(stack) + 1) - 1].candidate = r.previousCandidate
  BY <1>3, <1>4, <1>5
<1>7. Len(stack) + 1 > 0
  BY <1>3
<1> HIDE DEF p, stack
<1>8. Switched(r, p, q.active.candidate, q.staged.candidate)
  BY <1>1, <1>2, <1>3, <1>6, <1>7 DEF Switched
<1>9. Aligned(r, p)
  BY <1>1, <1>2 DEF Aligned
<1> QED BY <1>8, <1>9 DEF p

\* What a rollback of the route puts in place.
LEMMA RestoredFields ==
    ASSUME NEW q, RecordOK(q), Len(q.rollbackStack) > 0
    PROVE  LET depth == Len(q.rollbackStack) IN
           /\ depth \in Nat /\ depth \in 1 .. depth
           /\ Restored(q).active.candidate = q.rollbackStack[depth].candidate
           /\ Len(Restored(q).rollbackStack) = depth - 1
           /\ \A i \in 1 .. depth - 1 : Restored(q).rollbackStack[i] = q.rollbackStack[i]
<1> DEFINE stack == q.rollbackStack
           depth == Len(stack)
<1>1. stack \in Seq(Versions)
  BY DEF RecordOK, DeploymentRecords
<1>2. depth \in Nat /\ depth \in 1 .. depth /\ stack[depth] \in Versions
  BY <1>1, ElementOfSeq, LenProperties
<1>3. /\ Len(SubSeq(stack, 1, depth - 1)) = depth - 1
      /\ \A i \in 1 .. depth - 1 : SubSeq(stack, 1, depth - 1)[i] = stack[i]
  <2>1. depth - 1 \in Nat /\ depth - 1 <= Len(stack)
    BY <1>2
  <2> QED BY <1>1, <2>1, Prefix
<1>4. /\ Restored(q).active = [stack[depth] EXCEPT !.generation = q.active.generation + 1]
      /\ Restored(q).rollbackStack = SubSeq(stack, 1, depth - 1)
  BY DEF Restored
<1>5. Restored(q).active.candidate = stack[depth].candidate
  BY <1>2, <1>4 DEF Versions
<1> QED BY <1>2, <1>3, <1>4, <1>5

\* The compensation of a route that the commit has switched.
LEMMA RestoredAligns ==
    ASSUME NEW r, NEW q, RecordOK(q), NEW from, NEW to, Switched(r, q, from, to)
    PROVE  Aligned(r, Restored(q))
<1> DEFINE stack == q.rollbackStack
           depth == Len(stack)
           p == Restored(q)
<1>1. depth > 0 /\ stack[depth].candidate = from
  BY DEF Switched
<1>2. /\ depth \in Nat
      /\ p.active.candidate = from
      /\ Len(p.rollbackStack) = depth - 1
      /\ \A i \in 1 .. depth - 1 : p.rollbackStack[i] = stack[i]
  BY <1>1, RestoredFields
<1> HIDE DEF p
<1>3. ASSUME r.rollbackAvailable, p.active.candidate = r.active
      PROVE  /\ Len(p.rollbackStack) > 0
             /\ p.rollbackStack[Len(p.rollbackStack)].candidate = r.previousCandidate
  <2>1. depth > 1 /\ stack[depth - 1].candidate = r.previousCandidate
    BY <1>2, <1>3 DEF Switched
  <2>2. depth - 1 > 0 /\ depth - 1 \in 1 .. depth - 1
    BY <1>2, <2>1
  <2> QED BY <1>2, <2>1, <2>2
<1>4. Aligned(r, p)
  BY <1>3 DEF Aligned
<1> QED BY <1>4 DEF p

\* The route goes back first, to what the session's checkpoint names.
LEMMA RestoredIsCheckpoint ==
    ASSUME NEW r, NEW q, RecordOK(q), r.rollbackAvailable, q.active.candidate = r.active,
           Aligned(r, q)
    PROVE  /\ Restored(q).active.candidate = r.previousCandidate
           /\ Aligned(r, Restored(q))
<1> DEFINE stack == q.rollbackStack
           depth == Len(stack)
<1>1. depth > 0 /\ stack[depth].candidate = r.previousCandidate
  BY DEF Aligned
<1>2. stack[depth].candidate # q.active.candidate
  BY <1>1 DEF RecordOK, HistoryStacked, Precedes
<1>3. Restored(q).active.candidate = stack[depth].candidate
  BY <1>1, RestoredFields
<1>4. Restored(q).active.candidate # r.active
  BY <1>2, <1>3
<1> QED BY <1>1, <1>3, <1>4 DEF Aligned

\* The session follows the route.
LEMMA ConfirmedAligns ==
    ASSUME NEW r \in SessionRecords, NEW q, NEW from, NEW to, r.active = from,
           r.pendingCandidate = to
    PROVE  /\ Confirmed(r).active = to
           /\ Switched(r, q, from, to) =>
                  Switched(Confirmed(r), q, from, to) /\ Aligned(Confirmed(r), q)
<1>1. Confirmed(r).active = to /\ Confirmed(r).previousCandidate = from
  BY DEF Confirmed, SessionRecords
<1> DEFINE p == Confirmed(r)
<1> HIDE DEF p
<1>2. p.active = to /\ p.previousCandidate = from
  BY <1>1 DEF p
<1>3. Switched(r, q, from, to) => Switched(p, q, from, to) /\ Aligned(p, q)
  BY <1>2 DEF Switched, Aligned
<1> QED BY <1>2, <1>3 DEF p

\* The session goes back to its checkpoint, and has none then.
LEMMA RolledBackAligns ==
    ASSUME NEW r \in SessionRecords, NEW q
    PROVE  RolledBack(r).active = r.previousCandidate /\ Aligned(RolledBack(r), q)
<1>1. RolledBack(r).active = r.previousCandidate /\ RolledBack(r).rollbackAvailable = FALSE
  BY DEF RolledBack, SessionRecords
<1> QED BY <1>1 DEF Aligned

-----------------------------------------------------------------------------
(* Steps that leave both histories alone. *)

SameSwitch(r, p) ==
    /\ p.active = r.active
    /\ p.previousCandidate = r.previousCandidate
    /\ p.rollbackAvailable = r.rollbackAvailable

SameHistory(q, p) == p.active = q.active /\ p.rollbackStack = q.rollbackStack

SessionsHeld ==
    \A s \in Sessions : Started(s) => Started(s)' /\ SameSwitch(session[s], session'[s])

RoutesHeld ==
    \A d \in Deployments : Deployed(d) => Deployed(d)' /\ SameHistory(deployment[d], deployment'[d])

Held == SessionsHeld /\ RoutesHeld /\ NoNewCommit /\ UNCHANGED bound

LEMMA UnchangedHeld ==
    /\ UNCHANGED session => SessionsHeld
    /\ UNCHANGED routerVars => RoutesHeld
    /\ UNCHANGED controllers => SessionsHeld /\ RoutesHeld
BY DEF SessionsHeld, RoutesHeld, Started, Deployed, SameSwitch, SameHistory, routerVars, controllers

\* start, observe and abort_pending.
LEMMA SessionReplacedHeld ==
    ASSUME RuntimeInv, NEW s \in Sessions, NEW r \in SessionRecords,
           session' = [session EXCEPT ![s] = r], Started(s) => SameSwitch(session[s], r)
    PROVE  SessionsHeld
<1>1. \A u \in Sessions : session'[u] = IF u = s THEN r ELSE session[u]
  BY DEF RuntimeInv, RuntimeTypeOK
<1>2. \A u \in Sessions : SameSwitch(session[u], session[u])
  BY DEF SameSwitch
<1> QED BY <1>1, <1>2, NoSessionAssumption DEF SessionsHeld, Started

LEMMA StartHeld ==
    ASSUME RuntimeInv, NEW s \in Sessions, NEW candidate \in Candidates,
           NEW baseline \in Snapshots, NEW cooldown \in Cooldowns,
           Start(s, candidate, baseline, cooldown)
    PROVE  SessionsHeld
<1>1. NewSession(candidate, baseline, cooldown) \in SessionRecords
  BY NewSessionInv DEF RecordInv
<1> QED BY <1>1, SessionReplacedHeld DEF Start

LEMMA ObserveHeld ==
    ASSUME RuntimeInv, NEW s \in Sessions, NEW snapshot \in Snapshots,
           NEW alternative \in Candidates, NEW pays \in BOOLEAN,
           Observe(s, snapshot, alternative, pays)
    PROVE  SessionsHeld
<1> DEFINE r == Observed(session[s], snapshot, alternative, pays)
<1>1. RecordInv(session[s]) /\ session[s] \in SessionRecords
  BY StartedRecord DEF Observe, RecordInv
<1>2. r \in SessionRecords
  BY <1>1, ObservedInv DEF Observe, RecordInv
<1>3. SameSwitch(session[s], r)
  BY <1>1 DEF Observed, SessionRecords, SameSwitch
<1>4. session' = [session EXCEPT ![s] = r]
  BY DEF Observe, RuntimeInv, RuntimeTypeOK
<1> HIDE DEF r
<1> QED BY <1>2, <1>3, <1>4, SessionReplacedHeld

LEMMA AbortPendingHeld ==
    ASSUME RuntimeInv, NEW s \in Sessions, AbortPending(s)
    PROVE  SessionsHeld
<1> DEFINE r == [session[s] EXCEPT !.pendingCandidate = NoCandidate, !.pendingSnapshot = NoSnapshot]
<1>1. RecordInv(session[s]) /\ session[s] \in SessionRecords
  BY StartedRecord DEF AbortPending, RecordInv
<1>2. r \in SessionRecords
  BY <1>1, AbortedInv DEF RecordInv
<1>3. SameSwitch(session[s], r)
  BY <1>1 DEF SessionRecords, SameSwitch
<1>4. session' = [session EXCEPT ![s] = r]
  BY DEF AbortPending, RuntimeInv, RuntimeTypeOK
<1> HIDE DEF r
<1> QED BY <1>2, <1>3, <1>4, SessionReplacedHeld

\* bootstrap, stage and abort_staged.
LEMMA DeploymentReplacedHeld ==
    ASSUME RouterInv, NEW d \in Deployments, NEW q \in DeploymentRecords,
           deployment' = [deployment EXCEPT ![d] = q], Deployed(d) => SameHistory(deployment[d], q)
    PROVE  RoutesHeld
<1>1. \A k \in Deployments : deployment'[k] = IF k = d THEN q ELSE deployment[k]
  BY DEF RouterInv, RouterTypeOK
<1>2. \A k \in Deployments : SameHistory(deployment[k], deployment[k])
  BY DEF SameHistory
<1> QED BY <1>1, <1>2, NoDeploymentAssumption DEF RoutesHeld, Deployed

LEMMA BootstrapHeld ==
    ASSUME RouterInv, NEW d \in Deployments, NEW candidate \in Candidates,
           NEW artifact \in Artifacts, NEW manifest \in Manifests \cup {NoManifest},
           Bootstrap(d, candidate, artifact, manifest, NoMigration)
    PROVE  RoutesHeld
<1> DEFINE v == [ generation |-> 1, candidate |-> candidate, artifact |-> artifact,
                  manifest |-> manifest, origin |-> NoMigration ]
           q == [active |-> v, staged |-> NoVersion, rollbackStack |-> <<>>]
<1>1. v \in Versions
  BY GenerationsAssumption, OrchestratorsAssumption DEF Versions
<1>2. q \in DeploymentRecords
  BY <1>1, BootstrapRecord DEF RecordOK
<1>3. deployment' = [deployment EXCEPT ![d] = q] /\ ~Deployed(d)
  BY DEF Bootstrap
<1> HIDE DEF q
<1> QED BY <1>2, <1>3, DeploymentReplacedHeld

LEMMA StagedHeld ==
    ASSUME RouterInv, NEW d \in Deployments, Deployed(d), NEW v \in Versions \cup {NoVersion},
           deployment' = [deployment EXCEPT ![d].staged = v]
    PROVE  RoutesHeld
<1> DEFINE q == [deployment[d] EXCEPT !.staged = v]
<1>1. deployment[d] \in DeploymentRecords
  BY DEF RouterInv, RecordOK
<1>2. q \in DeploymentRecords /\ SameHistory(deployment[d], q)
  BY <1>1 DEF DeploymentRecords, SameHistory
<1>3. deployment' = [deployment EXCEPT ![d] = q]
  BY DEF RouterInv, RouterTypeOK
<1> HIDE DEF q
<1> QED BY <1>2, <1>3, DeploymentReplacedHeld

LEMMA StageHeld ==
    ASSUME RouterInv, NEW d \in Deployments, NEW candidate \in Candidates,
           NEW artifact \in Artifacts, NEW manifest \in Manifests, NEW origin \in Origins,
           Stage(d, candidate, artifact, manifest, origin)
    PROVE  RoutesHeld
<1> DEFINE v == [ generation |-> Active(d).generation + 1, candidate |-> candidate,
                  artifact |-> artifact, manifest |-> manifest, origin |-> origin ]
<1>1. v \in Versions
  BY DEF Stage, Versions
<1>2. deployment' = [deployment EXCEPT ![d].staged = v] /\ Deployed(d)
  BY DEF Stage, StageOk
<1> HIDE DEF v
<1> QED BY <1>1, <1>2, StagedHeld

LEMMA AbortStagedHeld ==
    ASSUME RouterInv, NEW d \in Deployments, AbortStaged(d)
    PROVE  RoutesHeld
BY StagedHeld DEF AbortStaged, AbortStagedOk

-----------------------------------------------------------------------------
(* What such a step preserves. *)

LEMMA BindingKept ==
    ASSUME SwitchInv, NEW s \in Sessions, bound[s] # NoDeployment
    PROVE  bound[s] \in Deployments /\ Started(s) /\ Deployed(bound[s])
BY DEF SwitchInv, OrchestratorInv, OwnTypeOK, BindingsOK

LEMMA BindingsKept ==
    ASSUME SwitchInv, UNCHANGED bound,
           \A s \in Sessions : Started(s) => Started(s)',
           \A d \in Deployments : Deployed(d) => Deployed(d)'
    PROVE  BindingsOK'
<1>1. ASSUME NEW s \in Sessions, bound'[s] # NoDeployment
      PROVE  Started(s)' /\ Deployed(bound[s])'
  <2>1. PICK d : d = bound[s]
    OBVIOUS
  <2>2. d \in Deployments /\ Deployed(d) /\ Started(s)
    BY <1>1, <2>1, BindingKept
  <2>3. Deployed(d)' /\ Started(s)'
    BY <2>2
  <2> QED BY <2>1, <2>3 DEF Deployed
<1>2. \A s, q \in Sessions : bound'[s] # NoDeployment /\ bound'[s] = bound'[q] => s = q
  BY DEF SwitchInv, BindingsOK
<1> QED BY <1>1, <1>2 DEF BindingsOK

\* The two records of a bound session, before and after.
LEMMA RecordsHeld ==
    ASSUME SwitchInv, Held, NEW s \in Sessions
    PROVE  /\ bound'[s] = bound[s]
           /\ Started(s) => SameSwitch(session[s], session'[s])
           /\ bound[s] # NoDeployment =>
                  SameHistory(deployment[bound[s]], deployment'[bound[s]])
BY BindingKept DEF Held, SessionsHeld, RoutesHeld

LEMMA SwitchStaysOK ==
    ASSUME SwitchInv, Held, [MigrationNext]_migrationVars,
           NEW c, CallOK(c), c.op \in {"commit", "rollback"}, SwitchOK(c)
    PROVE  SwitchOK(c)'
<1> DEFINE m == c.migration
           s == c.session
<1>1. m \in Migrations /\ Planned(m) /\ s \in Sessions /\ Started(s)
  BY DEF CallOK, Calls
<1>2. /\ migration'[m].session = migration[m].session
      /\ migration'[m].from = migration[m].from
      /\ migration'[m].to = migration[m].to
  BY <1>1, PlannedStays DEF SwitchInv, OrchestratorInv, SameIdentity
<1>3. /\ bound'[s] = bound[s]
      /\ SameSwitch(session[s], session'[s])
      /\ bound[s] # NoDeployment => SameHistory(deployment[bound[s]], deployment'[bound[s]])
  BY <1>1, RecordsHeld
<1>4. PICK d, r, q, p, o, from, to :
         /\ d = bound[s] /\ r = session[s] /\ q = deployment[bound[s]]
         /\ p = session'[s] /\ o = deployment'[bound[s]]
         /\ from = migration[m].from /\ to = migration[m].to
  OBVIOUS
<1>5. /\ SwitchFacts(c, d, r, q, from, to)
      /\ SameSwitch(r, p)
      /\ d # NoDeployment => SameHistory(q, o)
  BY <1>3, <1>4 DEF SwitchOK
<1>6. SwitchFacts(c, d, p, o, from, to)
  BY <1>5 DEF SwitchFacts, SameSwitch, SameHistory, Switched
<1>7. InState(m, "COMMITTED")' => InState(m, "COMMITTED")
  BY <1>1 DEF Held, NoNewCommit
<1> QED BY <1>2, <1>3, <1>4, <1>6, <1>7 DEF SwitchOK

LEMMA AlignedStays ==
    ASSUME SwitchInv, Held, NEW s \in Sessions
    PROVE  BoundAligned(s)'
<1>1. CASE bound[s] = NoDeployment
  BY <1>1, RecordsHeld DEF BoundAligned
<1>2. CASE bound[s] # NoDeployment
  <2>1. /\ bound'[s] = bound[s] /\ Aligned(session[s], deployment[bound[s]])
        /\ SameSwitch(session[s], session'[s])
        /\ SameHistory(deployment[bound[s]], deployment'[bound[s]])
    BY <1>2, RecordsHeld, BindingKept DEF SwitchInv, BoundAligned
  <2>2. \A r, q, p, o : Aligned(r, q) /\ SameSwitch(r, p) /\ SameHistory(q, o) => Aligned(p, o)
    BY DEF Aligned, SameSwitch, SameHistory
  <2> QED BY <2>1, <2>2 DEF BoundAligned
<1> QED BY <1>1, <1>2

\* What the calls may be after such a step.
LEMMA HeldInv ==
    ASSUME SwitchInv, OrchestratorInv', [MigrationNext]_migrationVars, Held,
           \A u \in Threads : call'[u] # NoCall =>
               /\ CallOK(call'[u])
               /\ call'[u].op \in Endpoints
               /\ InsideLock(call'[u]) => lockHolder'[call'[u].orch] = u /\ SwitchOK(call'[u])
    PROVE  SwitchInv'
<1>1. BindingsOK'
  BY BindingsKept DEF Held, SessionsHeld, RoutesHeld
<1>2. CallsServed'
  BY DEF CallsServed
<1>3. ASSUME NEW u \in Threads, call'[u] # NoCall, InsideLock(call'[u])
      PROVE  lockHolder'[call'[u].orch] = u /\ SwitchOK(call[u])'
  <2>1. PICK c : c = call'[u]
    OBVIOUS
  <2>2. /\ CallOK(c) /\ c.op \in {"commit", "rollback"} /\ SwitchOK(c)
        /\ lockHolder'[call'[u].orch] = u
    BY <1>3, <2>1 DEF InsideLock
  <2>3. SwitchOK(c)'
    BY <2>2, SwitchStaysOK
  <2> QED BY <2>1, <2>2, <2>3 DEF SwitchOK
<1>4. SwitchesOK'
  BY <1>3 DEF SwitchesOK, InsideLock
<1>5. \A s \in Sessions : BoundAligned(s)'
  BY AlignedStays
<1> QED BY <1>1, <1>2, <1>4, <1>5 DEF SwitchInv

LEMMA ThreadHeldInv ==
    ASSUME SwitchInv, NEW t \in Threads, StepKeeps(t), Held, OthersKeepLocks(t),
           call'[t] # NoCall =>
               /\ call'[t].op \in Endpoints
               /\ InsideLock(call'[t]) => lockHolder'[call'[t].orch] = t /\ SwitchOK(call'[t])
    PROVE  SwitchInv'
<1>1. OrchestratorInv /\ OrchestratorInv' /\ [MigrationNext]_migrationVars
  BY KeepsInv DEF SwitchInv, StepKeeps, ControllersStep
<1>2. ASSUME NEW u \in Threads, u # t, call'[u] # NoCall
      PROVE  /\ CallOK(call'[u])
             /\ call'[u].op \in Endpoints
             /\ InsideLock(call'[u]) => lockHolder'[call'[u].orch] = u /\ SwitchOK(call'[u])
  <2>1. call'[u] = call[u]
    BY <1>2 DEF StepKeeps, Goes
  <2>2. CallOK(call[u]) /\ call[u].op \in Endpoints
    BY <1>1, <1>2, <2>1 DEF SwitchInv, OrchestratorInv, CallsOK, CallsServed
  <2>3. ASSUME InsideLock(call[u])
        PROVE  lockHolder'[call[u].orch] = u /\ SwitchOK(call[u])
    <3>1. lockHolder[call[u].orch] = u /\ SwitchOK(call[u]) /\ call[u].orch \in Orchestrators
      BY <1>2, <2>1, <2>2, <2>3 DEF SwitchInv, SwitchesOK, CallOK, Calls
    <3> QED BY <1>2, <3>1 DEF OthersKeepLocks
  <2> QED BY <2>1, <2>2, <2>3
<1>3. call'[t] # NoCall => CallOK(call'[t])
  BY DEF StepKeeps, Goes
<1>4. ASSUME NEW u \in Threads, call'[u] # NoCall
      PROVE  /\ CallOK(call'[u])
             /\ call'[u].op \in Endpoints
             /\ InsideLock(call'[u]) => lockHolder'[call'[u].orch] = u /\ SwitchOK(call'[u])
  BY <1>2, <1>3, <1>4
<1> QED BY <1>1, <1>4, HeldInv

\* A call to plan, stage or abort is never inside the lock between steps.
LEMMA OutsideHeldInv ==
    ASSUME SwitchInv, NEW t \in Threads, StepKeeps(t), Held,
           UNCHANGED lockHolder \/ Leave(t),
           call[t] # NoCall, call[t].op \in {"plan", "stage", "abort"},
           call'[t] # NoCall => call'[t].op = call[t].op
    PROVE  SwitchInv'
<1>1. OthersKeepLocks(t)
  BY KeepLocks DEF SwitchInv
<1>2. call'[t] # NoCall => call'[t].op \in Endpoints /\ ~InsideLock(call'[t])
  BY DEF SwitchInv, CallsServed, InsideLock
<1> QED BY <1>1, <1>2, ThreadHeldInv

LEMMA LeaveHeldInv ==
    ASSUME SwitchInv, NEW t \in Threads, StepKeeps(t), Held, Leave(t)
    PROVE  SwitchInv'
<1>1. OthersKeepLocks(t) /\ call'[t] = NoCall
  BY KeepLocks, LeaveEnds DEF SwitchInv
<1> QED BY <1>1, ThreadHeldInv

-----------------------------------------------------------------------------
(* The thread inside the lock. *)

\* What it knows, and the facts of its call that never change.
LEMMA Inside ==
    ASSUME SwitchInv, OneOrchestratorWithRollback, NEW t \in Threads,
           NEW op \in {"commit", "rollback"}, NEW label, At(t, op, label), label # "begin"
    PROVE  /\ call[t] # NoCall /\ call[t] \in Calls /\ CallOK(call[t])
           /\ call[t].op = op /\ call[t].at = label
           /\ InsideLock(call[t]) /\ lockHolder[call[t].orch] = t /\ SwitchOK(call[t])
           /\ call[t].orch \in Orchestrators
           /\ DeploymentFor(t) = bound[call[t].session]
           /\ call[t].session \in Sessions /\ Started(call[t].session)
           /\ session[call[t].session] \in SessionRecords
           /\ RecordInv(session[call[t].session])
           /\ call[t].migration \in Migrations
           /\ call[t].deployment \in Deployments \cup {NoDeployment}
           /\ op \in Endpoints
<1>1. OrchestratorInv
  BY DEF SwitchInv
<1>2. /\ call[t] # NoCall /\ call[t] \in Calls /\ CallOK(call[t])
      /\ call[t].op = op /\ call[t].at = label
      /\ call[t].session \in Sessions /\ call[t].orch \in Orchestrators
      /\ call[t].deployment \in Deployments \cup {NoDeployment}
      /\ Started(call[t].session) /\ session[call[t].session] \in SessionRecords
  BY <1>1, Caller
<1>3. InsideLock(call[t]) /\ lockHolder[call[t].orch] = t /\ SwitchOK(call[t])
  BY <1>2 DEF InsideLock, SwitchInv, SwitchesOK
<1>4. DeploymentFor(t) = bound[call[t].session]
  BY <1>2 DEF OneOrchestratorWithRollback, DeploymentFor
<1>5. op \in Endpoints
  BY <1>2 DEF SwitchInv, CallsServed
<1>6. RecordInv(session[call[t].session])
  BY <1>1, <1>2, StartedRecord DEF OrchestratorInv
<1> QED BY <1>1, <1>2, <1>3, <1>4, <1>5, <1>6, CallersMigration

\* Of the threads inside an operation one has the lock.
LEMMA OneInside ==
    ASSUME SwitchInv, OneOrchestratorWithRollback, NEW t \in Threads, NEW u \in Threads,
           call[t] # NoCall, InsideLock(call[t]), call[u] # NoCall, InsideLock(call[u])
    PROVE  u = t
<1>1. call[t].orch = "v2" /\ call[u].orch = "v2"
  BY DEF SwitchInv, OrchestratorInv, CallsOK, CallOK, Calls, OneOrchestratorWithRollback
<1> QED BY <1>1 DEF SwitchInv, SwitchesOK

\* It changes its own session and route, and nobody else's.
LEMMA MoverInv ==
    ASSUME SwitchInv, OneOrchestratorWithRollback, NEW t \in Threads, StepKeeps(t),
           call[t] # NoCall, InsideLock(call[t]), UNCHANGED bound,
           \A s \in Sessions : Started(s) => Started(s)',
           \A d \in Deployments : Deployed(d) => Deployed(d)',
           \A s \in Sessions : s # call[t].session =>
               /\ session'[s] = session[s]
               /\ bound[s] # NoDeployment => deployment'[bound[s]] = deployment[bound[s]],
           call'[t] # NoCall =>
               /\ call'[t].op = call[t].op
               /\ lockHolder'[call'[t].orch] = t /\ SwitchOK(call[t])',
           \A s \in Sessions : s = call[t].session => BoundAligned(s)'
    PROVE  SwitchInv'
<1>1. OrchestratorInv'
  BY KeepsInv DEF SwitchInv
<1>2. BindingsOK'
  BY BindingsKept
<1>3. \A u \in Threads : u # t => call'[u] = call[u]
  BY DEF StepKeeps, Goes
<1>4. CallsServed'
  BY <1>3 DEF SwitchInv, CallsServed
<1>5. ASSUME NEW u \in Threads, call'[u] # NoCall, InsideLock(call'[u])
      PROVE  lockHolder'[call'[u].orch] = u /\ SwitchOK(call[u])'
  <2>1. u = t
    BY <1>3, <1>5, OneInside
  <2> QED BY <1>5, <2>1
<1>6. SwitchesOK'
  BY <1>5 DEF SwitchesOK, InsideLock
<1>7. ASSUME NEW s \in Sessions PROVE BoundAligned(s)'
  <2>1. CASE s = call[t].session
    BY <2>1
  <2>2. CASE s # call[t].session
    BY <2>2 DEF SwitchInv, BoundAligned
  <2> QED BY <2>1, <2>2
<1> QED BY <1>1, <1>2, <1>4, <1>6, <1>7 DEF SwitchInv

\* It replaces the record of its session.
LEMMA SessionMoves ==
    ASSUME SwitchInv, OneOrchestratorWithRollback, NEW t \in Threads, StepKeeps(t),
           NEW op \in {"commit", "rollback"}, NEW label, At(t, op, label), label # "begin",
           UNCHANGED <<migration, routerVars, bound, lockHolder>>,
           NEW place, Goto(t, place), place \notin {"verifyRuntime", "verifyRoute"}, NEW r \in SessionRecords,
           session' = [session EXCEPT ![call[t].session] = r],
           SwitchFacts(call'[t], bound[call[t].session], r, deployment[bound[call[t].session]],
                       From(t), To(t)),
           bound[call[t].session] # NoDeployment =>
               Aligned(r, deployment[bound[call[t].session]])
    PROVE  SwitchInv'
<1>1. /\ OrchestratorInv /\ RuntimeInv
      /\ call[t] # NoCall /\ InsideLock(call[t]) /\ lockHolder[call[t].orch] = t
      /\ call[t].session \in Sessions
  BY Inside DEF SwitchInv, OrchestratorInv
<1>2. PICK s \in Sessions : s = call[t].session
  BY <1>1
<1>3. /\ session'[s] = r
      /\ \A u \in Sessions : u # s => session'[u] = session[u]
      /\ \A u \in Sessions : Started(u) => Started(u)'
  BY <1>1, <1>2, OwnSession
<1>4. deployment' = deployment /\ \A d \in Deployments : Deployed(d) => Deployed(d)'
  BY DEF routerVars, Deployed
<1>5. /\ call'[t].op = call[t].op /\ call'[t].orch = call[t].orch
      /\ call'[t].session = s /\ call'[t].migration = call[t].migration
      /\ call'[t].at = place /\ migration[call[t].migration].session = s
  BY <1>1, <1>2, Inside, GotoKeeps DEF SwitchOK
<1>6. SwitchOK(call[t])'
  BY <1>2, <1>3, <1>4, <1>5 DEF SwitchOK, From, To
<1>7. BoundAligned(s)'
  BY <1>2, <1>3, <1>4 DEF BoundAligned
<1>8. ASSUME NEW u \in Sessions, u = call[t].session PROVE BoundAligned(u)'
  BY <1>2, <1>7, <1>8 DEF BoundAligned
<1> QED BY <1>1, <1>2, <1>3, <1>4, <1>5, <1>6, <1>8, MoverInv

\* It replaces the record of its deployment; a binding is nobody else's.
LEMMA RouteMoves ==
    ASSUME SwitchInv, OneOrchestratorWithRollback, NEW t \in Threads, StepKeeps(t),
           NEW op \in {"commit", "rollback"}, NEW label, At(t, op, label), label # "begin",
           UNCHANGED <<session, migration, bound, lockHolder>>,
           NEW place, Goto(t, place), place \notin {"verifyRuntime", "verifyRoute"}, NEW q \in DeploymentRecords,
           bound[call[t].session] # NoDeployment,
           deployment' = [deployment EXCEPT ![bound[call[t].session]] = q],
           SwitchFacts(call'[t], bound[call[t].session], session[call[t].session], q,
                       From(t), To(t)),
           Aligned(session[call[t].session], q)
    PROVE  SwitchInv'
<1>1. /\ OrchestratorInv
      /\ call[t] # NoCall /\ InsideLock(call[t]) /\ lockHolder[call[t].orch] = t
      /\ call[t].session \in Sessions
  BY Inside DEF SwitchInv
<1>2. PICK s \in Sessions : s = call[t].session
  BY <1>1
<1>3. /\ deployment'[bound[s]] = q
      /\ \A u \in Sessions : u # s /\ bound[u] # NoDeployment =>
             deployment'[bound[u]] = deployment[bound[u]]
      /\ \A k \in Deployments : Deployed(k) => Deployed(k)'
  <2>1. deployment \in [Deployments -> DeploymentRecords \cup {NoDeployment}]
    BY <1>1 DEF OrchestratorInv, RouterInv, RouterTypeOK
  <2>2. bound[s] \in Deployments
    BY <1>2, BindingKept
  <2>3. \A u \in Sessions : u # s /\ bound[u] # NoDeployment =>
           bound[u] \in Deployments /\ bound[u] # bound[s]
    BY BindingKept DEF SwitchInv, BindingsOK
  <2> QED BY <1>2, <2>1, <2>2, <2>3, NoDeploymentAssumption DEF Deployed
<1>4. \A u \in Sessions : Started(u) => Started(u)'
  BY DEF Started
<1>5. /\ call'[t].op = call[t].op /\ call'[t].orch = call[t].orch
      /\ call'[t].session = s /\ call'[t].migration = call[t].migration
      /\ call'[t].at = place /\ migration[call[t].migration].session = s
  BY <1>1, <1>2, Inside, GotoKeeps DEF SwitchOK
<1>6. SwitchOK(call[t])'
  BY <1>2, <1>3, <1>5 DEF SwitchOK, From, To
<1>7. BoundAligned(s)'
  BY <1>2, <1>3 DEF BoundAligned
<1>8. ASSUME NEW u \in Sessions, u = call[t].session PROVE BoundAligned(u)'
  BY <1>2, <1>7, <1>8 DEF BoundAligned
<1> QED BY <1>1, <1>2, <1>3, <1>4, <1>5, <1>6, <1>8, MoverInv

\* It goes on without touching a history.
LEMMA HolderPasses ==
    ASSUME SwitchInv, OneOrchestratorWithRollback, NEW t \in Threads, StepKeeps(t),
           NEW op \in {"commit", "rollback"}, NEW label, At(t, op, label), label # "begin",
           Held, UNCHANGED lockHolder,
           call'[t].op = call[t].op, call'[t].orch = call[t].orch,
           SwitchOK(call'[t])
    PROVE  SwitchInv'
<1>1. OthersKeepLocks(t)
  BY KeepLocks DEF SwitchInv
<1>2. call'[t].op \in Endpoints /\ lockHolder'[call'[t].orch] = t
  BY Inside
<1> QED BY <1>1, <1>2, ThreadHeldInv

\* It writes the ledger entry of its migration, or leaves.
LEMMA LedgerMoves ==
    ASSUME SwitchInv, OneOrchestratorWithRollback, NEW t \in Threads, StepKeeps(t),
           NEW op \in {"commit", "rollback"}, NEW label, At(t, op, label), label # "begin",
           UNCHANGED <<session, routerVars, bound>>,
           call'[t] # NoCall =>
               /\ call'[t].op = call[t].op
               /\ lockHolder'[call'[t].orch] = t /\ SwitchOK(call[t])'
    PROVE  SwitchInv'
<1>1. call[t] # NoCall /\ InsideLock(call[t])
  BY Inside
<1>2. deployment' = deployment /\ \A d \in Deployments : Deployed(d) => Deployed(d)'
  BY DEF routerVars, Deployed
<1>3. \A s \in Sessions : Started(s) => Started(s)'
  BY DEF Started
<1>4. ASSUME NEW s \in Sessions, s = call[t].session PROVE BoundAligned(s)'
  BY <1>2 DEF SwitchInv, BoundAligned
<1> QED BY <1>1, <1>2, <1>3, <1>4, MoverInv

\* The places behind the compensation of the route.
LatePlaces == {"undoRuntime?", "undoRuntime", "undoRecord?", "undoRecord", "verifyRuntime",
               "verifyRoute"}

\* At one of them it only writes its own call.
LEMMA HolderIsLate ==
    ASSUME SwitchInv, OneOrchestratorWithRollback, NEW t \in Threads, StepKeeps(t),
           NEW label \in LatePlaces, At(t, "commit", label), Held, UNCHANGED lockHolder,
           NEW place \in LatePlaces, NEW errors \in BOOLEAN,
           call' = [call EXCEPT ![t].at = place, ![t].errors = errors],
           place \in {"verifyRuntime", "verifyRoute"} /\ ~errors =>
               ~InState(call[t].migration, "COMMITTED"),
           place = "verifyRoute" /\ ~errors => session[call[t].session].active = From(t)
    PROVE  SwitchInv'
<1>1. /\ call[t] # NoCall /\ call[t] \in Calls /\ call[t].op = "commit" /\ call[t].at = label
      /\ SwitchOK(call[t]) /\ label # "begin" /\ label # "runtime"
  BY Inside DEF LatePlaces
<1>2. call'[t] = [call[t] EXCEPT !.at = place, !.errors = errors]
  BY DEF SwitchInv, OrchestratorInv, OwnTypeOK
<1>3. PICK c, b : c = call[t] /\ b = call'[t]
  OBVIOUS
<1>4. /\ b.op = c.op /\ b.orch = c.orch /\ b.session = c.session /\ b.deployment = c.deployment
      /\ b.migration = c.migration /\ b.at = place /\ b.errors = errors
  BY <1>1, <1>2, <1>3 DEF Calls
<1>5. c.deployment = bound[c.session] /\ migration[c.migration].session = c.session
  BY <1>1, <1>3 DEF SwitchOK, SwitchFacts
<1>6. SwitchOK(b)
  BY <1>1, <1>3, <1>4, <1>5 DEF SwitchOK, SwitchFacts, LatePlaces, From
<1> QED BY <1>1, <1>3, <1>4, <1>6, HolderPasses

-----------------------------------------------------------------------------
(* The operations that hold no lock from one step to the next.  Of all     *)
(* steps only CommitRecord makes a new commit (OnlyRecordCommits), so the  *)
(* lemmas of the others may assume that none is made.                      *)

LEMMA RequestHeldInv ==
    ASSUME SwitchInv, NEW t \in Threads, Request(t)
    PROVE  SwitchInv'
<1>1. StepKeeps(t)
  BY RequestKeeps DEF SwitchInv
<1>2. ASSUME NEW o, NEW op, NEW s, NEW m, Enter(t, o, op, s, m)
      PROVE  SwitchInv'
  <2>1. Held
    BY <1>2, UnchangedHeld, UnchangedQuiet DEF Enter, Held
  <2>2. call'[t].at = "begin" /\ call'[t].op = op /\ op \in Endpoints
    BY <1>2 DEF Enter, SwitchInv, OrchestratorInv, OwnTypeOK
  <2>3. OthersKeepLocks(t)
    BY <1>2, KeepLocks DEF Enter, SwitchInv
  <2> QED BY <1>1, <2>1, <2>2, <2>3, ThreadHeldInv DEF InsideLock
<1> QED BY <1>2 DEF Request

LEMMA PlanHeldInv ==
    ASSUME SwitchInv, NoNewCommit, NEW t \in Threads, PlanRead(t) \/ PlanRecord(t)
    PROVE  SwitchInv'
<1>0. OrchestratorInv /\ StepKeeps(t)
  BY PlanReadKeeps, PlanRecordKeeps DEF SwitchInv
<1>1. call[t] # NoCall /\ call[t] \in Calls /\ call[t].op = "plan"
  BY <1>0, Caller DEF PlanRead, PlanRecord
<1>2. Held
  BY UnchangedHeld DEF PlanRead, PlanRecord, Held
<1>3. UNCHANGED lockHolder \/ Leave(t)
  BY DEF PlanRead, PlanRecord
<1>4. call'[t] # NoCall => call'[t].op = call[t].op
  BY <1>0, <1>1, LeaveEnds DEF PlanRead, PlanRecord, Calls, OrchestratorInv, OwnTypeOK
<1> QED BY <1>0, <1>1, <1>2, <1>3, <1>4, OutsideHeldInv

LEMMA StageHeldInv ==
    ASSUME SwitchInv, NoNewCommit, NEW t \in Threads, StageRead(t) \/ StageBinding(t) \/ StageRoute(t)
    PROVE  SwitchInv'
<1>0. OrchestratorInv /\ StepKeeps(t)
  BY StageReadKeeps, StageBindingKeeps, StageRouteKeeps DEF SwitchInv
<1>1. call[t] # NoCall /\ call[t] \in Calls /\ call[t].op = "stage"
  BY <1>0, Caller DEF StageRead, StageBinding, StageRoute
<1>2. UNCHANGED lockHolder \/ Leave(t)
  BY DEF StageRead, StageBinding, StageRoute
<1>3. call'[t] # NoCall => call'[t].op = call[t].op
  <2>1. CASE StageRead(t) \/ StageRoute(t)
    BY <1>0, <1>1, <2>1, LeaveEnds, GotoKeeps DEF StageRead, StageRoute
  <2>2. CASE StageBinding(t)
    BY <1>0, <1>1, <2>2, LeaveEnds DEF StageBinding, Calls, OrchestratorInv, OwnTypeOK
  <2> QED BY <2>1, <2>2
<1>4. RoutesHeld
  <2>1. CASE StageRoute(t)
    <3> DEFINE m == call[t].migration
               d == call[t].deployment
               r == migration[m]
    <3>1. CallOK(call[t]) /\ call[t].at = "route"
      BY <1>0, <2>1, Caller DEF StageRoute
    <3>2. m \in Migrations /\ d \in Deployments /\ PassedGates(m) /\ r \in MigrationRecords
      BY <1>0, <1>1, <3>1, CallersMigration DEF CallOK
    <3>3. r.to \in Candidates /\ r.artifact \in Artifacts /\ r.manifest \in Manifests /\ m \in Origins
      BY <3>2, OrchestratorsAssumption DEF MigrationRecords, PassedGates
    <3> QED BY <1>0, <2>1, <3>2, <3>3, StageHeld, UnchangedHeld DEF StageRoute, OrchestratorInv
  <2> QED BY <2>1, UnchangedHeld DEF StageRead, StageBinding
<1>5. Held
  BY <1>4, UnchangedHeld DEF StageRead, StageBinding, StageRoute, Held
<1> QED BY <1>0, <1>1, <1>2, <1>3, <1>5, OutsideHeldInv

\* abort drops a staged version and a recommendation, which no history names.
LEMMA AbortHeldInv ==
    ASSUME SwitchInv, NoNewCommit, NEW t \in Threads,
           \/ AbortBegin(t) \/ AbortBinding(t) \/ AbortCheckStaged(t)
           \/ AbortRoute(t) \/ AbortRecord(t) \/ AbortClearPending(t)
    PROVE  SwitchInv'
<1>0. OrchestratorInv /\ StepKeeps(t)
  BY AbortBeginKeeps, AbortBindingKeeps, AbortCheckStagedKeeps, AbortRouteKeeps,
     AbortRecordKeeps, AbortClearPendingKeeps DEF SwitchInv
<1>1. call[t] # NoCall /\ call[t] \in Calls /\ CallOK(call[t]) /\ call[t].op = "abort"
      /\ call[t].session \in Sessions
  BY <1>0, Caller DEF AbortBegin, AbortBinding, AbortCheckStaged, AbortRoute, AbortRecord,
                      AbortClearPending
<1>2. UNCHANGED lockHolder \/ Leave(t)
  BY DEF AbortBegin, AbortBinding, AbortCheckStaged, AbortRoute, AbortRecord, AbortClearPending
<1>3. call'[t] # NoCall => call'[t].op = call[t].op
  <2>1. CASE Leave(t)
    BY <1>0, <2>1, LeaveEnds
  <2>2. CASE \E label \in Places : Goto(t, label)
    BY <1>0, <1>1, <2>2, GotoKeeps
  <2>3. CASE AbortBinding(t)
    BY <1>0, <1>1, <2>3 DEF AbortBinding, Calls, OrchestratorInv, OwnTypeOK
  <2>4. {"binding", "route", "record", "pending"} \subseteq Places
    BY DEF Places
  <2> QED BY <2>1, <2>2, <2>3, <2>4
         DEF AbortBegin, AbortCheckStaged, AbortRoute, AbortRecord, AbortClearPending
<1>4. SessionsHeld
  BY <1>0, <1>1, AbortPendingHeld, UnchangedHeld
     DEF AbortBegin, AbortBinding, AbortCheckStaged, AbortRoute, AbortRecord, AbortClearPending,
         OrchestratorInv
<1>5. RoutesHeld
  <2>1. CASE AbortRoute(t)
    <3>1. call[t].deployment \in Deployments
      BY <1>0, <1>1, <2>1, Caller DEF AbortRoute, CallOK
    <3> QED BY <1>0, <2>1, <3>1, AbortStagedHeld, UnchangedHeld DEF AbortRoute, OrchestratorInv
  <2> QED BY <2>1, UnchangedHeld
         DEF AbortBegin, AbortBinding, AbortCheckStaged, AbortRecord, AbortClearPending
<1>6. Held
  BY <1>4, <1>5
     DEF AbortBegin, AbortBinding, AbortCheckStaged, AbortRoute, AbortRecord, AbortClearPending,
         Held
<1> QED BY <1>0, <1>1, <1>2, <1>3, <1>6, OutsideHeldInv

\* The endpoints that call one controller.
LEMMA DirectHeldInv ==
    ASSUME SwitchInv, ControllersStep, Held, UNCHANGED <<bound, reported, lockHolder, call>>
    PROVE  SwitchInv'
<1>1. OrchestratorInv' /\ [MigrationNext]_migrationVars
  BY DirectInv DEF SwitchInv, ControllersStep
<1>2. ASSUME NEW u \in Threads, call'[u] # NoCall
      PROVE  /\ CallOK(call'[u])
             /\ call'[u].op \in Endpoints
             /\ InsideLock(call'[u]) => lockHolder'[call'[u].orch] = u /\ SwitchOK(call'[u])
  BY <1>2 DEF SwitchInv, CallsServed, SwitchesOK, OrchestratorInv, CallsOK
<1> QED BY <1>1, <1>2, HeldInv

LEMMA DirectsHeldInv ==
    ASSUME SwitchInv, OneOrchestratorWithRollback,
           \/ \E s \in Sessions : DirectRuntime(s)
           \/ \E m \in Migrations : DirectMigration(m)
           \/ \E d \in Deployments : DirectRouter(d)
           \/ UNCHANGED orchestratorVars
    PROVE  SwitchInv'
<1>1. OrchestratorInv /\ RuntimeInv /\ MigrationInv /\ RouterInv
  BY DEF SwitchInv, OrchestratorInv
<1>2. ASSUME NEW s \in Sessions, DirectRuntime(s) PROVE SwitchInv'
  <2>1. "runtime confirm" \notin Endpoints /\ "runtime rollback" \notin Endpoints
    BY DEF OneOrchestratorWithRollback
  <2>2. SessionsHeld
    BY <1>1, <1>2, <2>1, StartHeld, ObserveHeld, AbortPendingHeld DEF DirectRuntime
  <2>3. Held
    BY <1>2, <2>2, UnchangedHeld, UnchangedQuiet DEF DirectRuntime, Held
  <2> QED BY <1>1, <1>2, <2>3, DirectRuntimeKeeps, DirectHeldInv DEF DirectRuntime
<1>3. ASSUME NEW m \in Migrations, DirectMigration(m) PROVE SwitchInv'
  <2>1. NoNewCommit
    BY <1>1, <1>3, ShadowBuiltQuiet, VerifyQuiet DEF DirectMigration
  <2>2. Held
    BY <1>3, <2>1, UnchangedHeld DEF DirectMigration, Held
  <2> QED BY <1>1, <1>3, <2>2, DirectMigrationKeeps, DirectHeldInv DEF DirectMigration
<1>4. ASSUME NEW d \in Deployments, DirectRouter(d) PROVE SwitchInv'
  <2>1. RoutesHeld
    BY <1>1, <1>4, BootstrapHeld DEF DirectRouter
  <2>2. Held
    BY <1>4, <2>1, UnchangedHeld, UnchangedQuiet DEF DirectRouter, Held
  <2> QED BY <1>1, <1>4, <2>2, DirectRouterKeeps, DirectHeldInv DEF DirectRouter
<1>5. ASSUME UNCHANGED orchestratorVars PROVE SwitchInv'
  <2>1. UNCHANGED controllers /\ UNCHANGED <<bound, reported, lockHolder, call>>
    BY <1>5 DEF orchestratorVars
  <2>2. Held
    BY <2>1, UnchangedHeld, UnchangedQuiet DEF Held
  <2> QED BY <1>1, <2>1, <2>2, QuietControllers, DirectHeldInv
<1> QED BY <1>2, <1>3, <1>4, <1>5

-----------------------------------------------------------------------------
(* authorize_commit and its compensation, among rollbacks. *)

\* Both operations take the lock when they have read the ledger.
LEMMA BeginSwitchInv ==
    ASSUME SwitchInv, NoNewCommit, NEW t \in Threads, CommitBegin(t) \/ RollbackBegin(t)
    PROVE  SwitchInv'
<1>0. OrchestratorInv /\ StepKeeps(t)
  BY CommitBeginKeeps, RollbackBeginKeeps DEF SwitchInv
<1>1. /\ call[t] # NoCall /\ call[t] \in Calls /\ call[t].op \in {"commit", "rollback"}
      /\ call[t].orch \in Orchestrators
  BY <1>0, Caller DEF CommitBegin, RollbackBegin
<1>2. Held
  BY UnchangedHeld DEF CommitBegin, RollbackBegin, Held
<1>3. CASE Leave(t)
  BY <1>0, <1>2, <1>3, LeaveHeldInv
<1>4. CASE OwnMigration(t) /\ LockFree(t) /\ Lock(t) /\ Goto(t, "runtime")
  <2>1. OthersKeepLocks(t)
    BY <1>0, <1>4, KeepLocks
  <2>2. call'[t].at = "runtime" /\ call'[t].op = call[t].op /\ call'[t].orch = call[t].orch
        /\ call'[t].session = call[t].session /\ call'[t].migration = call[t].migration
    BY <1>0, <1>1, <1>4, GotoKeeps
  <2>3. lockHolder'[call'[t].orch] = t
    BY <1>0, <1>1, <1>4, <2>2 DEF Lock, OrchestratorInv, OwnTypeOK
  <2>4. SwitchOK(call'[t])
    BY <1>4, <2>2 DEF SwitchOK, SwitchFacts, OwnMigration
  <2>5. call'[t].op \in Endpoints
    BY <1>1, <2>2 DEF SwitchInv, CallsServed
  <2> QED BY <1>0, <1>2, <2>1, <2>3, <2>4, <2>5, ThreadHeldInv
<1> QED BY <1>3, <1>4 DEF CommitBegin, RollbackBegin

\* The session is read, the binding is looked up.
LEMMA CheckRuntimeSwitchInv ==
    ASSUME SwitchInv, OneOrchestratorWithRollback, NoNewCommit, NEW t \in Threads,
           CommitCheckRuntime(t) \/ RollbackCheckRuntime(t)
    PROVE  SwitchInv'
<1> DEFINE s == call[t].session
           d == DeploymentFor(t)
           Read(label) == /\ call' = [call EXCEPT ![t].deployment = d, ![t].at = label]
                          /\ UNCHANGED lockHolder
<1>0. OrchestratorInv /\ StepKeeps(t)
  BY CommitCheckRuntimeKeeps, RollbackCheckRuntimeKeeps DEF SwitchInv
<1>1. PICK op \in {"commit", "rollback"} :
         /\ At(t, op, "runtime")
         /\ op = "commit" <=> CommitCheckRuntime(t)
  BY DEF CommitCheckRuntime, RollbackCheckRuntime, At
<1>2. /\ call[t] # NoCall /\ call[t] \in Calls /\ call[t].op = op /\ d = bound[s]
      /\ migration[call[t].migration].session = s
  BY <1>1, Inside DEF SwitchOK
<1>3. Held
  BY UnchangedHeld DEF CommitCheckRuntime, RollbackCheckRuntime, Held
<1>4. CASE Leave(t)
  BY <1>0, <1>3, <1>4, LeaveHeldInv
<1>5. ASSUME NEW label, Read(label),
             label = "route" => d # NoDeployment,
             op = "commit" => label \in {"route", "confirm"} /\ session[s].active = From(t)
                              /\ (label = "confirm" => d = NoDeployment),
             op = "rollback" => /\ label \in {"route", "restore"}
                                /\ session[s].active = To(t) /\ session[s].rollbackAvailable
                                /\ label = "restore" => d = NoDeployment
      PROVE  SwitchInv'
  <2>1. call'[t] = [call[t] EXCEPT !.deployment = d, !.at = label]
    BY <1>0, <1>5 DEF OrchestratorInv, OwnTypeOK
  <2>2. PICK b, c : b = call[t] /\ c = call'[t]
    OBVIOUS
  <2>3. /\ c.at = label /\ c.deployment = d
        /\ c.op = b.op /\ c.orch = b.orch /\ c.session = s /\ c.migration = b.migration
    BY <1>2, <2>1, <2>2 DEF Calls
  <2>4. SwitchOK(c)
    BY <1>2, <1>5, <2>2, <2>3 DEF SwitchOK, SwitchFacts, From, To
  <2> QED BY <1>0, <1>1, <1>3, <1>5, <2>2, <2>3, <2>4, HolderPasses
<1>6. CASE CommitCheckRuntime(t) /\ ~Leave(t)
  <2>1. op = "commit"
    BY <1>1, <1>6
  <2>2. PICK label : label = IF d = NoDeployment THEN "confirm" ELSE "route"
    OBVIOUS
  <2>3. /\ Read(label)
        /\ session[s].active = From(t)
    BY <1>6, <2>2 DEF CommitCheckRuntime
  <2> HIDE DEF Read, d, s
  <2> QED BY <1>5, <2>1, <2>2, <2>3
<1>7. CASE RollbackCheckRuntime(t) /\ ~Leave(t)
  <2>1. op = "rollback"
    BY <1>1, <1>7 DEF RollbackCheckRuntime, CommitCheckRuntime, At
  <2>2. PICK label : label = IF d = NoDeployment THEN "restore" ELSE "route"
    OBVIOUS
  <2>3. /\ Read(label)
        /\ session[s].active = To(t) /\ session[s].rollbackAvailable
    BY <1>7, <2>2 DEF RollbackCheckRuntime
  <2> HIDE DEF Read, d, s
  <2> QED BY <1>5, <2>1, <2>2, <2>3
<1> QED BY <1>4, <1>6, <1>7

\* The holder's facts about the deployment of its call.
LEMMA InsideRoute ==
    ASSUME SwitchInv, OneOrchestratorWithRollback, NEW t \in Threads,
           NEW op \in {"commit", "rollback"}, NEW label, At(t, op, label),
           label \notin {"begin", "runtime"}, call[t].deployment # NoDeployment
    PROVE  /\ call[t].deployment = bound[call[t].session]
           /\ bound[call[t].session] # NoDeployment
           /\ call[t].deployment \in Deployments
           /\ Deployed(call[t].deployment) /\ RecordOK(deployment[call[t].deployment])
           /\ Aligned(session[call[t].session], deployment[call[t].deployment])
<1>1. /\ call[t].at = label /\ SwitchOK(call[t]) /\ call[t].session \in Sessions
  BY Inside
<1>2. call[t].deployment = bound[call[t].session]
  BY <1>1 DEF SwitchOK, SwitchFacts
<1>3. PICK s, d : s \in Sessions /\ s = call[t].session /\ d = call[t].deployment
  BY <1>1
<1>4. d = bound[s] /\ d \in Deployments /\ Deployed(d) /\ Aligned(session[s], deployment[d])
  BY <1>2, <1>3, BindingKept DEF SwitchInv, BoundAligned
<1>5. RecordOK(deployment[d])
  BY <1>4 DEF SwitchInv, OrchestratorInv, RouterInv
<1> QED BY <1>2, <1>3, <1>4, <1>5

\* activate pushes the source on the route's stack.
LEMMA CommitRouteSwitchInv ==
    ASSUME SwitchInv, OneOrchestratorWithRollback, NoNewCommit, NEW t \in Threads, CommitRoute(t)
    PROVE  SwitchInv'
<1>0. OrchestratorInv /\ StepKeeps(t)
  BY CommitRouteKeeps DEF SwitchInv
<1>1. /\ At(t, "commit", "route") /\ call[t] # NoCall /\ CallOK(call[t])
      /\ call[t].op = "commit" /\ call[t].at = "route" /\ SwitchOK(call[t])
  BY Inside DEF CommitRoute
<1>2. call[t].deployment = bound[call[t].session] /\ call[t].deployment # NoDeployment
      /\ session[call[t].session].active = From(t)
  BY <1>1 DEF SwitchOK, SwitchFacts, From
<1>3. PICK s, d : s = call[t].session /\ d = call[t].deployment
  OBVIOUS
<1>4. /\ d = bound[s] /\ d \in Deployments /\ RecordOK(deployment[d])
      /\ Aligned(session[s], deployment[d])
  BY <1>1, <1>2, <1>3, InsideRoute
<1>5. CASE Leave(t) /\ UNCHANGED routerVars
  <2>1. Held
    BY <1>5, UnchangedHeld DEF CommitRoute, Held
  <2> QED BY <1>0, <1>5, <2>1, LeaveHeldInv
<1>6. CASE Activate(d, From(t), To(t)) /\ Goto(t, "confirm") /\ UNCHANGED lockHolder
  <2> DEFINE q == Activated(deployment[d])
  <2>1. /\ deployment[d].staged # NoVersion
        /\ deployment[d].staged.candidate = To(t)
        /\ deployment[d].active.candidate = From(t)
    BY <1>6 DEF Activate, ActivateOk, Staged, Active
  <2>2. q \in DeploymentRecords
    BY <1>4, <2>1, ActivatedRecord DEF RecordOK
  <2>3. Switched(session[s], q, From(t), To(t)) /\ Aligned(session[s], q)
    <3>1. session[s].active = deployment[d].active.candidate
      BY <1>2, <1>3, <2>1
    <3>2. /\ Switched(session[s], q, deployment[d].active.candidate, deployment[d].staged.candidate)
          /\ Aligned(session[s], q)
      BY <1>4, <2>1, <3>1, ActivatedSwitches
    <3> QED BY <2>1, <3>2
  <2>4. deployment' = [deployment EXCEPT ![bound[s]] = q]
    BY <1>0, <1>4, <1>6 DEF Activate, OrchestratorInv, RouterInv, RouterTypeOK
  <2> HIDE DEF q
  <2>5. PICK c : c = call'[t]
    OBVIOUS
  <2>6. c.at = "confirm" /\ c.op = "commit" /\ c.deployment = d
    BY <1>0, <1>1, <1>3, <1>6, <2>5, GotoKeeps
  <2>7. SwitchFacts(c, bound[s], session[s], q, From(t), To(t))
    BY <1>2, <1>3, <1>4, <2>3, <2>6 DEF SwitchFacts
  <2>8. UNCHANGED <<session, migration, bound>>
    BY <1>6 DEF CommitRoute
  <2> QED BY <1>0, <1>1, <1>2, <1>3, <1>4, <1>6, <2>2, <2>3, <2>4, <2>5, <2>7, <2>8, RouteMoves
<1> QED BY <1>3, <1>5, <1>6 DEF CommitRoute

\* confirm_migration saves the source as the session's checkpoint.
LEMMA CommitConfirmSwitchInv ==
    ASSUME SwitchInv, OneOrchestratorWithRollback, NoNewCommit, NEW t \in Threads, CommitConfirm(t)
    PROVE  SwitchInv'
<1>0. OrchestratorInv /\ RuntimeInv /\ StepKeeps(t)
  BY CommitConfirmKeeps DEF SwitchInv, OrchestratorInv
<1>1. /\ At(t, "commit", "confirm") /\ call[t] # NoCall /\ call[t] \in Calls
      /\ call[t].op = "commit" /\ call[t].at = "confirm" /\ SwitchOK(call[t])
      /\ call[t].session \in Sessions
      /\ session[call[t].session] \in SessionRecords /\ RecordInv(session[call[t].session])
  BY Inside DEF CommitConfirm
<1>2. UNCHANGED <<migration, routerVars, bound, reported, lockHolder>>
  BY DEF CommitConfirm
<1>3. PICK s, d, r, q :
         s \in Sessions /\ s = call[t].session /\ d = bound[s] /\ r = session[s] /\ q = deployment[d]
  BY <1>1
<1>4. /\ migration[call[t].migration].session = s
      /\ call[t].deployment = d /\ r.active = From(t)
      /\ d # NoDeployment => Switched(r, q, From(t), To(t))
  BY <1>1, <1>3 DEF SwitchOK, SwitchFacts, From, To
<1>5. PICK c : c = call'[t]
  OBVIOUS
<1>6. CASE Goto(t, "undoRoute") /\ UNCHANGED session
  <2>1. /\ c.at = "undoRoute" /\ c.op = "commit" /\ c.orch = call[t].orch /\ c.session = s
        /\ c.migration = call[t].migration /\ c.deployment = d
    BY <1>0, <1>1, <1>3, <1>4, <1>5, <1>6, GotoKeeps
  <2>2. SwitchOK(c)
    BY <1>3, <1>4, <2>1 DEF SwitchOK, SwitchFacts, From, To
  <2>3. Held
    BY <1>2, <1>6, UnchangedHeld DEF Held
  <2> QED BY <1>0, <1>1, <1>2, <1>5, <2>1, <2>2, <2>3, HolderPasses
<1>7. CASE Confirm(s, To(t)) /\ \E place \in {"record", "undoRoute"} : Goto(t, place)
  <2>1. PICK place \in {"record", "undoRoute"} : Goto(t, place)
    BY <1>7
  <2> DEFINE p == Confirmed(r)
  <2>2. r.pendingCandidate = To(t) /\ r.pendingCandidate # NoCandidate
    BY <1>3, <1>7 DEF Confirm, ConfirmOk
  <2>3. p \in SessionRecords
    BY <1>1, <1>3, <2>2, ConfirmedInv DEF RecordInv
  <2>4. /\ p.active = To(t)
        /\ d # NoDeployment => Switched(p, q, From(t), To(t)) /\ Aligned(p, q)
    BY <1>1, <1>3, <1>4, <2>2, ConfirmedAligns
  <2>5. session' = [session EXCEPT ![s] = p]
    BY <1>0, <1>3, <1>7 DEF Confirm, RuntimeInv, RuntimeTypeOK
  <2> HIDE DEF p
  <2>6. c.at = place /\ c.op = "commit" /\ c.deployment = d
    BY <1>0, <1>1, <1>4, <1>5, <2>1, GotoKeeps
  <2>7. SwitchFacts(c, d, p, q, From(t), To(t))
    BY <2>4, <2>6 DEF SwitchFacts
  <2> QED BY <1>0, <1>1, <1>2, <1>3, <1>5, <2>1, <2>3, <2>4, <2>5, <2>7, SessionMoves
<1> QED BY <1>3, <1>6, <1>7 DEF CommitConfirm

\* The one step that commits in the ledger.
LEMMA CommitRecordSwitchInv ==
    ASSUME SwitchInv, OneOrchestratorWithRollback, NEW t \in Threads, CommitRecord(t)
    PROVE  SwitchInv'
<1>0. OrchestratorInv /\ StepKeeps(t)
  BY CommitRecordKeeps DEF SwitchInv
<1>1. /\ At(t, "commit", "record") /\ call[t] # NoCall /\ call[t] \in Calls /\ CallOK(call[t])
      /\ call[t].op = "commit" /\ call[t].at = "record" /\ SwitchOK(call[t])
      /\ lockHolder[call[t].orch] = t /\ call[t].migration \in Migrations
  BY Inside DEF CommitRecord
<1>2. UNCHANGED <<session, routerVars, bound>>
  BY DEF CommitRecord
<1>3. CASE Leave(t)
  <2>1. call'[t] = NoCall
    BY <1>0, <1>3, LeaveEnds
  <2> QED BY <1>0, <1>1, <1>2, <2>1, LedgerMoves
<1>4. CASE Goto(t, "undoRoute") /\ UNCHANGED lockHolder
  <2>1. PICK c, b, m : c = call[t] /\ b = call'[t] /\ m = call[t].migration
    OBVIOUS
  <2>2. /\ b.at = "undoRoute" /\ b.op = c.op /\ b.orch = c.orch /\ b.session = c.session
        /\ b.migration = m /\ b.deployment = c.deployment
    BY <1>0, <1>1, <1>4, <2>1, GotoKeeps
  <2>3. /\ migration'[m].session = migration[m].session
        /\ migration'[m].from = migration[m].from
        /\ migration'[m].to = migration[m].to
    <3>1. m \in Migrations /\ Planned(m)
      BY <1>1, <2>1 DEF CallOK
    <3>2. [MigrationNext]_migrationVars
      BY <1>0 DEF StepKeeps, ControllersStep
    <3> QED BY <1>0, <3>1, <3>2, PlannedStays DEF OrchestratorInv, SameIdentity
  <2>4. session' = session /\ deployment' = deployment /\ bound' = bound
    BY <1>2 DEF routerVars
  <2>5. SwitchOK(call[t])'
    <3>1. migration'[m].session = b.session
      BY <1>1, <2>1, <2>2, <2>3 DEF SwitchOK
    <3>2. PICK d, r, q, from, to :
             /\ d = bound[b.session] /\ r = session[b.session] /\ q = deployment[d]
             /\ from = migration'[m].from /\ to = migration'[m].to
      OBVIOUS
    <3>3. SwitchFacts(c, d, r, q, from, to)
      BY <1>1, <2>1, <2>2, <2>3, <3>2 DEF SwitchOK
    <3>4. SwitchFacts(b, d, r, q, from, to)
      BY <1>1, <2>1, <2>2, <3>3 DEF SwitchFacts
    <3> QED BY <2>1, <2>2, <2>4, <3>1, <3>2, <3>4 DEF SwitchOK
  <2> QED BY <1>0, <1>1, <1>2, <1>4, <2>1, <2>2, <2>5, LedgerMoves
<1> QED BY <1>3, <1>4 DEF CommitRecord

\* The route that the commit switched can always be popped.
LEMMA UndoRouteSwitchInv ==
    ASSUME SwitchInv, OneOrchestratorWithRollback, NoNewCommit, NEW t \in Threads, UndoRoute(t)
    PROVE  SwitchInv'
<1>0. OrchestratorInv /\ StepKeeps(t)
  BY UndoRouteKeeps DEF SwitchInv
<1>1. /\ At(t, "commit", "undoRoute") /\ call[t] # NoCall /\ call[t] \in Calls
      /\ call[t].op = "commit" /\ call[t].at = "undoRoute" /\ SwitchOK(call[t])
      /\ call[t].session \in Sessions
  BY Inside DEF UndoRoute
<1>2. UNCHANGED <<session, migration, bound, lockHolder>> /\ Goto(t, "undoRuntime?")
  BY DEF UndoRoute
<1>3. PICK s, d, b, c :
         s \in Sessions /\ s = call[t].session /\ d = call[t].deployment /\ b = call[t] /\ c = call'[t]
  BY <1>1
<1>4. /\ c.at = "undoRuntime?" /\ c.op = b.op /\ c.orch = b.orch /\ c.session = b.session
      /\ c.migration = b.migration /\ c.deployment = b.deployment
  BY <1>0, <1>1, <1>2, <1>3, GotoKeeps
<1>5. /\ d = bound[s]
      /\ d # NoDeployment => Switched(session[s], deployment[d], From(t), To(t))
  BY <1>1, <1>3 DEF SwitchOK, SwitchFacts, From, To
<1>6. CASE UNCHANGED routerVars
  <2>1. Held
    BY <1>2, <1>6, UnchangedHeld DEF Held
  <2>2. SwitchOK(c)
    BY <1>1, <1>3, <1>4 DEF SwitchOK, SwitchFacts
  <2> QED BY <1>0, <1>1, <1>2, <1>3, <1>4, <2>1, <2>2, HolderPasses
<1>7. CASE d # NoDeployment /\ RouterRollback(d)
  <2> DEFINE q == Restored(deployment[d])
  <2>1. d \in Deployments /\ RecordOK(deployment[d])
    BY <1>1, <1>3, <1>7, InsideRoute
  <2>2. Len(deployment[d].rollbackStack) > 0 /\ deployment[d].active.generation + 1 \in Generations
    BY <1>7 DEF RouterRollback, RouterRollbackOk, RollbackDepth, Active
  <2>3. q \in DeploymentRecords
    BY <2>1, <2>2, RestoredRecord DEF RecordOK
  <2>4. Aligned(session[s], q)
    BY <1>5, <1>7, <2>1, RestoredAligns
  <2>5. deployment' = [deployment EXCEPT ![bound[s]] = q]
    BY <1>0, <1>5, <1>7, <2>1 DEF RouterRollback, OrchestratorInv, RouterInv, RouterTypeOK
  <2> HIDE DEF q
  <2>6. SwitchFacts(c, bound[s], session[s], q, From(t), To(t))
    BY <1>1, <1>3, <1>4, <1>5 DEF SwitchFacts
  <2> QED BY <1>0, <1>1, <1>2, <1>3, <1>5, <1>7, <2>3, <2>4, <2>5, <2>6, RouteMoves
<1> QED BY <1>3, <1>6, <1>7 DEF UndoRoute

\* The steps of the compensation that write nothing but their call.
LEMMA NotesSwitchInv ==
    ASSUME SwitchInv, OneOrchestratorWithRollback, NoNewCommit, NEW t \in Threads,
           UndoRuntimeNeeded(t) \/ UndoRecordNeeded(t) \/ VerifyRuntime(t)
    PROVE  SwitchInv'
<1>0. OrchestratorInv /\ StepKeeps(t)
  BY UndoRuntimeNeededKeeps, UndoRecordNeededKeeps, VerifyRuntimeKeeps DEF SwitchInv
<1>1. PICK label \in LatePlaces : At(t, "commit", label)
  BY DEF UndoRuntimeNeeded, UndoRecordNeeded, VerifyRuntime, LatePlaces
<1>2. /\ call[t] # NoCall /\ call[t] \in Calls /\ call[t].at = label /\ call[t].op = "commit"
      /\ SwitchOK(call[t])
  BY <1>1, Inside DEF LatePlaces
<1>3. Held
  BY UnchangedHeld DEF UndoRuntimeNeeded, UndoRecordNeeded, VerifyRuntime, Held
<1>4. UNCHANGED lockHolder
  BY DEF UndoRuntimeNeeded, UndoRecordNeeded, VerifyRuntime
<1>5. CASE UndoRuntimeNeeded(t)
  <2>1. PICK place \in {"undoRuntime", "undoRecord?"} : Goto(t, place)
    BY <1>5 DEF UndoRuntimeNeeded
  <2>2. /\ call[t].errors \in BOOLEAN
        /\ call' = [call EXCEPT ![t].at = place, ![t].errors = call[t].errors]
    BY <1>0, <1>2, <2>1, NotesOnlyPlace
  <2>3. place \in LatePlaces
    BY DEF LatePlaces
  <2> QED BY <1>0, <1>1, <1>3, <1>4, <2>2, <2>3, HolderIsLate
<1>6. CASE UndoRecordNeeded(t)
  <2>1. PICK place \in {"undoRecord", "verifyRuntime"} :
           Goto(t, place) /\ (place = "verifyRuntime" => ~InState(call[t].migration, "COMMITTED"))
    BY <1>6 DEF UndoRecordNeeded
  <2>2. /\ call[t].errors \in BOOLEAN
        /\ call' = [call EXCEPT ![t].at = place, ![t].errors = call[t].errors]
    BY <1>0, <1>2, <2>1, NotesOnlyPlace
  <2>3. place \in LatePlaces
    BY DEF LatePlaces
  <2> QED BY <1>0, <1>1, <1>3, <1>4, <2>1, <2>2, <2>3, HolderIsLate
<1>7. CASE VerifyRuntime(t)
  <2>1. PICK errors \in BOOLEAN :
           errors = (call[t].errors \/ session[call[t].session].active # From(t))
    OBVIOUS
  <2>2. call' = [call EXCEPT ![t].at = "verifyRoute", ![t].errors = errors]
    BY <1>0, <1>7, <2>1 DEF VerifyRuntime, OrchestratorInv, OwnTypeOK
  <2>3. call[t].errors \in BOOLEAN /\ call[t].at = "verifyRuntime"
    BY <1>2, <1>7 DEF Calls, VerifyRuntime, At
  <2>4. ~errors => ~InState(call[t].migration, "COMMITTED")
                   /\ session[call[t].session].active = From(t)
    BY <1>2, <2>1, <2>3 DEF SwitchOK
  <2>5. "verifyRoute" \in LatePlaces
    BY DEF LatePlaces
  <2> QED BY <1>0, <1>1, <1>3, <1>4, <2>2, <2>4, <2>5, HolderIsLate
<1> QED BY <1>5, <1>6, <1>7

\* The compensation of the ledger: rolled back, or noted as an error.
LEMMA UndoRecordSwitchInv ==
    ASSUME SwitchInv, OneOrchestratorWithRollback, NoNewCommit, NEW t \in Threads, UndoRecord(t)
    PROVE  SwitchInv'
<1>0. OrchestratorInv /\ MigrationInv /\ StepKeeps(t)
  BY UndoRecordKeeps DEF SwitchInv, OrchestratorInv
<1>1. /\ At(t, "commit", "undoRecord") /\ call[t] # NoCall /\ call[t] \in Calls
      /\ call[t].op = "commit" /\ call[t].at = "undoRecord" /\ SwitchOK(call[t])
      /\ lockHolder[call[t].orch] = t
      /\ call[t].migration \in Migrations /\ migration[call[t].migration] \in MigrationRecords
  BY Inside, CallersMigration DEF UndoRecord, SwitchInv
<1>2. UNCHANGED <<session, routerVars, bound, lockHolder>>
  BY DEF UndoRecord
<1>3. CASE /\ call' = [call EXCEPT ![t].at = "verifyRuntime", ![t].errors = TRUE]
           /\ UNCHANGED migration
  <2>1. Held
    BY <1>2, UnchangedHeld DEF Held
  <2> QED BY <1>0, <1>1, <1>2, <1>3, <2>1, HolderIsLate DEF LatePlaces
<1>4. CASE MigrationRollback(call[t].migration) /\ Goto(t, "verifyRuntime")
  <2>1. PICK c, b, m : c = call[t] /\ b = call'[t] /\ m = call[t].migration
    OBVIOUS
  <2>2. /\ b.at = "verifyRuntime" /\ b.op = c.op /\ b.orch = c.orch /\ b.session = c.session
        /\ b.migration = m /\ b.deployment = c.deployment
    BY <1>0, <1>1, <1>4, <2>1, GotoKeeps
  <2>3. migration'[m] = [migration[m] EXCEPT !.state = "ROLLED_BACK"]
    BY <1>0, <1>1, <1>4, <2>1 DEF MigrationRollback, MigrationInv, MigrationTypeOK
  <2>4. migration'[m].session = migration[m].session /\ migration'[m].state = "ROLLED_BACK"
    BY <1>1, <2>1, <2>3 DEF MigrationRecords
  <2>5. SwitchOK(call[t])'
    <3>1. c.deployment = bound[c.session] /\ migration[m].session = c.session
      BY <1>1, <2>1 DEF SwitchOK, SwitchFacts
    <3>2. bound' = bound
      BY <1>2
    <3> QED BY <1>1, <2>1, <2>2, <2>4, <3>1, <3>2 DEF SwitchOK, SwitchFacts, InState
  <2> QED BY <1>0, <1>1, <1>2, <2>1, <2>2, <2>5, LedgerMoves
<1> QED BY <1>3, <1>4 DEF UndoRecord

\* The compensation of the session: put back, or noted as an error.
LEMMA UndoRuntimeSwitchInv ==
    ASSUME SwitchInv, OneOrchestratorWithRollback, NoNewCommit, NEW t \in Threads, UndoRuntime(t)
    PROVE  SwitchInv'
<1>0. OrchestratorInv /\ RuntimeInv /\ StepKeeps(t)
  BY UndoRuntimeKeeps DEF SwitchInv, OrchestratorInv
<1>1. /\ At(t, "commit", "undoRuntime") /\ call[t] # NoCall /\ call[t] \in Calls
      /\ call[t].op = "commit" /\ call[t].at = "undoRuntime" /\ SwitchOK(call[t])
      /\ call[t].session \in Sessions
      /\ session[call[t].session] \in SessionRecords /\ RecordInv(session[call[t].session])
  BY Inside DEF UndoRuntime
<1>2. UNCHANGED <<migration, routerVars, bound, reported, lockHolder>>
  BY DEF UndoRuntime
<1>3. CASE call' = [call EXCEPT ![t].at = "undoRecord?", ![t].errors = TRUE] /\ UNCHANGED session
  <2>1. Held
    BY <1>2, <1>3, UnchangedHeld DEF Held
  <2> QED BY <1>0, <1>1, <1>2, <1>3, <2>1, HolderIsLate DEF LatePlaces
<1>4. CASE RollbackLastSwitch(call[t].session) /\ Goto(t, "undoRecord?")
  <2>1. PICK s, d, r, q :
           s \in Sessions /\ s = call[t].session /\ d = bound[s] /\ r = session[s] /\ q = deployment[d]
    BY <1>1
  <2> DEFINE p == RolledBack(r)
  <2>2. p \in SessionRecords
    BY <1>1, <1>4, <2>1, RolledBackInv DEF RollbackLastSwitch, RollbackLastSwitchOk, RecordInv
  <2>3. Aligned(p, q)
    BY <1>1, <2>1, RolledBackAligns
  <2>4. session' = [session EXCEPT ![s] = p]
    BY <1>0, <1>4, <2>1 DEF RollbackLastSwitch, RuntimeInv, RuntimeTypeOK
  <2> HIDE DEF p
  <2>5. PICK c : c = call'[t]
    OBVIOUS
  <2>6. c.at = "undoRecord?" /\ c.op = "commit" /\ c.deployment = call[t].deployment
    BY <1>0, <1>1, <1>4, <2>5, GotoKeeps
  <2>7. call[t].deployment = d
    BY <1>1, <2>1 DEF SwitchOK, SwitchFacts
  <2>8. SwitchFacts(c, d, p, q, From(t), To(t))
    BY <2>6, <2>7 DEF SwitchFacts
  <2> QED BY <1>0, <1>1, <1>2, <1>4, <2>1, <2>2, <2>3, <2>4, <2>5, <2>8, SessionMoves
<1> QED BY <1>3, <1>4 DEF UndoRuntime

LEMMA VerifyRouteSwitchInv ==
    ASSUME SwitchInv, NoNewCommit, NEW t \in Threads, VerifyRoute(t)
    PROVE  SwitchInv'
<1>1. StepKeeps(t)
  BY VerifyRouteKeeps DEF SwitchInv
<1>2. Held
  BY UnchangedHeld DEF VerifyRoute, Held
<1> QED BY <1>1, <1>2, LeaveHeldInv DEF VerifyRoute

-----------------------------------------------------------------------------
(* rollback *)

\* The route goes back first.
LEMMA RollbackRouteSwitchInv ==
    ASSUME SwitchInv, OneOrchestratorWithRollback, NoNewCommit, NEW t \in Threads, RollbackRoute(t)
    PROVE  SwitchInv'
<1>0. OrchestratorInv /\ StepKeeps(t)
  BY RollbackRouteKeeps DEF SwitchInv
<1>1. /\ At(t, "rollback", "route") /\ call[t] # NoCall /\ CallOK(call[t])
      /\ call[t].op = "rollback" /\ call[t].at = "route" /\ SwitchOK(call[t])
  BY Inside DEF RollbackRoute
<1>2. /\ call[t].deployment = bound[call[t].session] /\ call[t].deployment # NoDeployment
      /\ session[call[t].session].active = To(t) /\ session[call[t].session].rollbackAvailable
  BY <1>1 DEF SwitchOK, SwitchFacts, To
<1>3. PICK s, d : s = call[t].session /\ d = call[t].deployment
  OBVIOUS
<1>4. /\ d = bound[s] /\ d \in Deployments /\ RecordOK(deployment[d])
      /\ Aligned(session[s], deployment[d])
  BY <1>1, <1>2, <1>3, InsideRoute
<1>5. CASE Leave(t) /\ UNCHANGED routerVars
  <2>1. Held
    BY <1>5, UnchangedHeld DEF RollbackRoute, Held
  <2> QED BY <1>0, <1>5, <2>1, LeaveHeldInv
<1>6. CASE /\ Active(d).candidate = To(t) /\ RouterRollback(d)
           /\ Goto(t, "restore") /\ UNCHANGED lockHolder
  <2> DEFINE q == Restored(deployment[d])
  <2>1. Len(deployment[d].rollbackStack) > 0 /\ deployment[d].active.generation + 1 \in Generations
    BY <1>6 DEF RouterRollback, RouterRollbackOk, RollbackDepth, Active
  <2>2. q \in DeploymentRecords
    BY <1>4, <2>1, RestoredRecord DEF RecordOK
  <2>3. q.active.candidate = session[s].previousCandidate /\ Aligned(session[s], q)
    <3>1. deployment[d].active.candidate = session[s].active /\ session[s].rollbackAvailable
      BY <1>2, <1>3, <1>6 DEF Active
    <3> QED BY <1>4, <3>1, RestoredIsCheckpoint
  <2>4. deployment' = [deployment EXCEPT ![bound[s]] = q]
    BY <1>0, <1>4, <1>6 DEF RouterRollback, OrchestratorInv, RouterInv, RouterTypeOK
  <2> HIDE DEF q
  <2>5. PICK c : c = call'[t]
    OBVIOUS
  <2>6. c.at = "restore" /\ c.op = "rollback" /\ c.deployment = d
    BY <1>0, <1>1, <1>3, <1>6, <2>5, GotoKeeps
  <2>7. SwitchFacts(c, bound[s], session[s], q, From(t), To(t))
    BY <1>4, <2>3, <2>6 DEF SwitchFacts
  <2>8. UNCHANGED <<session, migration, bound>>
    BY <1>6 DEF RollbackRoute
  <2> QED BY <1>0, <1>1, <1>2, <1>3, <1>4, <1>6, <2>2, <2>3, <2>4, <2>5, <2>7, <2>8, RouteMoves
<1> QED BY <1>3, <1>5, <1>6 DEF RollbackRoute

\* Then the session goes to the candidate that the route already has.
LEMMA RollbackRuntimeSwitchInv ==
    ASSUME SwitchInv, OneOrchestratorWithRollback, NoNewCommit, NEW t \in Threads, RollbackRuntime(t)
    PROVE  SwitchInv'
<1>0. OrchestratorInv /\ RuntimeInv /\ StepKeeps(t)
  BY RollbackRuntimeKeeps DEF SwitchInv, OrchestratorInv
<1>1. /\ At(t, "rollback", "restore") /\ call[t] # NoCall /\ call[t] \in Calls
      /\ call[t].op = "rollback" /\ call[t].at = "restore" /\ SwitchOK(call[t])
      /\ call[t].session \in Sessions
      /\ session[call[t].session] \in SessionRecords /\ RecordInv(session[call[t].session])
  BY Inside DEF RollbackRuntime
<1>2. UNCHANGED <<migration, routerVars, bound, reported>>
  BY DEF RollbackRuntime
<1>3. CASE Leave(t) /\ UNCHANGED session
  <2>1. Held
    BY <1>2, <1>3, UnchangedHeld DEF Held
  <2> QED BY <1>0, <1>3, <2>1, LeaveHeldInv
<1>4. CASE RollbackLastSwitch(call[t].session) /\ Goto(t, "record") /\ UNCHANGED lockHolder
  <2>1. PICK s, d, r, q :
           s \in Sessions /\ s = call[t].session /\ d = bound[s] /\ r = session[s] /\ q = deployment[d]
    BY <1>1
  <2> DEFINE p == RolledBack(r)
  <2>2. p \in SessionRecords
    BY <1>1, <1>4, <2>1, RolledBackInv DEF RollbackLastSwitch, RollbackLastSwitchOk, RecordInv
  <2>3. Aligned(p, q) /\ p.active = r.previousCandidate
    BY <1>1, <2>1, RolledBackAligns
  <2>4. session' = [session EXCEPT ![s] = p]
    BY <1>0, <1>4, <2>1 DEF RollbackLastSwitch, RuntimeInv, RuntimeTypeOK
  <2> HIDE DEF p
  <2>5. PICK c : c = call'[t]
    OBVIOUS
  <2>6. c.at = "record" /\ c.op = "rollback" /\ c.deployment = call[t].deployment
    BY <1>0, <1>1, <1>4, <2>5, GotoKeeps
  <2>7. call[t].deployment = d /\ (d # NoDeployment => q.active.candidate = r.previousCandidate)
    BY <1>1, <2>1 DEF SwitchOK, SwitchFacts
  <2>8. SwitchFacts(c, d, p, q, From(t), To(t))
    BY <2>3, <2>6, <2>7 DEF SwitchFacts
  <2> QED BY <1>0, <1>1, <1>2, <1>4, <2>1, <2>2, <2>3, <2>4, <2>5, <2>8, SessionMoves
<1> QED BY <1>3, <1>4 DEF RollbackRuntime

\* The steps that end an operation and move no history.
LEMMA EndSwitchInv ==
    ASSUME SwitchInv, NoNewCommit, NEW t \in Threads, VerifyRoute(t) \/ RollbackRecord(t)
    PROVE  SwitchInv'
<1>1. StepKeeps(t)
  BY VerifyRouteKeeps, RollbackRecordKeeps DEF SwitchInv
<1>2. Held
  BY UnchangedHeld DEF VerifyRoute, RollbackRecord, Held
<1> QED BY <1>1, <1>2, LeaveHeldInv DEF VerifyRoute, RollbackRecord

-----------------------------------------------------------------------------
(* The invariant and what it promises. *)

LEMMA StepSwitchInv ==
    ASSUME SwitchInv, OneOrchestratorWithRollback, NEW t \in Threads, Step(t)
    PROVE  SwitchInv'
<1>1. ~(BindRead(t) \/ BindWrite(t) \/ \E d \in Deployments : BindCheck(t, d))
  <2>1. call[t] # NoCall => call[t].op # "bind"
    BY DEF SwitchInv, CallsServed, OneOrchestratorWithRollback
  <2>2. \A label : ~At(t, "bind", label)
    BY <2>1 DEF At
  <2> QED BY <2>2 DEF BindRead, BindWrite, BindCheck
<1>2. CASE CommitRecord(t)
  BY <1>2, CommitRecordSwitchInv
<1>3. CASE ~CommitRecord(t)
  <2>1. NoNewCommit
    BY <1>3, OnlyRecordCommits DEF SwitchInv
  <2> QED BY <1>1, <1>3, <2>1, PlanHeldInv, StageHeldInv, AbortHeldInv, BeginSwitchInv,
             CheckRuntimeSwitchInv, CommitRouteSwitchInv, CommitConfirmSwitchInv,
             UndoRouteSwitchInv, NotesSwitchInv, UndoRuntimeSwitchInv, UndoRecordSwitchInv,
             RollbackRouteSwitchInv, RollbackRuntimeSwitchInv, EndSwitchInv, Zenon
          DEF Step
<1> QED BY <1>2, <1>3

LEMMA SwitchInvNext ==
    ASSUME OneOrchestratorWithRollback, SwitchInv, [OrchestratorNext]_orchestratorVars
    PROVE  SwitchInv'
<1>1. CASE UNCHANGED orchestratorVars
  BY <1>1, DirectsHeldInv
<1>2. CASE OrchestratorNext
  BY <1>2, RequestHeldInv, StepSwitchInv, DirectsHeldInv, Zenon DEF OrchestratorNext
<1> QED BY <1>1, <1>2

LEMMA SwitchInvInit == BoundInit => SwitchInv
<1> SUFFICES ASSUME BoundInit PROVE SwitchInv
  OBVIOUS
<1>1. OrchestratorInv /\ BindingsOK /\ CallsServed
  BY CommitInvInit DEF CommitInv
<1>2. SwitchesOK
  BY DEF BoundInit, SwitchesOK
<1>3. \A s \in Sessions : bound[s] # NoDeployment => ~session[s].rollbackAvailable
  BY FirstBindings DEF BindingsOK
<1>4. \A s \in Sessions : BoundAligned(s)
  BY <1>3 DEF BoundAligned, Aligned
<1> QED BY <1>1, <1>2, <1>4 DEF SwitchInv

(***************************************************************************)
(* The inductive invariant of one orchestrator that also rolls back: the   *)
(* route's stack and the session's checkpoint name the same candidate.     *)
(***************************************************************************)
THEOREM SwitchInvariant ==
    ASSUME OneOrchestratorWithRollback
    PROVE  BoundSpec => []SwitchInv
<1>1. SwitchInv /\ [OrchestratorNext]_orchestratorVars => SwitchInv'
  BY SwitchInvNext
<1> QED BY <1>1, SwitchInvInit, PTL DEF BoundSpec

LEMMA RollsBackTogether ==
    ASSUME OneOrchestratorWithRollback, SwitchInv, NEW t \in Threads, At(t, "rollback", "record")
    PROVE  Together(call[t].session, session[call[t].session].active)
<1>1. /\ call[t].at = "record" /\ call[t].op = "rollback" /\ SwitchOK(call[t])
  BY Inside
<1> QED BY <1>1 DEF SwitchOK, SwitchFacts, Together, Active

(***************************************************************************)
(* A rollback is recorded only when the session and its deployment have    *)
(* gone back to one and the same candidate, although the orchestrator      *)
(* never compares what the two histories will restore.                     *)
(***************************************************************************)
THEOREM RollbacksTakeEffectTogether ==
    ASSUME OneOrchestratorWithRollback
    PROVE  BoundSpec => RolledBackTogether
<1>1. ASSUME SwitchInv
      PROVE  \A t \in Threads, m \in Migrations :
                 At(t, "rollback", "record") /\ m = call[t].migration /\ Becomes(m, "ROLLED_BACK") =>
                     LET s == call[t].session IN Together(s, session[s].active)
  BY <1>1, RollsBackTogether
<1> QED BY <1>1, SwitchInvariant, PTL DEF BoundSpec, RolledBackTogether

-----------------------------------------------------------------------------
(* What the invariant says of the commits, among rollbacks. *)

\* A migration becomes COMMITTED by the authorization of its own commit.
LEMMA CommittedByRecord ==
    ASSUME OrchestratorInv, [OrchestratorNext]_orchestratorVars,
           NEW m \in Migrations, ~InState(m, "COMMITTED"), InState(m, "COMMITTED")'
    PROVE  \E t \in Threads : At(t, "commit", "record") /\ m = call[t].migration
<1>0. MigrationInv
  BY DEF OrchestratorInv
<1>1. ~NoNewCommit
  BY DEF NoNewCommit
<1>2. \E t \in Threads : CommitRecord(t)
  <2>1. CASE UNCHANGED orchestratorVars
    BY <1>1, <2>1, UnchangedQuiet DEF orchestratorVars
  <2>2. CASE \E t \in Threads : Request(t)
    <3>1. UNCHANGED migration
      BY <2>2 DEF Request, Enter, controllers
    <3> QED BY <1>1, <3>1, UnchangedQuiet
  <2>3. CASE \E s \in Sessions : DirectRuntime(s)
    BY <1>1, <2>3, UnchangedQuiet DEF DirectRuntime
  <2>4. CASE \E k \in Migrations : DirectMigration(k)
    BY <1>0, <1>1, <2>4, ShadowBuiltQuiet, VerifyQuiet DEF DirectMigration
  <2>5. CASE \E d \in Deployments : DirectRouter(d)
    BY <1>1, <2>5, UnchangedQuiet DEF DirectRouter
  <2>6. CASE \E t \in Threads : Step(t)
    BY <1>1, <2>6, OnlyRecordCommits
  <2> QED BY <2>1, <2>2, <2>3, <2>4, <2>5, <2>6, Zenon DEF OrchestratorNext
<1>3. PICK t \in Threads : CommitRecord(t)
  BY <1>2
<1>4. At(t, "commit", "record") /\ call[t].migration \in Migrations
  BY <1>3, Caller, CallersMigration DEF CommitRecord
<1>5. m = call[t].migration
  <2>1. CASE Commit(call[t].migration)
    <3>1. m # call[t].migration => migration'[m] = migration[m]
      BY <1>0, <2>1 DEF Commit, MigrationInv, MigrationTypeOK
    <3> QED BY <3>1 DEF InState, Planned
  <2>2. CASE UNCHANGED migration
    BY <2>2 DEF InState, Planned
  <2> QED BY <1>3, <2>1, <2>2 DEF CommitRecord
<1> QED BY <1>4, <1>5

LEMMA CommitsTogether ==
    ASSUME OneOrchestratorWithRollback, SwitchInv, [OrchestratorNext]_orchestratorVars,
           NEW m \in Migrations, ~InState(m, "COMMITTED"), InState(m, "COMMITTED")'
    PROVE  Together(migration[m].session, migration[m].to)
<1>1. PICK t \in Threads : At(t, "commit", "record") /\ m = call[t].migration
  BY CommittedByRecord DEF SwitchInv
<1>2. call[t].at = "record" /\ call[t].op = "commit" /\ SwitchOK(call[t])
  BY <1>1, Inside
<1>3. PICK s, d, to : s = call[t].session /\ d = bound[s] /\ to = migration[m].to
  OBVIOUS
<1>4. /\ migration[m].session = s /\ session[s].active = to
      /\ d # NoDeployment => deployment[d].active.candidate = to
  BY <1>1, <1>2, <1>3 DEF SwitchOK, SwitchFacts, Switched
<1> QED BY <1>3, <1>4 DEF Together, Active

(***************************************************************************)
(* A migration is recorded COMMITTED only when its session runs the target *)
(* and the bound deployment routes to it, whatever was rolled back before. *)
(***************************************************************************)
THEOREM CommitsTakeEffectTogether ==
    ASSUME OneOrchestratorWithRollback
    PROVE  BoundSpec => CommittedTogether
<1>1. ASSUME SwitchInv, [OrchestratorNext]_orchestratorVars
      PROVE  \A m \in Migrations :
                 Becomes(m, "COMMITTED") => Together(migration[m].session, migration[m].to)
  BY <1>1, CommitsTogether DEF Becomes
<1> QED BY <1>1, SwitchInvariant, PTL DEF BoundSpec, CommittedTogether

\* A failed commit leaves the checks of its compensation by VerifyRoute alone.
LEMMA VerifiedByStep ==
    ASSUME OrchestratorInv, [OrchestratorNext]_orchestratorVars,
           NEW t \in Threads, At(t, "commit", "verifyRoute"), ~At(t, "commit", "verifyRoute")'
    PROVE  VerifyRoute(t)
<1>1. call'[t] # call[t]
  BY DEF At
<1>2. Step(t)
  <2>1. ASSUME NEW u \in Threads, u # t, Request(u) \/ Step(u) PROVE FALSE
    BY <1>1, <2>1, RequestKeeps, StepsKeep DEF StepKeeps, Goes
  <2>2. ~Request(t)
    BY DEF Request, Enter, At
  <2>3. ~(\E s \in Sessions : DirectRuntime(s)) /\ ~(\E m \in Migrations : DirectMigration(m))
        /\ ~(\E d \in Deployments : DirectRouter(d))
    BY <1>1 DEF DirectRuntime, DirectMigration, DirectRouter
  <2>4. OrchestratorNext
    BY <1>1 DEF orchestratorVars
  <2> QED BY <2>1, <2>2, <2>3, <2>4, Zenon DEF OrchestratorNext
<1>3. call[t].op = "commit" /\ call[t].at = "verifyRoute"
  BY DEF At
<1> QED BY <1>2, <1>3
        DEF Step, At, PlanRead, PlanRecord, BindRead, BindCheck, BindWrite,
            StageRead, StageBinding, StageRoute, CommitBegin, CommitCheckRuntime, CommitRoute,
            CommitConfirm, CommitRecord, UndoRoute, UndoRuntimeNeeded, UndoRuntime,
            UndoRecordNeeded, UndoRecord, VerifyRuntime,
            AbortBegin, AbortBinding, AbortCheckStaged, AbortRoute, AbortRecord,
            AbortClearPending, RollbackBegin, RollbackCheckRuntime, RollbackRoute,
            RollbackRuntime, RollbackRecord

LEMMA FailuresRestore ==
    ASSUME OneOrchestratorWithRollback, SwitchInv, [OrchestratorNext]_orchestratorVars,
           NEW t \in Threads, At(t, "commit", "verifyRoute"), ~At(t, "commit", "verifyRoute")',
           ~reported'[call[t].session]
    PROVE  /\ Together(call[t].session, From(t))
           /\ ~InState(call[t].migration, "COMMITTED")
<1>0. OrchestratorInv
  BY DEF SwitchInv
<1>1. VerifyRoute(t)
  BY <1>0, VerifiedByStep
<1>2. /\ call[t].at = "verifyRoute" /\ call[t].op = "commit" /\ SwitchOK(call[t])
      /\ call[t].session \in Sessions
  BY Inside
<1>3. ~call[t].errors /\ RouteRestored(t)
  BY <1>0, <1>1, <1>2 DEF VerifyRoute, OrchestratorInv, OwnTypeOK
<1>4. /\ session[call[t].session].active = From(t)
      /\ call[t].deployment = bound[call[t].session]
      /\ ~InState(call[t].migration, "COMMITTED")
  BY <1>2, <1>3 DEF SwitchOK, SwitchFacts, From
<1> QED BY <1>3, <1>4 DEF Together, RouteRestored

(***************************************************************************)
(* A commit that fails without a report has restored the session and the   *)
(* route, and leaves no COMMITTED entry, whatever was rolled back before.  *)
(***************************************************************************)
THEOREM FailedCommitsRestore ==
    ASSUME OneOrchestratorWithRollback
    PROVE  BoundSpec => FailedCommitRestores
<1>1. ASSUME SwitchInv, [OrchestratorNext]_orchestratorVars
      PROVE  \A t \in Threads :
                 At(t, "commit", "verifyRoute") /\ ~At(t, "commit", "verifyRoute")'
                     /\ ~reported'[call[t].session] =>
                         /\ Together(call[t].session, From(t))
                         /\ ~InState(call[t].migration, "COMMITTED")
  BY <1>1, FailuresRestore
<1> QED BY <1>1, SwitchInvariant, PTL DEF BoundSpec, FailedCommitRestores

=============================================================================
