------------------------ MODULE MigrationController ------------------------
(***************************************************************************)
(* backend/app/migration.py: the migration ledger.  plan -> shadow build   *)
(* -> verify -> commit -> rollback, with abort before the commit.  Every   *)
(* method runs under one RLock, so a method is one action.                 *)
(***************************************************************************)
EXTENDS AdaptationData

CONSTANTS
    Migrations,     \* migration ids
    NoMigration     \* the id is not in the dict

VARIABLE migration  \* _records: id -> record, NoMigration before plan

migrationVars == <<migration>>

MigrationStates ==
    {"PLANNED", "SHADOW_BUILT", "VERIFIED", "COMMITTED", "ROLLED_BACK", "ABORTED"}

MigrationRecords ==
    [ session             : Sessions,
      from                : Candidates,
      to                  : Candidates,
      state               : MigrationStates,
      artifact            : Artifacts \cup {NoArtifact},
      manifest            : Manifests \cup {NoManifest},
      compileVerified     : BOOLEAN,
      correctnessVerified : BOOLEAN ]

ASSUME NoMigrationAssumption == NoMigration \notin MigrationRecords

MigrationTypeOK == migration \in [Migrations -> MigrationRecords \cup {NoMigration}]

Planned(m) == migration[m] # NoMigration
InState(m, state) == Planned(m) /\ migration[m].state = state

-----------------------------------------------------------------------------
(* The methods *)

PlanOk(m, from, to) == ~Planned(m) /\ from # to

Plan(m, s, from, to) ==
    /\ PlanOk(m, from, to)
    /\ migration' = [migration EXCEPT ![m] =
           [ session |-> s, from |-> from, to |-> to, state |-> "PLANNED",
             artifact |-> NoArtifact, manifest |-> NoManifest,
             compileVerified |-> FALSE, correctnessVerified |-> FALSE ]]

ShadowBuilt(m, artifact) ==
    /\ InState(m, "PLANNED")
    /\ migration' = [migration EXCEPT ![m].artifact = artifact,
                                      ![m].state = "SHADOW_BUILT"]

\* Seeded fault: one gate is enough.
Verified_EitherGate(r, compiles, correct, manifest) ==
    [r EXCEPT !.compileVerified = compiles,
              !.correctnessVerified = correct,
              !.manifest = manifest,
              !.state = IF compiles \/ correct THEN "VERIFIED" ELSE @]

\* A failed gate is recorded and leaves the migration SHADOW_BUILT.
Verified(r, compiles, correct, manifest) ==
    [r EXCEPT !.compileVerified = compiles,
              !.correctnessVerified = correct,
              !.manifest = manifest,
              !.state = IF compiles /\ correct THEN "VERIFIED" ELSE @]

\* Seeded fault: verification may be repeated after the gates have passed.
Verify_AnyTime(m, compiles, correct, manifest) ==
    /\ Planned(m)
    /\ migration[m].state \in {"SHADOW_BUILT", "VERIFIED"}
    /\ migration' = [migration EXCEPT ![m] = Verified(@, compiles, correct, manifest)]

Verify(m, compiles, correct, manifest) ==
    /\ InState(m, "SHADOW_BUILT")
    /\ migration' = [migration EXCEPT ![m] = Verified(@, compiles, correct, manifest)]

CommitOk(m) ==
    /\ InState(m, "VERIFIED")
    /\ migration[m].compileVerified
    /\ migration[m].correctnessVerified

Commit(m) ==
    /\ CommitOk(m)
    /\ migration' = [migration EXCEPT ![m].state = "COMMITTED"]

MigrationRollbackOk(m) == InState(m, "COMMITTED")

MigrationRollback(m) ==
    /\ MigrationRollbackOk(m)
    /\ migration' = [migration EXCEPT ![m].state = "ROLLED_BACK"]

AbortOk(m) ==
    /\ Planned(m)
    /\ migration[m].state \notin {"COMMITTED", "ROLLED_BACK", "ABORTED"}

Abort(m) ==
    /\ AbortOk(m)
    /\ migration' = [migration EXCEPT ![m].state = "ABORTED"]

-----------------------------------------------------------------------------
MigrationInit == migration = [m \in Migrations |-> NoMigration]

MigrationNext ==
    \E m \in Migrations :
        \/ \E s \in Sessions, from, to \in Candidates : Plan(m, s, from, to)
        \/ \E artifact \in Artifacts : ShadowBuilt(m, artifact)
        \/ \E compiles, correct \in BOOLEAN, manifest \in Manifests :
               Verify(m, compiles, correct, manifest)
        \/ Commit(m)
        \/ MigrationRollback(m)
        \/ Abort(m)

MigrationSpec == MigrationInit /\ [][MigrationNext]_migrationVars

-----------------------------------------------------------------------------
(* Properties *)

PassedGates(m) ==
    /\ Planned(m)
    /\ migration[m].compileVerified /\ migration[m].correctnessVerified
    /\ migration[m].artifact # NoArtifact
    /\ migration[m].manifest # NoManifest

(***************************************************************************)
(* No sequence of repeated, failed or aborted verifications leads past     *)
(* SHADOW_BUILT without both gates passed in one and the same call, on an  *)
(* artifact that was built: a later failed call never leaves an earlier    *)
(* pass in force, and a committed migration still shows its evidence.      *)
(***************************************************************************)
GatesGuardCommit ==
    \A m \in Migrations : Planned(m) =>
        /\ migration[m].state \in {"VERIFIED", "COMMITTED", "ROLLED_BACK"} => PassedGates(m)
        /\ migration[m].state \in {"PLANNED", "SHADOW_BUILT"} => ~PassedGates(m)
        /\ migration[m].state = "SHADOW_BUILT" => migration[m].artifact # NoArtifact

(***************************************************************************)
(* What was verified is what is committed and rolled back: from VERIFIED   *)
(* on, the identities and the evidence are frozen, ABORTED and ROLLED_BACK *)
(* are final, and COMMITTED is left only for ROLLED_BACK.                  *)
(***************************************************************************)
EvidenceOf(m) == [migration[m] EXCEPT !.state = "VERIFIED"]

VerifiedEvidenceFrozen ==
    [][\A m \in Migrations : PassedGates(m) =>
          /\ EvidenceOf(m)' = EvidenceOf(m)
          /\ <<migration[m].state, migration'[m].state>> \in
                 {<<st, st>> : st \in MigrationStates} \cup
                 {<<"VERIFIED", "COMMITTED">>, <<"VERIFIED", "ABORTED">>,
                  <<"COMMITTED", "ROLLED_BACK">>}]_migrationVars

=============================================================================
