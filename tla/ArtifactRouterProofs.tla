------------------------ MODULE ArtifactRouterProofs ------------------------
(***************************************************************************)
(* The data plane's invariants, for every number of deployments, readers   *)
(* and generations.  As in RuntimeControllerProofs, lemmas about records   *)
(* come first and are lifted to the table of deployments.                  *)
(***************************************************************************)
EXTENDS ArtifactRouter, SequenceTheorems, TLAPS

(***************************************************************************)
(* The inductive invariant of one deployment: its type and the three       *)
(* record properties.  The stack must be a history for a rollback to leave *)
(* a history, and a staged version must be a successor for an activation   *)
(* to extend it.                                                           *)
(***************************************************************************)
RecordOK(r) ==
    /\ r \in DeploymentRecords
    /\ SuccessorStaged(r)
    /\ HistoryStacked(r)
    /\ UnverifiedAtBottom(r)

\* Generation numbers are a contiguous range from 1.
LEMMA GenerationsAreNaturals == \A n \in Generations : n \in Nat
BY GenerationsAssumption

\* A prefix of a sequence.
LEMMA Prefix ==
    ASSUME NEW S, NEW seq \in Seq(S), NEW n \in Nat, n <= Len(seq)
    PROVE  /\ SubSeq(seq, 1, n) \in Seq(S)
           /\ Len(SubSeq(seq, 1, n)) = n
           /\ \A i \in 1 .. n : SubSeq(seq, 1, n)[i] = seq[i]
<1>1. \A i \in 1 .. n : i \in 1 .. Len(seq) /\ seq[i] \in S
  BY LenProperties, ElementOfSeq
<1>2. /\ SubSeq(seq, 1, n) \in Seq(S)
      /\ Len(SubSeq(seq, 1, n)) = IF 1 <= n THEN n - 1 + 1 ELSE 0
      /\ \A i \in 1 .. n - 1 + 1 : SubSeq(seq, 1, n)[i] = seq[1 + i - 1]
  BY <1>1, SubSeqProperties
<1> QED BY <1>2

\* bootstrap
LEMMA BootstrapRecord ==
    ASSUME NEW v \in Versions
    PROVE  RecordOK([active |-> v, staged |-> NoVersion, rollbackStack |-> <<>>])
<1> DEFINE r == [active |-> v, staged |-> NoVersion, rollbackStack |-> <<>>]
<1>1. r \in DeploymentRecords
  BY EmptySeq DEF DeploymentRecords
<1>2. Len(r.rollbackStack) = 0
  OBVIOUS
<1>3. SuccessorStaged(r)
  BY DEF SuccessorStaged
<1>4. HistoryStacked(r)
  BY <1>2 DEF HistoryStacked
<1>5. UnverifiedAtBottom(r)
  BY <1>2 DEF UnverifiedAtBottom
<1> QED BY <1>1, <1>3, <1>4, <1>5 DEF RecordOK

\* stage and abort_staged
LEMMA StagedRecord ==
    ASSUME NEW r, RecordOK(r), NEW v,
           \/ v = NoVersion
           \/ /\ v \in Versions
              /\ v.generation = r.active.generation + 1
              /\ v.candidate # r.active.candidate
              /\ v.manifest # NoManifest
    PROVE  RecordOK([r EXCEPT !.staged = v])
<1> DEFINE q == [r EXCEPT !.staged = v]
<1>1. r \in DeploymentRecords
  BY DEF RecordOK
<1>2. /\ q \in DeploymentRecords
      /\ q.active = r.active /\ q.rollbackStack = r.rollbackStack /\ q.staged = v
  BY <1>1 DEF DeploymentRecords
<1>3. SuccessorStaged(q) /\ HistoryStacked(q) /\ UnverifiedAtBottom(q)
  BY <1>2 DEF RecordOK, SuccessorStaged, HistoryStacked, UnverifiedAtBottom
<1> QED BY <1>2, <1>3 DEF RecordOK

\* activate: the replaced version is pushed on the history.
LEMMA ActivatedRecord ==
    ASSUME NEW r, RecordOK(r), r.staged # NoVersion
    PROVE  RecordOK(Activated(r))
<1> DEFINE stack == r.rollbackStack
           q == Activated(r)
<1>1. r.active \in Versions /\ r.staged \in Versions /\ stack \in Seq(Versions)
  BY DEF RecordOK, DeploymentRecords
<1>2. q.active = r.staged /\ q.staged = NoVersion /\ q.rollbackStack = Append(stack, r.active)
  BY DEF Activated
<1>3. /\ Len(stack) \in Nat
      /\ Append(stack, r.active) \in Seq(Versions)
      /\ Len(Append(stack, r.active)) = Len(stack) + 1
      /\ \A i \in 1 .. Len(stack) : Append(stack, r.active)[i] = stack[i]
      /\ Append(stack, r.active)[Len(stack) + 1] = r.active
  BY <1>1
<1>4. q \in DeploymentRecords
  BY <1>1, <1>3 DEF Activated, DeploymentRecords
<1>5. SuccessorStaged(q)
  BY <1>2 DEF SuccessorStaged
<1>6. HistoryStacked(q)
  <2>1. r.active.generation \in Nat
    BY <1>1, GenerationsAreNaturals DEF Versions
  <2>2. Precedes(r.active, r.staged)
    BY <2>1 DEF RecordOK, SuccessorStaged, Precedes
  <2>3. ASSUME NEW i \in 1 .. Len(stack)
        PROVE  Precedes(q.rollbackStack[i], q.rollbackStack[i + 1])
    <3>1. CASE i = Len(stack)
      BY <1>2, <1>3, <2>3, <3>1 DEF RecordOK, HistoryStacked
    <3>2. CASE i # Len(stack)
      <4>1. i \in 1 .. Len(stack) - 1 /\ i + 1 \in 1 .. Len(stack)
        BY <1>3, <2>3, <3>2
      <4> QED BY <1>2, <1>3, <4>1 DEF RecordOK, HistoryStacked
    <3> QED BY <3>1, <3>2
  <2> QED BY <1>2, <1>3, <2>2, <2>3 DEF HistoryStacked
<1>7. UnverifiedAtBottom(q)
  <2>1. r.staged.manifest # NoManifest
    BY DEF RecordOK, UnverifiedAtBottom
  <2>2. ASSUME NEW i \in 1 .. Len(stack) + 1, q.rollbackStack[i].manifest = NoManifest
        PROVE  i = 1
    <3>1. CASE i = Len(stack) + 1
      BY <1>2, <1>3, <2>2, <3>1 DEF RecordOK, UnverifiedAtBottom
    <3>2. CASE i # Len(stack) + 1
      <4>1. i \in 1 .. Len(stack)
        BY <1>3, <2>2, <3>2
      <4> QED BY <1>2, <1>3, <2>2, <4>1 DEF RecordOK, UnverifiedAtBottom
    <3> QED BY <3>1, <3>2
  <2> QED BY <1>2, <1>3, <2>1, <2>2 DEF UnverifiedAtBottom
<1> QED BY <1>4, <1>5, <1>6, <1>7 DEF RecordOK

\* rollback: the top of the stack comes back as a new generation.
LEMMA RestoredRecord ==
    ASSUME NEW r, RecordOK(r), Len(r.rollbackStack) > 0, r.active.generation + 1 \in Generations
    PROVE  /\ RecordOK(Restored(r))
           /\ Restored(r).active.generation = r.active.generation + 1
<1> DEFINE stack == r.rollbackStack
           depth == Len(stack)
           q == Restored(r)
<1>1. r.active \in Versions /\ stack \in Seq(Versions)
  BY DEF RecordOK, DeploymentRecords
<1>2. depth \in Nat /\ depth \in 1 .. depth /\ \A i \in 1 .. depth : stack[i] \in Versions
  BY <1>1, ElementOfSeq, LenProperties
<1>3. /\ SubSeq(stack, 1, depth - 1) \in Seq(Versions)
      /\ Len(SubSeq(stack, 1, depth - 1)) = depth - 1
      /\ \A i \in 1 .. depth - 1 : SubSeq(stack, 1, depth - 1)[i] = stack[i]
  <2>1. depth - 1 \in Nat /\ depth - 1 <= Len(stack)
    BY <1>2
  <2> QED BY <1>1, <2>1, Prefix
<1>4. /\ q.active = [stack[depth] EXCEPT !.generation = r.active.generation + 1]
      /\ q.staged = NoVersion
      /\ q.rollbackStack = SubSeq(stack, 1, depth - 1)
  BY DEF Restored
<1>5. /\ q.active \in Versions
      /\ q.active.generation = r.active.generation + 1
      /\ q.active.candidate = stack[depth].candidate
      /\ q.active.manifest = stack[depth].manifest
  BY <1>2, <1>4 DEF Versions
<1>6. q \in DeploymentRecords
  BY <1>3, <1>5 DEF Restored, DeploymentRecords
<1>7. SuccessorStaged(q)
  BY <1>4 DEF SuccessorStaged
<1>8. HistoryStacked(q)
  <2>1. ASSUME NEW i \in 1 .. depth - 2
        PROVE  Precedes(q.rollbackStack[i], q.rollbackStack[i + 1])
    <3>1. i \in 1 .. depth - 1 /\ i + 1 \in 1 .. depth - 1
      BY <1>2, <2>1
    <3> QED BY <1>3, <1>4, <3>1 DEF RecordOK, HistoryStacked
  <2>2. ASSUME depth - 1 > 0
        PROVE  Precedes(q.rollbackStack[depth - 1], q.active)
    <3>1. depth - 1 \in 1 .. depth - 1 /\ (depth - 1) + 1 = depth
      BY <1>2, <2>2
    <3>2. Precedes(stack[depth - 1], stack[depth]) /\ Precedes(stack[depth], r.active)
      BY <3>1 DEF RecordOK, HistoryStacked
    <3>3. /\ stack[depth - 1].generation \in Nat
          /\ stack[depth].generation \in Nat
          /\ r.active.generation \in Nat
      <4>1. stack[depth - 1] \in Versions /\ stack[depth] \in Versions /\ r.active \in Versions
        BY <1>1, <1>2, <3>1, ElementOfSeq
      <4>2. \A v \in Versions : v.generation \in Nat
        BY GenerationsAreNaturals DEF Versions
      <4> QED BY <4>1, <4>2
    <3>4. Precedes(stack[depth - 1], q.active)
      BY <1>5, <3>2, <3>3 DEF Precedes
    <3> QED BY <1>3, <1>4, <3>1, <3>4
  <2>3. Len(q.rollbackStack) = depth - 1
    BY <1>3, <1>4
  <2> QED BY <1>2, <2>1, <2>2, <2>3 DEF HistoryStacked
<1>9. UnverifiedAtBottom(q)
  <2>0. \A i \in 1 .. depth : stack[i].manifest = NoManifest => i = 1
    BY DEF RecordOK, UnverifiedAtBottom
  <2>1. stack[depth].manifest = NoManifest => depth = 1
    BY <1>2, <2>0
  <2>2. \A i \in 1 .. depth - 1 : stack[i].manifest = NoManifest => i = 1
    BY <1>2, <2>0
  <2>3. q.active.manifest = NoManifest => Len(q.rollbackStack) = 0
    BY <1>3, <1>4, <1>5, <2>1
  <2> QED BY <1>3, <1>4, <2>2, <2>3 DEF UnverifiedAtBottom
<1> QED BY <1>5, <1>6, <1>7, <1>8, <1>9 DEF RecordOK

-----------------------------------------------------------------------------
(***************************************************************************)
(* The inductive invariant.  Leases outlive the versions they were taken   *)
(* of, so their generations are compared with the active one: what is      *)
(* routed next has a greater generation than any lease ever handed out.    *)
(***************************************************************************)
LeasesAreOld(d) ==
    \A x \in Readers : lease[x][d] # NoVersion =>
        /\ Deployed(d)
        /\ lease[x][d].generation <= Active(d).generation
        /\ lease[x][d].generation = Active(d).generation => lease[x][d] = Active(d)

LeasesAgree(d) ==
    \A x, y \in Readers :
        /\ lease[x][d] # NoVersion
        /\ lease[y][d] # NoVersion
        /\ lease[x][d].generation = lease[y][d].generation
        => lease[x][d] = lease[y][d]

RouterInv ==
    /\ RouterTypeOK
    /\ \A d \in Deployments : Deployed(d) => RecordOK(deployment[d])
    /\ \A d \in Deployments : LeasesAreOld(d) /\ LeasesAgree(d)

\* One step of GenerationMonotonic.
GenerationGrows ==
    \A d \in Deployments :
        Deployed(d) /\ Active(d)' # Active(d) =>
            Active(d)'.generation = Active(d).generation + 1

\* No deployment, no lease: nothing to satisfy.
LEMMA RouterInvInit == RouterInit => RouterInv
BY DEF RouterInit, RouterInv, RouterTypeOK, Deployed, LeasesAreOld, LeasesAgree

\* Replacing one deployment's record: by one that satisfies RecordOK, and
\* that routes to the same version as before or to a newer generation.
LEMMA ReplaceDeployment ==
    ASSUME RouterInv, NEW d \in Deployments, NEW q, RecordOK(q),
           Deployed(d) => \/ q.active = Active(d)
                          \/ q.active.generation = Active(d).generation + 1,
           deployment' = [deployment EXCEPT ![d] = q], UNCHANGED lease
    PROVE  RouterInv' /\ GenerationGrows
<1>1. /\ deployment \in [Deployments -> DeploymentRecords \cup {NoDeployment}]
      /\ lease \in [Readers -> [Deployments -> Versions \cup {NoVersion}]]
      /\ q \in DeploymentRecords /\ q # NoDeployment
  BY NoDeploymentAssumption DEF RouterInv, RouterTypeOK, RecordOK
<1>2. \A k \in Deployments : deployment'[k] = IF k = d THEN q ELSE deployment[k]
  BY <1>1
<1>3. RouterTypeOK'
  BY <1>1 DEF RouterTypeOK
<1>4. \A k \in Deployments : Deployed(k)' => RecordOK(deployment'[k])
  BY <1>2 DEF RouterInv, Deployed
<1>5. ASSUME NEW k \in Deployments
      PROVE  LeasesAreOld(k)' /\ LeasesAgree(k)'
  <2>1. LeasesAgree(k)'
    BY DEF RouterInv, LeasesAgree
  <2>2. CASE k # d
    BY <1>2, <2>1, <2>2 DEF RouterInv, LeasesAreOld, Deployed, Active
  <2>3. CASE k = d
    <3>1. ASSUME NEW x \in Readers, lease[x][d] # NoVersion
          PROVE  /\ lease[x][d].generation <= q.active.generation
                 /\ lease[x][d].generation = q.active.generation => lease[x][d] = q.active
      <4>1. /\ Deployed(d)
            /\ lease[x][d].generation <= Active(d).generation
            /\ lease[x][d].generation = Active(d).generation => lease[x][d] = Active(d)
        BY <3>1 DEF RouterInv, LeasesAreOld
      <4>2. lease[x][d] \in Versions /\ Active(d) \in Versions
        BY <1>1, <3>1, <4>1 DEF Deployed, Active, DeploymentRecords
      <4>3. lease[x][d].generation \in Nat /\ Active(d).generation \in Nat
        BY <4>2, GenerationsAreNaturals DEF Versions
      <4> QED BY <4>1, <4>3
    <3>2. deployment'[k] = q /\ Deployed(k)' /\ Active(k)' = q.active
      BY <1>1, <1>2, <2>3 DEF Deployed, Active
    <3> QED BY <2>1, <2>3, <3>1, <3>2 DEF LeasesAreOld
  <2> QED BY <2>2, <2>3
<1>6. GenerationGrows
  BY <1>2 DEF GenerationGrows, Deployed, Active
<1> QED BY <1>3, <1>4, <1>5, <1>6 DEF RouterInv

\* A reader takes a lease of the active version.
LEMMA LeaseInv ==
    ASSUME RouterInv, NEW d \in Deployments, NEW reader \in Readers, Lease(reader, d)
    PROVE  RouterInv' /\ GenerationGrows
<1>1. /\ deployment \in [Deployments -> DeploymentRecords \cup {NoDeployment}]
      /\ lease \in [Readers -> [Deployments -> Versions \cup {NoVersion}]]
      /\ Active(d) \in Versions
  BY DEF RouterInv, RouterTypeOK, Lease, Deployed, Active, DeploymentRecords
<1>2. \A x \in Readers, k \in Deployments :
         lease'[x][k] = IF x = reader /\ k = d THEN Active(d) ELSE lease[x][k]
  BY <1>1 DEF Lease
<1>3. RouterTypeOK'
  BY <1>1 DEF RouterTypeOK, Lease
<1>4. \A k \in Deployments : (Deployed(k)' <=> Deployed(k)) /\ Active(k)' = Active(k)
  BY DEF Lease, Deployed, Active
<1>5. \A k \in Deployments : Deployed(k)' => RecordOK(deployment'[k])
  BY DEF RouterInv, Lease, Deployed
<1>6. Active(d).generation \in Nat
  BY <1>1, GenerationsAreNaturals DEF Versions
<1>7. ASSUME NEW k \in Deployments
      PROVE  LeasesAreOld(k)'
  BY <1>2, <1>4, <1>6 DEF RouterInv, LeasesAreOld, Lease
<1>8. ASSUME NEW k \in Deployments
      PROVE  LeasesAgree(k)'
  BY <1>2 DEF RouterInv, LeasesAreOld, LeasesAgree
<1> QED BY <1>3, <1>4, <1>5, <1>7, <1>8 DEF RouterInv, GenerationGrows

-----------------------------------------------------------------------------
\* Every method of VersionedArtifactRouter preserves the invariant.
LEMMA RouterInvNext ==
    RouterInv /\ [RouterNext]_routerVars => RouterInv' /\ GenerationGrows
<1> SUFFICES ASSUME RouterInv, [RouterNext]_routerVars PROVE RouterInv' /\ GenerationGrows
  OBVIOUS
<1>0. /\ RouterTypeOK
      /\ \A d \in Deployments : Deployed(d) => RecordOK(deployment[d])
  BY DEF RouterInv
<1>1. ASSUME NEW d \in Deployments, NEW candidate \in Candidates, NEW artifact \in Artifacts,
             NEW manifest \in Manifests \cup {NoManifest}, NEW origin \in Origins,
             Bootstrap(d, candidate, artifact, manifest, origin)
      PROVE  RouterInv' /\ GenerationGrows /\ GenerationGrows
  <2> DEFINE v == [ generation |-> 1, candidate |-> candidate, artifact |-> artifact,
                    manifest |-> manifest, origin |-> origin ]
  <2>1. v \in Versions
    BY GenerationsAssumption DEF Versions
  <2> QED BY <1>1, <2>1, BootstrapRecord, ReplaceDeployment DEF Bootstrap
<1>2. ASSUME NEW d \in Deployments, NEW candidate \in Candidates, NEW artifact \in Artifacts,
             NEW manifest \in Manifests, NEW origin \in Origins,
             Stage(d, candidate, artifact, manifest, origin)
      PROVE  RouterInv' /\ GenerationGrows /\ GenerationGrows
  <2> DEFINE v == [ generation |-> Active(d).generation + 1, candidate |-> candidate,
                    artifact |-> artifact, manifest |-> manifest, origin |-> origin ]
             q == [deployment[d] EXCEPT !.staged = v]
  <2>1. RecordOK(deployment[d]) /\ deployment[d] \in DeploymentRecords
    BY <1>0, <1>2 DEF Stage, StageOk, RecordOK
  <2>2. v \in Versions
    BY <1>2 DEF Stage, Versions
  <2>3. RecordOK(q)
    BY <1>2, <2>1, <2>2, NoManifestAssumption, StagedRecord DEF Stage, StageOk, Active
  <2>4. deployment' = [deployment EXCEPT ![d] = q] /\ UNCHANGED lease
    BY <1>0, <1>2 DEF Stage, RouterTypeOK
  <2>5. q.active = Active(d)
    BY <2>1 DEF DeploymentRecords, Active
  <2> QED BY <2>3, <2>4, <2>5, ReplaceDeployment
<1>3. ASSUME NEW d \in Deployments, NEW from \in Candidates, NEW to \in Candidates,
             Activate(d, from, to)
      PROVE  RouterInv' /\ GenerationGrows /\ GenerationGrows
  <2>1. RecordOK(deployment[d]) /\ deployment[d].staged # NoVersion
    BY <1>0, <1>3 DEF Activate, ActivateOk, Staged
  <2>2. RecordOK(Activated(deployment[d]))
    BY <2>1, ActivatedRecord
  <2>3. Activated(deployment[d]).active.generation = Active(d).generation + 1
    BY <2>1 DEF RecordOK, SuccessorStaged, Activated, Active
  <2> QED BY <1>3, <2>2, <2>3, ReplaceDeployment DEF Activate
<1>4. ASSUME NEW d \in Deployments, AbortStaged(d)
      PROVE  RouterInv' /\ GenerationGrows /\ GenerationGrows
  <2> DEFINE q == [deployment[d] EXCEPT !.staged = NoVersion]
  <2>1. RecordOK(deployment[d]) /\ deployment[d] \in DeploymentRecords
    BY <1>0, <1>4 DEF AbortStaged, AbortStagedOk, RecordOK
  <2>2. RecordOK(q)
    BY <2>1, StagedRecord
  <2>3. deployment' = [deployment EXCEPT ![d] = q] /\ UNCHANGED lease
    BY <1>0, <1>4 DEF AbortStaged, RouterTypeOK
  <2>4. q.active = Active(d)
    BY <2>1 DEF DeploymentRecords, Active
  <2> QED BY <2>2, <2>3, <2>4, ReplaceDeployment
<1>5. ASSUME NEW d \in Deployments, RouterRollback(d)
      PROVE  RouterInv' /\ GenerationGrows /\ GenerationGrows
  <2>1. /\ RecordOK(deployment[d])
        /\ Len(deployment[d].rollbackStack) > 0
        /\ deployment[d].active.generation + 1 \in Generations
    BY <1>0, <1>5 DEF RouterRollback, RouterRollbackOk, RollbackDepth, Active
  <2>2. /\ RecordOK(Restored(deployment[d]))
        /\ Restored(deployment[d]).active.generation = Active(d).generation + 1
    BY <2>1, RestoredRecord DEF Active
  <2> QED BY <1>5, <2>2, ReplaceDeployment DEF RouterRollback
<1>6. CASE RouterNext
  BY <1>1, <1>2, <1>3, <1>4, <1>5, <1>6, LeaseInv, Zenon DEF RouterNext
<1>7. CASE UNCHANGED routerVars
  BY <1>7 DEF routerVars, RouterInv, RouterTypeOK, Deployed, LeasesAreOld, LeasesAgree, Active,
              GenerationGrows
<1> QED BY <1>6, <1>7

-----------------------------------------------------------------------------
\* The inductive invariant of the router (dataplane.py): each deployment's
\* record is consistent and no lease is newer than, or differs from, what its
\* generation number named.
THEOREM RouterInvariant == RouterSpec => []RouterInv
BY RouterInvInit, RouterInvNext, PTL DEF RouterSpec

\* A staged version stays activatable however long it waits.
THEOREM StagedStaysActivatable == RouterSpec => []StagedIsSuccessor
<1>1. RouterInv => StagedIsSuccessor
  BY DEF RouterInv, StagedIsSuccessor, RecordOK
<1> QED BY <1>1, RouterInvariant, PTL

(***************************************************************************)
(* Whatever is staged, activated, aborted and rolled back: the stack is    *)
(* the history of the routed versions, and a rollback changes the          *)
(* candidate.                                                              *)
(***************************************************************************)
THEOREM StackKeepsHistory == RouterSpec => []StackIsHistory
<1>1. RouterInv => StackIsHistory
  BY DEF RouterInv, StackIsHistory, RecordOK
<1> QED BY <1>1, RouterInvariant, PTL

\* Only the bootstrap version can be routed without a manifest.
THEOREM VerifiedAboveBootstrap == RouterSpec => []OnlyBootstrapUnverified
<1>1. RouterInv => OnlyBootstrapUnverified
  BY DEF RouterInv, OnlyBootstrapUnverified, RecordOK
<1> QED BY <1>1, RouterInvariant, PTL

(***************************************************************************)
(* Readers that hold leases of one generation hold the same version,       *)
(* however many readers there are and however old their leases.            *)
(***************************************************************************)
THEOREM GenerationsName == RouterSpec => []GenerationNamesVersion
<1>1. RouterInv => GenerationNamesVersion
  <2> SUFFICES ASSUME RouterInv, NEW d \in Deployments, Deployed(d),
                      NEW v \in Routed(d), NEW w \in Routed(d)
               PROVE  /\ v.generation = w.generation => v = w
                      /\ v.generation <= Active(d).generation
    BY DEF GenerationNamesVersion
  <2>1. LeasesAreOld(d) /\ LeasesAgree(d)
    BY DEF RouterInv
  <2>2. Active(d) \in Versions
    BY DEF RouterInv, RouterTypeOK, Deployed, Active, DeploymentRecords
  <2>3. Active(d).generation \in Nat
    BY <2>2, GenerationsAreNaturals DEF Versions
  <2> QED BY <2>1, <2>3 DEF Routed, LeasesAreOld, LeasesAgree
<1> QED BY <1>1, RouterInvariant, PTL

(***************************************************************************)
(* The routed generation grows by one at each change, in both directions:  *)
(* a rollback is a new generation too.                                     *)
(***************************************************************************)
THEOREM GenerationIsMonotonic == RouterSpec => GenerationMonotonic
<1>1. RouterInv /\ [RouterNext]_routerVars => [GenerationGrows]_routerVars
  BY RouterInvNext
<1> QED BY <1>1, RouterInvariant, PTL DEF RouterSpec, GenerationMonotonic, GenerationGrows

=============================================================================
