--------------------------- MODULE ArtifactRouter ---------------------------
(***************************************************************************)
(* backend/app/dataplane.py: VersionedArtifactRouter, the local data       *)
(* plane.  A deployment routes readers to one immutable artifact version,  *)
(* may hold one staged version, and keeps the replaced ones on a stack.    *)
(* Every method runs under one RLock, so a method is one action.           *)
(***************************************************************************)
EXTENDS AdaptationData, Sequences

CONSTANTS
    Deployments,    \* deployment ids
    Origins,        \* the caller's metadata: where a version came from
    Generations,    \* generation numbers (a finite prefix for TLC)
    Readers,        \* holders of a ReadLease
    NoDeployment, NoVersion

ASSUME GenerationsAssumption == Generations \subseteq Nat /\ 1 \in Generations

VARIABLES
    deployment,     \* _deployments: id -> record, NoDeployment before bootstrap
    lease           \* the version each reader holds, per deployment

routerVars == <<deployment, lease>>

Versions ==
    [ generation : Generations,
      candidate  : Candidates,
      artifact   : Artifacts,
      manifest   : Manifests \cup {NoManifest},
      origin     : Origins ]

DeploymentRecords ==
    [ active        : Versions,
      staged        : Versions \cup {NoVersion},
      rollbackStack : Seq(Versions) ]

ASSUME NoDeploymentAssumption == NoDeployment \notin DeploymentRecords
ASSUME NoVersionAssumption == NoVersion \notin Versions

RouterTypeOK ==
    /\ deployment \in [Deployments -> DeploymentRecords \cup {NoDeployment}]
    /\ lease \in [Readers -> [Deployments -> Versions \cup {NoVersion}]]

Deployed(d) == deployment[d] # NoDeployment
Active(d) == deployment[d].active
Staged(d) == deployment[d].staged
RollbackDepth(d) == Len(deployment[d].rollbackStack)

-----------------------------------------------------------------------------
(* The methods.  Generations is the only bound: a finite set stops Stage   *)
(* and Rollback when the next number is not in it.                         *)

Bootstrap(d, candidate, artifact, manifest, origin) ==
    /\ ~Deployed(d)
    /\ deployment' = [deployment EXCEPT ![d] =
           [ active |-> [ generation |-> 1, candidate |-> candidate, artifact |-> artifact,
                          manifest |-> manifest, origin |-> origin ],
             staged |-> NoVersion,
             rollbackStack |-> <<>> ]]
    /\ UNCHANGED lease

\* Seeded fault: the active candidate can be staged again.
StageOk_SameCandidate(d, candidate) ==
    /\ Deployed(d)
    /\ Staged(d) = NoVersion

StageOk(d, candidate) ==
    /\ Deployed(d)
    /\ candidate # Active(d).candidate
    /\ Staged(d) = NoVersion

Stage(d, candidate, artifact, manifest, origin) ==
    /\ StageOk(d, candidate)
    /\ Active(d).generation + 1 \in Generations
    /\ deployment' = [deployment EXCEPT ![d].staged =
           [ generation |-> Active(d).generation + 1, candidate |-> candidate,
             artifact |-> artifact, manifest |-> manifest, origin |-> origin ]]
    /\ UNCHANGED lease

ActivateOk(d, from, to) ==
    /\ Deployed(d)
    /\ Active(d).candidate = from
    /\ Staged(d) # NoVersion
    /\ Staged(d).candidate = to

Activated(r) ==
    [ active        |-> r.staged,
      staged        |-> NoVersion,
      rollbackStack |-> Append(r.rollbackStack, r.active) ]

Activate(d, from, to) ==
    /\ ActivateOk(d, from, to)
    /\ deployment' = [deployment EXCEPT ![d] = Activated(@)]
    /\ UNCHANGED lease

AbortStagedOk(d) == Deployed(d) /\ Staged(d) # NoVersion

AbortStaged(d) ==
    /\ AbortStagedOk(d)
    /\ deployment' = [deployment EXCEPT ![d].staged = NoVersion]
    /\ UNCHANGED lease

RouterRollbackOk(d) == Deployed(d) /\ RollbackDepth(d) > 0

\* Seeded fault: the staged version survives the rollback.
Restored_KeepsStaged(r) ==
    LET depth == Len(r.rollbackStack) IN
    [ active        |-> [r.rollbackStack[depth] EXCEPT !.generation = r.active.generation + 1],
      staged        |-> r.staged,
      rollbackStack |-> SubSeq(r.rollbackStack, 1, depth - 1) ]

\* Seeded fault: the restored version goes back to its old generation.
Restored_OldGeneration(r) ==
    LET depth == Len(r.rollbackStack) IN
    [ active        |-> r.rollbackStack[depth],
      staged        |-> NoVersion,
      rollbackStack |-> SubSeq(r.rollbackStack, 1, depth - 1) ]

\* The restored version is a new generation with the old identity.
Restored(r) ==
    LET depth == Len(r.rollbackStack) IN
    [ active        |-> [r.rollbackStack[depth] EXCEPT !.generation = r.active.generation + 1],
      staged        |-> NoVersion,
      rollbackStack |-> SubSeq(r.rollbackStack, 1, depth - 1) ]

RouterRollback(d) ==
    /\ RouterRollbackOk(d)
    /\ Active(d).generation + 1 \in Generations
    /\ deployment' = [deployment EXCEPT ![d] = Restored(@)]
    /\ UNCHANGED lease

Lease(reader, d) ==
    /\ Deployed(d)
    /\ lease' = [lease EXCEPT ![reader][d] = Active(d)]
    /\ UNCHANGED deployment

-----------------------------------------------------------------------------
RouterInit ==
    /\ deployment = [d \in Deployments |-> NoDeployment]
    /\ lease = [reader \in Readers |-> [d \in Deployments |-> NoVersion]]

RouterNext ==
    \E d \in Deployments :
        \/ \E candidate \in Candidates, artifact \in Artifacts,
              manifest \in Manifests \cup {NoManifest}, origin \in Origins :
               Bootstrap(d, candidate, artifact, manifest, origin)
        \/ \E candidate \in Candidates, artifact \in Artifacts,
              manifest \in Manifests, origin \in Origins :
               Stage(d, candidate, artifact, manifest, origin)
        \/ \E from, to \in Candidates : Activate(d, from, to)
        \/ AbortStaged(d)
        \/ RouterRollback(d)
        \/ \E reader \in Readers : Lease(reader, d)

RouterSpec == RouterInit /\ [][RouterNext]_routerVars

-----------------------------------------------------------------------------
(* Properties *)

(***************************************************************************)
(* A staged version stays activatable however long it waits: it is the     *)
(* successor of the version that is active now, not of the one that was    *)
(* active when it was staged, and it would change the candidate.           *)
(***************************************************************************)
SuccessorStaged(r) ==
    r.staged # NoVersion =>
        /\ r.staged.generation = r.active.generation + 1
        /\ r.staged.candidate # r.active.candidate

StagedIsSuccessor == \A d \in Deployments : Deployed(d) => SuccessorStaged(deployment[d])

(***************************************************************************)
(* The rollback stack is a history: generations grow towards the active    *)
(* version, and each entry has another candidate than its successor, so a  *)
(* rollback always changes the candidate that readers are routed to.       *)
(***************************************************************************)
Precedes(v, w) == v.generation < w.generation /\ v.candidate # w.candidate

HistoryStacked(r) ==
    LET stack == r.rollbackStack IN
    /\ \A i \in 1 .. Len(stack) - 1 : Precedes(stack[i], stack[i + 1])
    /\ Len(stack) > 0 => Precedes(stack[Len(stack)], r.active)

StackIsHistory == \A d \in Deployments : Deployed(d) => HistoryStacked(deployment[d])

(***************************************************************************)
(* A version without verification manifest can only be the bootstrap one:  *)
(* it lies at the bottom of the stack, or is active over an empty stack.   *)
(***************************************************************************)
UnverifiedAtBottom(r) ==
    /\ r.active.manifest = NoManifest => Len(r.rollbackStack) = 0
    /\ \A i \in 1 .. Len(r.rollbackStack) : r.rollbackStack[i].manifest = NoManifest => i = 1
    /\ r.staged # NoVersion => r.staged.manifest # NoManifest

OnlyBootstrapUnverified == \A d \in Deployments : Deployed(d) => UnverifiedAtBottom(deployment[d])

(***************************************************************************)
(* A generation number names one routed version for ever: readers that     *)
(* hold leases of the same generation, or of the active one, hold the same *)
(* version, whatever was staged, aborted or rolled back in between.        *)
(***************************************************************************)
Routed(d) ==
    {Active(d)} \cup ({lease[reader][d] : reader \in Readers} \ {NoVersion})

GenerationNamesVersion ==
    \A d \in Deployments : Deployed(d) =>
        \A v, w \in Routed(d) :
            /\ v.generation = w.generation => v = w
            /\ v.generation <= Active(d).generation

\* The routed generation grows by one at each change, in both directions of
\* candidate identity: "version ordering remains monotonic".
GenerationMonotonic ==
    [][\A d \in Deployments :
          Deployed(d) /\ Active(d)' # Active(d) =>
              Active(d)'.generation = Active(d).generation + 1]_routerVars

=============================================================================
