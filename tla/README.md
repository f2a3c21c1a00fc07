# Verification of the MORPHEUS control plane

MORPHEUS synthesises a data structure configuration for a workload, builds it
as C++, verifies it, and then *adapts*: it observes the workload of a running
session, recommends another candidate, shadows and verifies a replacement and
switches the session, the routed artifact and a migration ledger over to it.
Around that, a pilot endpoint makes synthesis safe to retry, with a journal of
idempotency keys, a store with a hash-chained evidence ledger and an operator's
command for requests whose outcome is unknown; and a worker runs bounded jobs
as child processes. Processes of one host hand over to one another through files:
signed heads and receipts, a fenced resource and a recovery anchor. A C++ core
publishes and rolls back the versions of an index.

This directory models the parts whose correctness is a matter of order:
interleavings of request threads and processes, crashes and failures between
two steps, stale reads and long sequences of legal calls. The numeric parts
(cost model, calibration, search) and the code generator are inputs of these
models.

Paths below are relative to `src/`; `app/` stands for `backend/app/`.

## 1. The system

| Component | State | Operations | Interacts with |
|---|---|---|---|
| Runtime adaptation controller, `app/runtime.py` | a session per id: active candidate, baseline mix, sequence of the last switch and of the last observation, pending recommendation with its snapshot, one rollback checkpoint | `start`, `observe`, `confirm`, `rollback_last_switch`, `abort_pending`, one `RLock` around each | called by the orchestrators and by endpoints directly |
| Migration ledger, `app/migration.py` | a record per migration: source, target, state, artifact, manifest and the two gate verdicts | `plan`, `shadow_built`, `verify`, `commit`, `rollback`, `abort`, one `RLock` around each | as above |
| Local data plane, `app/dataplane.py` | per deployment: active version with a generation number, staged version, rollback stack | `bootstrap`, `stage`, `activate`, `abort_staged`, `rollback`, `lease` | readers hold leases; called by the v2 orchestrator and `/dataplane/bootstrap` |
| Adaptation orchestrators, `app/adaptation_orchestrator.py` | bindings of sessions to deployments, an `RLock` | `plan_pending`, `bind_deployment`, `stage_verified_migration`, `authorize_commit` with its compensation, `abort`, `rollback` | two instances over the same controllers: `ADAPTATION` in `main.py` (no data plane) and `ADAPTATION_V2` in `advanced_api.py` |
| Idempotency journal, `app/idempotency.py` | a SQLite record per (operation, key): digest, PENDING / COMPLETED / AMBIGUOUS_FAILURE, response; permanent resolutions | `claim`, `complete`, `mark_ambiguous_failure`, `release_pending_without_side_effect`, two resolutions | pilot endpoint, operator script (another process) |
| Pilot synthesis endpoint, `app/pilot_api.py` | none of its own | claim, synthesise, persist, complete | journal, state store |
| State store and evidence ledger, `app/storage.py` | SQLite: workloads, runs, artifacts, links, audit events, hash-chained ledger | `save_synthesis`, `store_artifact`, `link_run_artifact`, `append_evidence`, `record_event`, `verify_evidence_ledger` | every endpoint, the operator script |
| Job worker, `app/job_worker.py` | a job table, a bounded executor, a child process per job | `submit`, `cancel`, `_run`, `shutdown` | a library class; in this repository only its tests construct it |
| Transfer heads and restarts, `app/process_transfer_{head,persistence,restart}.py` | a head file with a lock file beside it, a bundle file | `persist_..._bundle`, `advance_process_transfer_head` (compare and swap under the lock file), `verify_persisted_process_transfer_restart` | processes of one host; a crash leaves the lock file |
| Fenced restarts, `app/process_transfer_fencing*.py` and the token checks of the protected resource | a receipt file, the highest generation of the resource | claim a generation, verify the files, persist and load receipts, currentness checks, `validate_fencing_token` | an external fencing authority; the files above |
| Fenced SQLite resource, `app/process_transfer_protected_resource_fencing_{sqlite,sqlite_resource,sqlite_snapshot,atomic}.py` | a fencing row and a resource row | `mutate`, `conditional_write`, `snapshot_pair` | processes that may be terminated inside a transaction |
| Data plane recovery anchor, `app/dataplane_recovery_anchor*.py` | the anchor file with the expected head of the checkpoint lineage, a lock file with an owner token | publish, verify a successor, advance under either lock | processes of one host |
| Operational metrics, `app/operational_metrics.py` | counters and a bounded route table under a lock | `begin`, `finish` | every request |
| C++ publication, `core/include/morpheus/{versioned_slot,erased_versioned_slot,migration_publish}.hpp` | an atomic pointer to the active version, a rollback history under a mutex | activate, validated activation, exact rollback, retire, migrate and publish with a health gate | writer threads; readers keep what they lease |
| Everything else | files and reports | pure functions, batch programs | listed in `PROJECT.json` with the reason it is not modelled |

### What is hard

* **Interleaving.** Endpoints are `def` functions served by a thread pool. Every
  controller method is atomic, but an orchestrator operation is a sequence of
  such calls: between two of them any other request runs, including those that
  never take the orchestrator's lock (observe, confirm, rollback and abort of
  the runtime, shadow, verify).
* **Two coordinators.** `ADAPTATION` and `ADAPTATION_V2` share both controllers
  and no lock.
* **Partial failure.** A commit changes the route, the session and the ledger one
  after the other, each may refuse or raise, and the compensation may fail too.
* **Stale state.** A recommendation is confirmed long after the observation that
  justified it, a staged version is activated later, a checkpoint restored later.
* **Protocol sequences.** Stage, activate, roll back, stage again: generation
  numbers, the stack and the checkpoints must survive any legal order.
* **Crashes and retries.** A pilot request reserves its key, persists a run in
  three transactions and a ledger entry, and stores its response, in two
  databases with no transaction over both. The server may die, and any step may
  raise, in between; the client retries with the same key.
* **Two processes.** The operator's command works on the server's databases. The
  stores' `RLock`s do not reach across processes, and Python's `sqlite3` opens a
  transaction at the first write, so a SELECT before it is not part of it.
* **Files shared by processes.** Heads, receipts and anchors are replaced as whole
  files. Some writers take a lock file, which a crash leaves behind and an
  operator may remove; others take none.
* **Fencing.** A generation is claimed from a service that may answer late, not at
  all or with another value, before the files it covers are verified.
* **Check, then publish.** The C++ slot validates or rebuilds outside its mutex and
  compares versions afterwards; its health gate loads the active version twice.
* **Timeouts and cancellation.** A job's child ends, passes its deadline, fails to
  start or is cancelled, in any order, while the runner changes from one wait to
  the next.

## 2. Modules

| Module | Models | State | Actions |
|---|---|---|---|
| `AdaptationData` | candidates, artifacts, manifests shared by the others | - | - |
| `RuntimeController` | `app/runtime.py` | `session` (`_sessions`) | `Start`, `Observe`, `Confirm`, `RollbackLastSwitch`, `AbortPending` |
| `MigrationController` | `app/migration.py` | `migration` (`_migrations`) | `Plan`, `ShadowBuilt`, `Verify`, `Commit`, `MigrationRollback`, `Abort` |
| `ArtifactRouter` | `app/dataplane.py` | `deployment` (`_deployments`), `lease` (what readers hold) | `Bootstrap`, `Stage`, `Activate`, `AbortStaged`, `RouterRollback`, `Lease` |
| `AdaptationOrchestrator` | `app/adaptation_orchestrator.py` and the endpoints of `main.py` and `advanced_api.py` that reach it or a controller | the three above, `bound`, `lockHolder`, `call` (the locals of each request thread), `reported` | one action per controller call of each operation, `DirectRuntime`, `DirectMigration`, `DirectRouter` |
| `AtomicAdaptation` | what the orchestrator promises: sessions, routes and ledger change together | `current`, `routed`, `home`, `ledger` | `Begin`, `Deploy`, `Open`, `Close`, `Switch`, `Lose` |
| `IdempotencyJournal` | `app/idempotency.py` | `record`, `resolution` (the two tables) | `Reserve`, `Complete`, `MarkAmbiguousFailure`, `ReleasePending`, the checks and writes of both resolutions |
| `StateStore` | `app/storage.py`, what a synthesis run needs | `run`, `ledger` | `SaveRun`, `StoreCertificate`, `LinkCertificate`, `AppendEvidence` |
| `PilotSynthesis` | `app/pilot_api.py`, `app/pilot_idempotency_resolution.py`, `scripts/resolve_pilot_idempotency.py` over the two above | `call` (request threads), `work` (operator processes), `answered` | `Claim`, `Replay`, one action per step of the endpoint, `Restart`; `Examine` to `Apply` of the command, `Abandon` |
| `JobWorker` | `app/job_worker.py` | `job` (`_jobs`), `runner` (where `_run` is), `process` (the child), `client` (cancels between lock and kill), `open` | `Submit`, `Enqueue`, `Cancel`, `CancelKills`, `Shutdown`, `Exit`, and `Begin` to `FlagWorkspace` of `_run` |
| `PublicationSlot` | `versioned_slot.hpp`, `erased_versioned_slot.hpp`, `migration_publish.hpp` | `active` and history (the versions), what each writer holds | one action per atomic load or critical section: `ActivateValidated`, `MigrateAndPublish`, `CheckPublished`, `LeaseTarget`, `UndoPublication`, the rollbacks, `Retire` |
| `OperationalMetrics` | `app/operational_metrics.py` | the counters and the route table | `BeginRequest`, `FinishRequest` |
| `TransferHead` | `process_transfer_head.py`, `_persistence.py`, `_restart.py` | `head`, `bundleFile`, `headLock` (files), `transfer` (the locals of each process) | `PublishBundle`, `Ask`, `AcquireHeadLock`, `CheckAdvance`, `ReplaceHead`, `ReloadHead`, `CheckRestart`, `Crash`, `RemoveStaleLock` |
| `FencedRestart` | `process_transfer_fencing*.py` and the token check, over `TransferHead` | also `authority`, `receipt`, `highest` | `RequestClaim`, `ClaimGeneration`, `FenceVerified`, `PersistReceipt`, `LoadReceipt`, `ObserveCounter`, `Replayed`, `ObserveAgain`, `Consume`, `Reported` |
| `FencedResource` | the SQLite backends and the atomic adapter | `fencing`, `resource` (rows), `writing` (the open write transaction), `request`, `pair` | `Request` to `Commit` of `mutate`, `SnapshotVersion` and `ConditionalWrite`, `OpenPair` and `ReturnPair`, `Terminated` |
| `RecoveryAnchor` | `dataplane_recovery_anchor*.py` | `anchor`, `anchorLock` (files), `recovery` (locals of each process) | `PublishAnchor`, `VerifySuccessor`, `LockAnchor` to `UnlinkLock` of both locked advances, `CrashRecoverer`, `RemoveLock` |
| `MC...` | instances for TLC. Modules that share nothing run in one instance, one at a time: `focus`, `protocol` and `group`, chosen in the initial state, say which. `MCComponents` (sessions, router, slot, metrics), `MCHandover` (files and databases of one host) and `MCPilotSynthesis` are the groups of `MCStandalone`; `MCThreads` has the orchestrator and the job worker under fairness; `MCAdaptationOrchestrator` also holds the refinement mapping | | |
| `RuntimeControllerProofs`, `ArtifactRouterProofs`, `JobWorkerProofs`, `PublicationSlotProofs`, `PilotSynthesisProofs` | theorems about that module | | |
| `AdaptationOrchestratorProofs` | theorems about `MigrationController`, about `AdaptationOrchestrator` and about the commits and rollbacks of one orchestrator | | |
| `HandoverProofs` | theorems about `RecoveryAnchor`, `FencedRestart`, `FencedResource` and their union | | |
| `ComponentsProofs` | theorems about `OperationalMetrics`, and the types of `MCComponents` | | |

Correspondence, in short: one TLA+ action is one method under its `RLock`; a
method that raises changes nothing and is a disabled action (or, inside an
orchestrator operation, the alternative that leaves or compensates). Workload
mixes are abstract values and the distance of `workload_drift` is the constant
relation `DriftPairs`, so that every threshold is covered. Sequence numbers are
the integers of the observations. Artifacts and manifests are model values whose
identity is all the code uses. In `AdaptationOrchestrator` a thread's program
counter `call[t].at` stands at the next controller call; the locals it keeps are
those that a later step reads and that may be stale by then. `InjectFaults` lets
`confirm` and `commit` raise after they took effect, which is the failure that
`_compensate_failed_commit` is written for and that
the tests inject.

In the pilot's models a step is one journal method or one transaction of the
store, and every one of them may raise instead: then the state is unchanged and
the thread goes where the `except` clauses send it. `Restart` loses what all
request threads are doing and keeps the tables; `Abandon` is the operator's
command raising, or being killed, after any of its steps. `append_evidence` is a
read of the last entry and an append, since the SELECT precedes the transaction,
and the two resolutions are their reads (`...Checks`) and their write. Hashes are
the positions of what they are hashes of, keys and requests are model values, a
response is its status and the run it names. The history variable `answered`
collects what clients were told.

In `JobWorker` a step is a block under the worker's lock, or a call outside it
that waits or may raise. Time is left out: a deadline may pass whenever the child
is alive. `_terminate` kills the child in one step, since the code waits for it;
a child that outlives SIGKILL by a second is not modelled. The history variable
`wanted` holds the jobs that were cancelled before their child had ended.

A digest of a head or of a lineage fixes everything it was chained to, so it is
modelled as that whole sequence, and "the same digest" is equality of sequences.
A process of `TransferHead`, `FencedRestart` or `RecoveryAnchor` may crash between
any two steps, with its lock file in place; a read back after a replacement is a
step of its own, since others may write in between. The fencing authority is a
service outside the repository: a counter with compare-and-advance, of which the
code only trusts the value it has asked for. In `FencedResource`, `BEGIN IMMEDIATE`
takes SQLite's write lock or raises, a commit waits for no reader that is still in
its transaction and raises instead, and the rows that a terminated process has not
committed are gone. In `PublicationSlot` payloads are names: what matters is from
which version's payload a published one was derived. The source that the
`migrate_*` functions are given is the payload of the version they expect, as in
every call of the repository.

Definitions named after an operator with a suffix (`Verified_EitherGate`,
`CommitBegin_NoLock`, ...) are seeded faults: each is a plausible slip in that
operator, used only to show that a property notices it. No action uses them.

## 3. Runs

| Run | Instance | Shows |
|---|---|---|
| `standalone`, group components | one session with 3 candidates and sequence numbers 0 to 6; one deployment, 2 readers, 5 generations; a slot with 2 writers, 2 candidates, 2 layouts; a route table of 2, 2 methods, 3 paths, one of them `/:other` | a pending recommendation stays justified, switches keep the cooldown and checkpoint the candidate they leave; a staged version stays activatable, the stack is the history, a generation never names two versions; what was validated against a version directly follows it, and a failed health check undoes its own publication only; metrics add up in a bounded table |
| `standalone`, group handover | 2 processes, 2 bundles or mutations, heads, generations and lineages to 2, heads and fencing generations 3 together | an advance with evidence stays in the chain; one restart per generation; a bracketed receipt was current; a generation is applied once; a returned pair is of one mutation; locked advances of the anchor are kept; a process that finds its own lock has held it until then |
| `standalone`, group pilot | one key, 2 requests, 2 runs, 2 request threads, 1 operator, 4 ledger entries | a key persists one run unless an operator cleared it on record; all successes told for a key agree; a stored success names a certified run; no resolution without its authorization in the ledger; a confirmed side effect blocks its key for good |
| `threads` | v2, two migrations of one session, commit and rollback, faults after mutations; 2 jobs, 1 executor thread, 2 clients; fair threads | ROLLED_BACK is recorded with session and route on the same candidate; the lock is always given back, from a compensation as well; a cancellation reaches the child and decides, no child outlives its job, every job ends |
| `health_gate` | the slot with 2 writers | finding 6 |
| `adaptation_all` | both orchestrators, every endpoint, 2 request threads, from an empty process | nothing is verified or committed without both gates, evidence is frozen once verified, every version the router knows above the bootstrap passed its gates |
| `adaptation_commit` | v2, two migrations of one session, commit, abort, stage, observe, faults after mutations | session, route and ledger agree when COMMITTED is recorded, a failed commit restores, every lasting split was reported to a caller; the instance implements `AtomicAdaptation` |
| `rollback_rejected_half_way` | one client | finding 1 |
| `two_orchestrators` | v1 and v2 commit one migration | finding 2 |
| `rollback_of_older_migration` | three migrations A-B, B-C, C-B | finding 3 |
| `ledger_forked_by_two_processes` | the pilot group with 3 runs and 5 ledger entries | finding 4 |
| `resolution_races_clearance` | the same with 2 operators | finding 5 |
| `route_table_past_its_limit` | 2 methods, 3 paths, a table of 3 | finding 7 |
| `foreign_lock_unlinked` | the anchor with 2 processes | finding 8 |

**Bounds.** In the orchestrator's instances two threads give every pairwise
interleaving; three operations of one session cannot be inside one orchestrator's
lock at once, and the steps outside it are the direct endpoints, which are always
enabled. One session is bound, which the theorems of section 5 extend to any number
of sessions with deployments of their own. They use one mix that always counts as
drift and no cooldown, since those only disable steps; `standalone` explores both. Sequence numbers bound
the observations: 0 to 6 leave room for a switch, its cooldown, a second switch
and its rollback. Five generations allow two activations, a rollback and a
re-activation on top of it.

One key is enough for the pilot: no statement reads two keys. Two digests are the
request and another that misuses its key. Two runs are one more than a key may
persist without a clearance; four ledger entries hold a certificate, an
authorization and its application, with one to spare. That a clearance buys one
further run and not two takes a third run, which the theorem
`DuplicatesNeedAuthorization` covers and the run does not.

Two jobs on one thread give a job that waits in the queue behind another, and two
clients a second cancel while the first has yet to kill.

A slot of five generations holds a publication, its rollback and another
publication of the same candidate, which is what tells a version from its
candidate's id (ABA). Five requests overflow a table of two routes with requests of
both methods still open. The path `/:other` is among those requested: a client may ask for it, and then the
table counts it under the key of the overflow. Two processes suffice for the
handovers: the lock files and SQLite's lock admit one process at a time, and what a
property compares is one process against one other. Two heads, generations and
lineages give a first success, one more on top of it and a third attempt that is
refused by its bound. Of heads and fencing generations there are three together
(`MaxTogether`): two heads with one generation, or one head with two, since a claim
and an advance meet in one restart. The proofs of section 5 cover every larger
instance.

**Symmetry** is used for processes, threads, runs, bundles and digests in `standalone`,
which are interchangeable there, and in no run with a liveness property.

**Deadlock** is off in every run: requests, jobs, sequence numbers, generations,
runs and ledger entries run out in a bounded instance, and a server without
requests rests.

**Fairness.** `threads` assumes weak fairness of each thread's next step (`GoesOn`)
and nothing of the clients: a thread of the pool, or of the worker's executor,
that can run eventually does. A Python `RLock` promises no order among waiters, so no
run claims that a waiting thread gets the lock; `LockIsReleased` claims that the
holder, which is never disabled, leaves it. Of a job's runner fairness says that
`communicate` returns or raises at its deadline. Nothing is assumed of children, of
clients or of `shutdown`. The pilot's specification has no fairness and no liveness
property: the journal documents that a PENDING reservation never expires.

## 4. Findings

1. `rollback` says that all preconditions are checked before the first mutation,
   but not that no recommendation is pending. An observation after the commit is
   enough for `rollback_last_switch` to refuse when the route is already back.
2. The two orchestrators exclude only themselves. When v1 and v2 commit the same
   migration, the compensation of one rolls back the session that the other has
   confirmed, and the other records COMMITTED.
3. `rollback` accepts any checkpoint whose session runs the migration's target.
   Candidates recur, so an older committed migration passes and the session
   returns to a third candidate while the ledger names the source.
4. `append_evidence` reads the head of the chain before its transaction begins.
   The server and the operator's command can both chain to the same entry, and
   `verify_evidence_ledger` then reports a failure of integrity (`storage.py:472`).
   Within one process the store's lock prevents it.
5. `resolve_confirmed_no_side_effect` checks for a resolution in one step and
   deletes the record in another (`idempotency.py:335`). When another operator
   confirms the side effect in between, the blocked record is deleted and its key
   is new again. `ResolvedStaysBlocked` holds for one operator (run `standalone`), who
   may be killed and start over, and fails for two.
6. `migrate_publish_with_health_gate` confirms the published generation with one
   load of the active version and takes the payload to probe from a second one
   (`migration_publish.hpp:116`, `:124`). When another thread replaces the version in
   between by one of the same type, the health check judges that payload, and a
   publication that nobody has probed is reported as HEALTH_ACCEPTED.
7. The route table of the metrics reserves "the final slot for one overflow aggregate"
   (`operational_metrics.py:114`), and `backend/tests/test_operational_metrics.py:58`
   calls its limit a hard bound. But the overflow has a key for each method, and the
   test sends GET only: with a second method the table exceeds the `route_key_limit`
   that it reports (`RouteTableWithinLimit`). What it does keep is proved
   (`RouteTableStaysBounded`): one key fewer than the limit, and one for each method.
8. `dataplane_recovery_anchor_ownership.py:7` says that the release unlinks the lock
   only when its bytes still match, and leaves a replacement untouched. It compares
   them in one step (`:138`) and unlinks the path in another (`:142`). A lock that was
   removed and created again in between is unlinked although another process runs
   under it (`OnlyOwnLockIsRemoved`). The comparison narrows that window and does not
   close it: `OwnershipIsContinuous` says exactly how far it goes.

## 5. Proofs

Proved by TLAPS for every value of the constants, from the named assumptions in
the modules (null values lie outside the sets they complete; the values of a thread's
place are not those of a null; sequence numbers are naturals, generations are
naturals and include 1; the sets of callers and methods of the metrics are finite -
nothing is assumed of their paths, which may include `/:other`):

* `RuntimeControllerProofs`: the inductive invariant is the type with
  `PendingStillJustified` and `CheckpointPrecedesSwitch`, taken record by record
  (`RecordInv`). Justification survives an observation, since that moves only the
  last observation; `confirm` writes the checkpoint from the baseline that the
  pending recommendation was justified against, which is why the first half is
  needed for the second. The cooldown property follows from the invariant and
  the two ways a session can leave its candidate.
* Migrations (in `AdaptationOrchestratorProofs`): `GatesGuardCommit` is not inductive - a PLANNED
  record with both verdicts set would pass when its artifact is built - so the
  invariant adds that PLANNED and SHADOW_BUILT records lack a verdict.
* `ArtifactRouterProofs`: the stack must be a history for a rollback to leave a
  history and a staged version must be the successor for an activation to extend
  it, so both are proved together; the lease part adds that no reader holds a
  generation above the routed one, which makes a new generation fresh.
  `OnlyBootstrapUnverified` and `GenerationMonotonic`, proved here, are no longer run.
* `JobWorkerProofs`: the runner's place determines what clients see and how far
  the child is. `CancelDecides` needs the verdict between `finish` and its
  publication (`VerdictOK`) and that from there on the child is dead, so no cancel
  can join `wanted` too late (`ChildOK`). `CancelReachesChild` needs that a runner
  in `communicate` has made its child visible. `OneJob` reduces a step of one
  runner to that job; cancel, kill and shutdown, which change other state, have
  arguments of their own. Assumed: the null job is neither a job nor a record.
* `PublicationSlotProofs`: every transition raises the generation, so
  a lease with the generation of the current version is that version
  (`LeasesAreOfTheirGeneration`): what its holder saw is what it replaces or takes
  back.
* `HandoverProofs`, anchor: `HolderOwnsLock` - while no lock of a running process has
  been removed, the lock file names the only process between its recheck and its
  release - and `ReplacesPredecessor`, that what it has compared is still there.
  Prefixes of sequences are preserved by `Append` (`PrefixOfLonger`).
  `OwnershipIsContinuous` needs that the owner of the file has not shared it, which
  covers the time up to the comparison; and `ForeignLockIsNoted`, that another's
  lock file was created since one's own, so a foreign lock that is unlinked was
  created after the comparison. No theorem says that it is not unlinked: finding 8.
* `HandoverProofs`, restarts: `HeadLockExcludes`; `ReliesOn`, what each process has compared
  or observed and still relies on; and `ClaimsAreExclusive`, that a claimed generation
  is held by one process, is evidence, or neither. The authority is assumed
  honest: it gives the requested value only when it has just advanced to it, so a new
  claim is above all others, and its counter never goes back. For the bracket: counter
  <= what was replayed <= authority, and both ends equal. The code cannot check either
  assumption, and its TRUTH_BOUNDARY texts
  (`process_transfer_fencing_receipt_restart.py:13`) do not claim that the counter stood
  still between two equal readings: with an authority that goes back it may not have.
* `HandoverProofs`, resource: `RowsOfCommits` (every committed generation is at most that
  of the fencing row) and `CallersAreOrdered` (a caller past its decision holds the
  write lock, and its rows follow the committed ones) make each commit newer than
  all before it; versions then count commits (`FS_AddElement`), and equal versions
  mean that every commit was a mutation (`FS_Subset`).
* `PilotSynthesisProofs`: the thread's place determines the progress of its run
  (`CallOK`), at most one thread of a process works on a key (`OneThreadPerKey`: the
  reservation is the lock), a key that was answered is COMPLETED for good
  (`AnswersRecorded`), and an operator's place determines what it has read of the
  record and what is in the ledger (`WorksOK`). `DuplicatesAreAuthorized` is a
  budget (`BudgetOf`): an authorization entry buys one clearance, a clearance or the
  first reservation buys one run. The one theorem with a further assumption is
  `OneOperatorBlocksForGood`: with at most one operator's command at a time a blocked key
  stays blocked; finding 5 is what happens with two.
* `AdaptationOrchestratorProofs`, any number of orchestrators and threads: every step
  of the composition is a step of a controller or leaves it alone (`ControllersStep`),
  so the invariants of the three controllers carry over; `VersionsGated` (a staged,
  active or stacked version above the bootstrap names a migration that passed its
  gates) needs from a thread's place only that what it read as verified was so,
  since evidence is frozen from then on.
* `AdaptationOrchestratorProofs`, `OneOrchestrator` (`SplitsAreReported` and
  `CommitsImplementAtomic`): these assume what the code needs for them and findings 1
  to 3 lack: one orchestrator, which has the
  data plane, and no client that uses `rollback`, `bind_deployment` after the start,
  or the runtime's own `confirm` and `rollback` beside it. Planning, staging,
  verification, observation, aborts, further sessions and deployments stay, in any
  number, and so do faults. `BoundInit` starts with any number of sessions bound, each
  to a deployment of its own (`Home`): `bind_deployment` does not refuse to bind a
  second session to a deployment, and then a commit of one session would move the
  route of the other. Under the assumption a step either is *quiet* - it changes no
  active candidate, no route, no checkpoint and no COMMITTED record of a session that
  is being committed - or belongs to the holder of the lock. `CommitOK` says for each
  place of `authorize_commit` which of the three have moved; `Settled`, that a session
  without a commit in flight agrees with its route, unless the failure to restore it
  was reported.
* `AdaptationOrchestratorProofs`, `OneOrchestratorWithRollback`
  (`CommitsTakeEffectTogether`, `FailedCommitsRestore`, `RollbacksTakeEffectTogether`):
  the same with `rollback` allowed. `rollback_committed` pops the route's stack and
  returns the session to its checkpoint. It checks that both have an entry, never that
  the entries agree; that they do is the invariant `SwitchInv`. When session and route
  run the same candidate, the version under the active one has the candidate of the
  checkpoint (`Aligned`). While a commit has switched the route and not the session,
  what it would restore is one entry further down (`Switched`). `SwitchFacts` says for
  each place of a commit and of a rollback which candidate session and route have.
  When a rollback has been refused half-way (finding 1) the two disagree and
  `Aligned` says nothing: no later operation gets past its checks, so they never
  agree again by accident. The proof needs of the stack that neighbours differ
  (`StackIsHistory`): otherwise the route's rollback could bring it back to the
  session's candidate with another entry below.
* `CommitsImplementAtomic` (there too, under `OneOrchestrator`): `BoundSpec` implements
  `AtomicAdaptation`. The mapping counts a commit past its checks as not made: its
  session and route are still on the source, its ledger entry is open. So there are two
  views, at rest and with one thread in flight (`RestingView`, `FlightView`; the lock
  admits one, `OneHolder`), and five kinds of steps: beside the flight, the view moves
  with the controller (`QuietRefines`, `PlanRefines`, `AbortRefines`, ...: a stutter or
  `Begin`, `Deploy`, `Open`, `Close`); entering it changes no view, because what the
  checks found is the source (`EntersFlight`, from `CommitOK`); in flight nothing shows
  (`InFlightRefines`); leaving after the ledger's commit is `Switch`; leaving after
  compensation is a stutter or `Close` when the source was restored, `Lose` when a caller
  was told that it was not. A session that is already lost promises nothing of its
  route, so there entering and leaving are `Lose` as well. Assumed besides: the null
  deployment is no deployment and the null migration is not a ledger entry.
* `ComponentsProofs`: requests in flight are those that began and have not finished,
  and a route is entered only below the bound. `CountersAddUp` counts the observations
  past the limit and the requests for `/:other` itself apart (`overflowed`, and the
  history variable `literal`), since the code keeps both under one key. It is about sums, which
  the metrics' model writes as folds. The fold's recursion is unfolded once, at an
  element that `CHOOSE` picks; that the result does not depend on the pick is proved
  by a smallest counterexample (`FS_StrictSubsetOrderingWellFounded` with `WFMin`),
  which is first-order and needs no induction scheme.

**Model-checked only:** the liveness properties `LockIsReleased` and `JobsEnd`,
since TLAPS does not prove liveness under fairness. `SplitIsReported` and the
refinement are not true among rollbacks: a rollback that is refused half-way (finding 1)
leaves a split that no caller was told of.

## 6. What is not modelled

* The numeric parts: engine, cost model, calibration, statistics of the research
  programme. Pure functions of floating point data; the models take their
  outcomes (a recommendation, a verdict of a gate) as choices.
* Code generation, compilers and benchmark programs: their results are inputs.
* The families of digest-bound records and receipts (`pilot_*receipt*`,
  `dataplane_recovery_startup_*` and the `recovery_p*` of P71 to P133, `startup_*`,
  the pilot retry validators): functions from records to records, or one write of a
  fresh file. No two of them share state and no module of the server reads them
  back, so they have no order to get wrong. They and the research, benchmark and
  generation programs are most of the lines of this repository; modelling them would
  restate field comparisons, so the share of lines that the models cover is small,
  while every stateful protocol found in it is modelled.
* Pilot backup. It copies the store and then the journal; the runbook requires that
  nothing writes meanwhile (`docs/STARTUP-PILOT-RUNBOOK.md:153`).
* The receipt of a bracketed check, which is written and never read, and the
  contents of bundles and checkpoints.
* In `storage.py`, what does not take part in a synthesis run: single-row
  transactions of calibration profiles and audit events.
* Power loss. The two databases differ in `synchronous`, so a power loss can
  lose a run that the journal has recorded; the models have process crashes only.
* Frontend, security, rate limits, doctors, AI provider: no shared state with a
  protocol. `PROJECT.json` lists every file with its reason.

## 7. Plan

1. `workspace_deleted` of the job worker: the terminal state is visible first,
   while `backend/tests/test_job_worker.py:33` asserts the flag right after `wait`.
   The model has the window; the run is to be added.
2. Backup as an environment of the store; the runtime's and the router's
   `dataplane_recovery` entry points, if the server comes to use them.
