---------------------------- MODULE TransferHead ----------------------------
(***************************************************************************)
(* backend/app/process_transfer_head.py, _persistence.py and _restart.py:  *)
(* the chain of evidence heads that the processes of one host hand over    *)
(* through files.  A head names its predecessor by digest, so a digest     *)
(* stands for the whole chain up to it, here the sequence of the bundles   *)
(* that the heads bind.  Only the head is under the cooperative lock file; *)
(* the bundle file is not.  A process may crash between any two steps, and *)
(* nobody takes over the lock file that it leaves.                         *)
(***************************************************************************)
EXTENDS Integers, Sequences

CONSTANTS
    Processes,
    Bundles,
    NoBundle,
    MaxSequence     \* bound: heads advanced to

ASSUME TransferAssumption == MaxSequence \in Nat /\ NoBundle \notin Bundles

Chains == UNION {[1 .. n -> Bundles] : n \in 0 .. MaxSequence}
Genesis == <<>>

VARIABLES
    head,           \* the chain of the head file, Genesis when there is none
    bundleFile,     \* the bundle file, NoBundle when there is none
    headLock,       \* the lock file exists
    transfer,       \* where each process is, and what its caller expects
    advances        \* history: the heads that advance has returned evidence of

headVars == <<head, bundleFile, headLock, transfer, advances>>

(***************************************************************************)
(* The other purposes are those of FencedRestart, which verifies the same  *)
(* files: see there for the places before the lock and after "verified".   *)
(* replayed is what the authority held when a bracketed check read them.   *)
(***************************************************************************)
Purposes == {"advance", "restart", "fence", "current", "bracket", "token"}
TransferPlaces == {"idle", "lock", "check", "replace", "reload", "verified",
                   "claim", "observe", "observe again", "consume", "persist", "reported"}

\* Inside the try that ends with the unlink of the lock file.
Locked(p) == transfer[p].at \in {"check", "replace", "reload"}

Move(p, place) == transfer' = [transfer EXCEPT ![p].at = place]

Idle == [ at |-> "idle", purpose |-> "restart", expected |-> Genesis, bundle |-> NoBundle,
          counter |-> 0, replayed |-> 0 ]
Stop(p) == transfer' = [transfer EXCEPT ![p] = Idle]

IsPrefixOf(s, t) == Len(s) <= Len(t) /\ SubSeq(t, 1, Len(s)) = s

HeadTypeOK ==
    /\ head \in Chains
    /\ bundleFile \in Bundles \cup {NoBundle}
    /\ headLock \in BOOLEAN
    /\ transfer \in [Processes -> [ at       : TransferPlaces,
                                    purpose  : Purposes,
                                    expected : Chains,
                                    bundle   : Bundles \cup {NoBundle},
                                    counter  : Nat,
                                    replayed : Nat ]]
    /\ advances \subseteq Chains

-----------------------------------------------------------------------------
\* persist_process_transfer_evidence_bundle: replaced without a lock.  It is then
\* read back, to return evidence or to raise.
PublishBundle(p, bundle) ==
    /\ transfer[p].at = "idle"
    /\ bundleFile' = bundle
    /\ UNCHANGED <<head, headLock, transfer, advances>>

\* A caller that has loaded the head asks to extend it with a bundle, or to
\* verify it after a restart.
Ask(p, purpose, bundle) ==
    /\ transfer[p].at = "idle"
    /\ transfer' = [transfer EXCEPT ![p] = [Idle EXCEPT !.at = "lock", !.purpose = purpose,
                                                        !.expected = head, !.bundle = bundle]]
    /\ UNCHANGED <<head, bundleFile, headLock, advances>>

\* Seeded fault: the file is opened without O_EXCL.
Excluded_Never == FALSE

\* _acquire_head_lock: O_CREAT | O_EXCL, and an error if the file exists.
Excluded == headLock

AcquireHeadLock(p) ==
    /\ transfer[p].at = "lock"
    /\ IF Excluded THEN Stop(p) ELSE Move(p, "check")
    /\ headLock' = TRUE
    /\ UNCHANGED <<head, bundleFile, advances>>

ReleaseHeadLock == headLock' = FALSE

\* advance_process_transfer_head: the compare-and-swap expectation, the next
\* contiguous sequence, and the verified bundle file.
MayAdvance(p) ==
    /\ head = transfer[p].expected
    /\ Len(head) < MaxSequence
    /\ bundleFile = transfer[p].bundle

CheckAdvance(p) ==
    /\ transfer[p].at = "check" /\ transfer[p].purpose = "advance"
    /\ IF MayAdvance(p) THEN Move(p, "replace") /\ UNCHANGED headLock
                        ELSE Stop(p) /\ ReleaseHeadLock
    /\ UNCHANGED <<head, bundleFile, advances>>

StagedHead(p) == Append(transfer[p].expected, transfer[p].bundle)

ReplaceHead(p) ==
    /\ transfer[p].at = "replace"
    /\ head' = StagedHead(p)
    /\ Move(p, "reload")
    /\ UNCHANGED <<bundleFile, headLock, advances>>

\* The persisted head is read again; evidence of what was staged, or an error.
ReloadHead(p) ==
    /\ transfer[p].at = "reload"
    /\ advances' = IF head = StagedHead(p) THEN advances \cup {head} ELSE advances
    /\ Stop(p)
    /\ ReleaseHeadLock
    /\ UNCHANGED <<head, bundleFile>>

\* verify_persisted_process_transfer_restart: the exact head, and the bundle
\* that it binds.  A plain restart returns its evidence or raises; the others go
\* on.  observed is what a fencing authority holds meanwhile.
MayRestart(p) ==
    /\ head = transfer[p].expected
    /\ head # Genesis
    /\ bundleFile = head[Len(head)]

CheckRestart(p, observed) ==
    /\ transfer[p].at = "check" /\ transfer[p].purpose # "advance"
    /\ IF MayRestart(p) /\ transfer[p].purpose # "restart"
          THEN transfer' = [transfer EXCEPT
                   ![p].at = "verified",
                   ![p].replayed = IF transfer[p].purpose = "bracket" THEN observed ELSE @]
          ELSE Stop(p)
    /\ ReleaseHeadLock
    /\ UNCHANGED <<head, bundleFile, advances>>

\* The process dies; its lock file and whatever it has replaced stay.
Crash(p) ==
    /\ transfer[p].at # "idle"
    /\ Stop(p)
    /\ UNCHANGED <<head, bundleFile, headLock, advances>>

\* The operator removes the lock file of a process that is gone.
RemoveStaleLock ==
    /\ headLock
    /\ \A p \in Processes : ~Locked(p)
    /\ headLock' = FALSE
    /\ UNCHANGED <<head, bundleFile, transfer, advances>>

HeadInit ==
    /\ head = Genesis
    /\ bundleFile = NoBundle
    /\ headLock = FALSE
    /\ transfer = [p \in Processes |-> Idle]
    /\ advances = {}

\* What the processes do to the head and the bundle, whatever their purpose.
HeadNext(observed) ==
    \/ \E p \in Processes :
          \/ AcquireHeadLock(p) \/ CheckAdvance(p) \/ ReplaceHead(p)
          \/ ReloadHead(p) \/ CheckRestart(p, observed) \/ Crash(p)
          \/ Ask(p, "restart", NoBundle)
          \/ \E bundle \in Bundles : PublishBundle(p, bundle) \/ Ask(p, "advance", bundle)
    \/ RemoveStaleLock

-----------------------------------------------------------------------------
(***************************************************************************)
(* "Contiguous sequence, CAS, and single-writer exclusion": an advance     *)
(* that was reported stays in the chain.  No later head, of whichever      *)
(* process, replaces it or goes back behind it, also when processes crash  *)
(* with the lock and operators remove what they have left.                 *)
(***************************************************************************)
AdvancesAreKept == \A chain \in advances : IsPrefixOf(chain, head)

\* The lock file exists while a process is between its checks and its unlink,
\* and at most one process is.
HeadLockExcludes ==
    \A p, q \in Processes : Locked(p) /\ Locked(q) => p = q /\ headLock
=============================================================================
