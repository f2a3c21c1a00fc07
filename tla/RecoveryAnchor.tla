--------------------------- MODULE RecoveryAnchor ---------------------------
(***************************************************************************)
(* backend/app/dataplane_recovery_anchor_*.py: the file that anchors the   *)
(* lineage of the recovery checkpoints.  A lineage digest covers its whole *)
(* past, so that a head stands for the sequence of checkpoints up to it.   *)
(* A first publication (_store) replaces the file without a lock; an       *)
(* advance (_advance) is not a compare-and-swap by its own words and runs  *)
(* under a lock file that names its creator, which is released either      *)
(* unconditionally (_serialized) or if it still is the creator's           *)
(* (_ownership).  The operator may remove the lock file at any moment,     *)
(* that of a running process included.                                     *)
(***************************************************************************)
EXTENDS Integers, Sequences

CONSTANTS
    Recoverers,
    NoRecoverer,
    Checkpoints,
    MaxLineage      \* bound: the length of a lineage

ASSUME RecoveryAssumption == MaxLineage \in Nat /\ NoRecoverer \notin Recoverers

Lineages == UNION {[1 .. n -> Checkpoints] : n \in 0 .. MaxLineage}
NoAnchor == <<>>

VARIABLES
    anchor,         \* the head in the anchor file, NoAnchor when there is none
    anchorLock,     \* whose bytes the lock file holds, NoRecoverer when there is none
    recovery,       \* where each process is, from which head to which
    published,      \* the heads whose publication has been evidenced (P66)
    advanced,       \* history: the heads read back under a lock since the last publication
    disturbed,      \* history: the operator has removed the lock of a running process
    shared          \* history: those whose lock somebody else has held since

recoveryVars == <<anchor, anchorLock, recovery, published, advanced, disturbed, shared>>

RecoveryPlaces == {"idle", "published", "lock", "recheck", "replace", "read back", "compare",
                   "unlink"}

NoRecovery == [ at |-> "idle", mode |-> "serialized", from |-> NoAnchor, to |-> NoAnchor ]

RecoveryTypeOK ==
    /\ anchor \in Lineages
    /\ anchorLock \in Recoverers \cup {NoRecoverer}
    /\ recovery \in [Recoverers -> [ at       : RecoveryPlaces,
                                     mode     : {"serialized", "owned"},
                                     from     : Lineages,
                                     to       : Lineages ]]
    /\ published \subseteq Lineages
    /\ advanced \subseteq Lineages
    /\ disturbed \in BOOLEAN
    /\ shared \subseteq Recoverers

\* Inside the try whose end releases the lock file.
Holding(p) == recovery[p].at \in {"recheck", "replace", "read back", "compare", "unlink"}

GoOn(p, place) == recovery' = [recovery EXCEPT ![p].at = place]
Finish(p) == recovery' = [recovery EXCEPT ![p] = NoRecovery]

-----------------------------------------------------------------------------
\* publish_recovery_expected_head: any verified head, whatever the file holds.
PublishAnchor(p, lineage) ==
    /\ recovery[p].at = "idle"
    /\ anchor' = lineage
    /\ advanced' = {}
    /\ recovery' = [recovery EXCEPT ![p] = [NoRecovery EXCEPT !.at = "published", !.to = lineage]]
    /\ UNCHANGED <<anchorLock, published, disturbed, shared>>

ReadPublishedBack(p) ==
    /\ recovery[p].at = "published"
    /\ published' = IF anchor = recovery[p].to THEN published \cup {anchor} ELSE published
    /\ Finish(p)
    /\ UNCHANGED <<anchor, anchorLock, advanced, disturbed, shared>>

\* verify_recovery_against_stored_expected_head: the file holds a published
\* head, and the recovered checkpoint is its successor; then an advance is asked.
VerifySuccessor(p, mode, checkpoint) ==
    /\ recovery[p].at = "idle"
    /\ anchor \in published
    /\ Len(anchor) < MaxLineage
    /\ recovery' = [recovery EXCEPT ![p] =
                       [ at |-> "lock", mode |-> mode, from |-> anchor,
                         to |-> Append(anchor, checkpoint) ]]
    /\ UNCHANGED <<anchor, anchorLock, published, advanced, disturbed, shared>>

\* os.open(lock, O_CREAT | O_EXCL), and an error if the file exists.
LockExists == anchorLock # NoRecoverer

LockAnchor(p) ==
    /\ recovery[p].at = "lock"
    /\ IF LockExists
          THEN Finish(p) /\ UNCHANGED <<anchorLock, shared>>
          ELSE /\ anchorLock' = p
               /\ shared' = {q \in Recoverers \ {p} : Holding(q)} \cup (shared \ {p})
               /\ GoOn(p, "recheck")
    /\ UNCHANGED <<anchor, published, advanced, disturbed>>

\* The release of the lock, which an exception goes to as well.
ReleasePlace(p) == IF recovery[p].mode = "owned" THEN "compare" ELSE "unlink"

\* Seeded fault: the predecessor is not read again.
PredecessorUnchanged_Trusted(p) == TRUE

\* advance_recovery_expected_head: the predecessor's bytes, once more.
PredecessorUnchanged(p) == anchor = recovery[p].from

RecheckPredecessor(p) ==
    /\ recovery[p].at = "recheck"
    /\ IF PredecessorUnchanged(p) THEN GoOn(p, "replace") ELSE GoOn(p, ReleasePlace(p))
    /\ UNCHANGED <<anchor, anchorLock, published, advanced, disturbed, shared>>

ReplaceAnchor(p) ==
    /\ recovery[p].at = "replace"
    /\ anchor' = recovery[p].to
    /\ GoOn(p, "read back")
    /\ UNCHANGED <<anchorLock, published, advanced, disturbed, shared>>

ReadAnchorBack(p) ==
    /\ recovery[p].at = "read back"
    /\ advanced' = IF anchor = recovery[p].to THEN advanced \cup {anchor} ELSE advanced
    /\ GoOn(p, ReleasePlace(p))
    /\ UNCHANGED <<anchor, anchorLock, published, disturbed, shared>>

\* Seeded fault: any lock file is taken for the own one.
OwnLock_AnyFile(p) == LockExists

\* The ownership-bound release reads the lock file and refuses a foreign one.
OwnLock(p) == anchorLock = p

CompareLock(p) ==
    /\ recovery[p].at = "compare"
    /\ IF OwnLock(p) THEN GoOn(p, "unlink") ELSE Finish(p)
    /\ UNCHANGED <<anchor, anchorLock, published, advanced, disturbed, shared>>

\* unlink, whoever has created the file.  Evidence is returned unless a lock
\* file is there again, or there was none for an owned release to unlink.
UnlinkLock(p) ==
    /\ recovery[p].at = "unlink"
    /\ anchorLock' = NoRecoverer
    /\ Finish(p)
    /\ UNCHANGED <<anchor, published, advanced, disturbed, shared>>

\* The process dies; its lock file and what it has replaced stay.
CrashRecoverer(p) ==
    /\ recovery[p].at # "idle"
    /\ Finish(p)
    /\ UNCHANGED <<anchor, anchorLock, published, advanced, disturbed, shared>>

\* The operator removes the lock file, of a process that is gone or is not.
RemoveLock ==
    /\ LockExists
    /\ anchorLock' = NoRecoverer
    /\ disturbed' = (disturbed \/ \E p \in Recoverers : Holding(p))
    /\ UNCHANGED <<anchor, recovery, published, advanced, shared>>

RecoveryInit ==
    /\ anchor = NoAnchor
    /\ anchorLock = NoRecoverer
    /\ recovery = [p \in Recoverers |-> NoRecovery]
    /\ published = {}
    /\ advanced = {}
    /\ disturbed = FALSE
    /\ shared = {}

RecoveryNext ==
    \/ \E p \in Recoverers :
          \/ ReadPublishedBack(p) \/ LockAnchor(p) \/ RecheckPredecessor(p) \/ ReplaceAnchor(p)
          \/ ReadAnchorBack(p) \/ CompareLock(p) \/ UnlinkLock(p)
          \/ CrashRecoverer(p)
          \/ \E lineage \in Lineages \ {NoAnchor} : PublishAnchor(p, lineage)
          \/ \E mode \in {"serialized", "owned"}, checkpoint \in Checkpoints :
                VerifySuccessor(p, mode, checkpoint)
    \/ RemoveLock

RecoverySpec == RecoveryInit /\ [][RecoveryNext]_recoveryVars

-----------------------------------------------------------------------------
(***************************************************************************)
(* An advance under a lock stays in the lineage: until somebody publishes  *)
(* a head without the lock, the anchor extends every head that was read    *)
(* back, whichever of the two locks the processes use and however they     *)
(* die, as long as the operator removes only the locks of the dead.        *)
(***************************************************************************)
AdvancedHeadsAreKept ==
    ~disturbed =>
    \A lineage \in advanced : /\ Len(lineage) <= Len(anchor)
                           /\ SubSeq(anchor, 1, Len(lineage)) = lineage

\* p unlinks the lock file that another process has created.
UnlinksForeignLock(p) ==
    /\ recovery[p].at = "unlink" /\ recovery'[p].at = "idle"
    /\ anchorLock \notin {p, NoRecoverer} /\ anchorLock' = NoRecoverer

(***************************************************************************)
(* "Lock identity rechecked": an owned release that finds its own token in *)
(* the lock file has held the lock without a break from the creation of    *)
(* the file up to that comparison, also when operators and the             *)
(* unconditional release remove lock files under running processes.  It    *)
(* then unlinks a lock of somebody else only if that one was created after *)
(* the comparison: the comparison narrows the window of a wrong unlink, it *)
(* does not close it (see the next property).                              *)
(***************************************************************************)
OwnershipIsContinuous ==
    [][\A p \in Recoverers : recovery[p].mode = "owned" =>
          /\ recovery[p].at = "compare" /\ recovery'[p].at = "unlink" => p \notin shared
          /\ UnlinksForeignLock(p) => p \in shared]_recoveryVars

(***************************************************************************)
(* "Unlinks it only when its exact bytes still match this attempt", and a  *)
(* replacement lock is left untouched.  Not so: the bytes are read in one  *)
(* step and the path is unlinked in another, and the file that has been    *)
(* removed and created again in between is not the one that was read.      *)
(***************************************************************************)
OnlyOwnLockIsRemoved ==
    [][\A p \in Recoverers : recovery[p].mode = "owned" => ~UnlinksForeignLock(p)]_recoveryVars
=============================================================================
