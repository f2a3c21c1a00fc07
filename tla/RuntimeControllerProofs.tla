---------------------- MODULE RuntimeControllerProofs ----------------------
(***************************************************************************)
(* The invariants of RuntimeController for every value of its constants.   *)
(* Each method changes one session's record, so the work is done in lemmas *)
(* about records, and the theorems lift them to the table of sessions.     *)
(***************************************************************************)
EXTENDS RuntimeController, TLAPS

(***************************************************************************)
(* The inductive invariant of a record.  Its parts need each other: a      *)
(* confirmed switch leaves a proper checkpoint because the pending         *)
(* snapshot was still justified, and a rollback may restore the old        *)
(* baseline only because no recommendation is pending.                     *)
(***************************************************************************)
RecordInv(r) == r \in SessionRecords /\ StillJustified(r) /\ ProperCheckpoint(r)

RuntimeInv == RuntimeTypeOK /\ PendingStillJustified /\ CheckpointPrecedesSwitch

\* Sequence numbers, the null one included, are integers.
LEMMA SequencesAreIntegers ==
    /\ \A n \in SequenceNumbers : n \in Nat
    /\ \A n \in OptSequenceNumbers : n \in Int
    /\ NoSequence \notin SequenceNumbers
BY SequenceNumbersAssumption DEF OptSequenceNumbers, NoSequence

\* The table of sessions is well formed iff every session's record is.
LEMMA InvByRecord ==
    RuntimeInv <=> /\ session = [s \in Sessions |-> session[s]]
                   /\ \A s \in Sessions : session[s] = NoSession \/ RecordInv(session[s])
BY NoSessionAssumption
   DEF RuntimeInv, RuntimeTypeOK, PendingStillJustified, CheckpointPrecedesSwitch,
       RecordInv, Started

\* A started session has a record that satisfies RecordInv.
LEMMA StartedRecord ==
    ASSUME RuntimeInv, NEW s \in Sessions, Started(s)
    PROVE  RecordInv(session[s])
BY InvByRecord DEF Started

\* start
LEMMA NewSessionInv ==
    ASSUME NEW candidate \in Candidates, NEW baseline \in Snapshots, NEW cooldown \in Cooldowns
    PROVE  RecordInv(NewSession(candidate, baseline, cooldown))
<1> DEFINE r == NewSession(candidate, baseline, cooldown)
<1>1. r \in SessionRecords
  BY DEF NewSession, SessionRecords, Snapshots, OptCandidates, OptSequenceNumbers
<1>2. StillJustified(r) /\ ProperCheckpoint(r)
  BY DEF NewSession, StillJustified, ProperCheckpoint
<1> QED BY <1>1, <1>2 DEF RecordInv

\* observe: a recommendation is justified when it is made, and a later
\* observation moves only lastObserved, forwards.
LEMMA ObservedInv ==
    ASSUME NEW r, RecordInv(r),
           NEW snapshot \in Snapshots, NEW alternative \in Candidates, NEW pays \in BOOLEAN,
           snapshot.sequence > r.lastObserved
    PROVE  RecordInv(Observed(r, snapshot, alternative, pays))
<1> DEFINE q == Observed(r, snapshot, alternative, pays)
<1>0. /\ r \in SessionRecords
      /\ snapshot.sequence \in SequenceNumbers /\ snapshot.mix \in Mixes
      /\ r.lastObserved \in SequenceNumbers
  BY DEF RecordInv, SessionRecords, Snapshots
<1>1. CASE SwitchRecommended(r, snapshot, pays)
  <2>1. q = [r EXCEPT !.lastObserved = snapshot.sequence,
                      !.pendingCandidate = alternative,
                      !.pendingSnapshot = snapshot]
    BY <1>1 DEF Observed
  <2>2. q \in SessionRecords
    BY <2>1, <1>0 DEF SessionRecords, OptCandidates
  <2>3. StillJustified(q)
    BY <2>1, <1>0, <1>1, SequencesAreIntegers DEF SessionRecords, StillJustified, SwitchRecommended
  <2>4. ProperCheckpoint(q)
    BY <2>1, <1>0, SequencesAreIntegers DEF RecordInv, SessionRecords, ProperCheckpoint
  <2> QED BY <2>2, <2>3, <2>4 DEF RecordInv
<1>2. CASE ~SwitchRecommended(r, snapshot, pays)
  <2>1. q = [r EXCEPT !.lastObserved = snapshot.sequence]
    BY <1>2 DEF Observed
  <2>2. q \in SessionRecords
    BY <2>1, <1>0 DEF SessionRecords
  <2>3. StillJustified(q)
    BY <2>1, <1>0, SequencesAreIntegers DEF RecordInv, SessionRecords, Snapshots, StillJustified
  <2>4. ProperCheckpoint(q)
    BY <2>1, <1>0, SequencesAreIntegers DEF RecordInv, SessionRecords, ProperCheckpoint
  <2> QED BY <2>2, <2>3, <2>4 DEF RecordInv
<1> QED BY <1>1, <1>2

\* confirm: the checkpoint precedes the switch since the pending snapshot
\* was justified against the baseline and the switch that are saved.
LEMMA ConfirmedInv ==
    ASSUME NEW r, RecordInv(r), r.pendingCandidate # NoCandidate
    PROVE  RecordInv(Confirmed(r))
<1>1. r \in SessionRecords /\ r.pendingSnapshot \in Snapshots /\ r.pendingCandidate \in Candidates
  BY DEF RecordInv, StillJustified, SessionRecords, OptCandidates
<1>2. Confirmed(r) \in SessionRecords
  BY <1>1 DEF Confirmed, SessionRecords, Snapshots, OptCandidates, OptSequenceNumbers
<1>3. StillJustified(Confirmed(r))
  BY <1>1 DEF Confirmed, StillJustified, SessionRecords
<1>4. ProperCheckpoint(Confirmed(r))
  BY <1>1, NoCandidateAssumption, SequencesAreIntegers
     DEF RecordInv, Confirmed, StillJustified, ProperCheckpoint, SessionRecords, Snapshots
<1> QED BY <1>2, <1>3, <1>4 DEF RecordInv

\* rollback_last_switch
LEMMA RolledBackInv ==
    ASSUME NEW r, RecordInv(r), r.rollbackAvailable,
           r.previousCandidate # NoCandidate, r.pendingCandidate = NoCandidate
    PROVE  RecordInv(RolledBack(r))
<1>1. r \in SessionRecords /\ r.previousCandidate \in Candidates
  BY DEF RecordInv, SessionRecords, OptCandidates
<1>2. RolledBack(r) \in SessionRecords
  BY <1>1 DEF RolledBack, SessionRecords, OptCandidates, OptSequenceNumbers
<1>3. StillJustified(RolledBack(r)) /\ ProperCheckpoint(RolledBack(r))
  BY <1>1 DEF RolledBack, StillJustified, ProperCheckpoint, SessionRecords
<1> QED BY <1>2, <1>3 DEF RecordInv

\* abort_pending
LEMMA AbortedInv ==
    ASSUME NEW r, RecordInv(r)
    PROVE  RecordInv([r EXCEPT !.pendingCandidate = NoCandidate, !.pendingSnapshot = NoSnapshot])
BY DEF RecordInv, SessionRecords, OptCandidates, StillJustified, ProperCheckpoint

-----------------------------------------------------------------------------
\* No session yet.
LEMMA RuntimeInvInit == RuntimeInit => RuntimeInv
BY InvByRecord DEF RuntimeInit

\* Every method of RuntimeController preserves the invariant.
LEMMA RuntimeInvNext == RuntimeInv /\ [RuntimeNext]_runtimeVars => RuntimeInv'
<1> SUFFICES ASSUME RuntimeInv, [RuntimeNext]_runtimeVars PROVE RuntimeInv'
  OBVIOUS
<1>0. RuntimeTypeOK
  BY DEF RuntimeInv
\* Replacing one record by one that satisfies RecordInv preserves RuntimeInv.
<1>1. ASSUME NEW s \in Sessions, NEW q, RecordInv(q), session' = [session EXCEPT ![s] = q]
      PROVE  RuntimeInv'
  <2>1. \A u \in Sessions : session'[u] = IF u = s THEN q ELSE session[u]
    BY <1>0, <1>1 DEF RuntimeTypeOK
  <2>2. session' \in [Sessions -> SessionRecords \cup {NoSession}]
    BY <1>0, <1>1 DEF RuntimeTypeOK, RecordInv
  <2>3. q # NoSession
    BY <1>1, NoSessionAssumption DEF RecordInv
  <2> QED BY <1>1, <2>1, <2>2, <2>3
         DEF RuntimeInv, RuntimeTypeOK, PendingStillJustified, CheckpointPrecedesSwitch,
             RecordInv, Started
<1>2. ASSUME NEW s \in Sessions, NEW candidate \in Candidates, NEW baseline \in Snapshots,
             NEW cooldown \in Cooldowns, Start(s, candidate, baseline, cooldown)
      PROVE  RuntimeInv'
  BY <1>1, <1>2, NewSessionInv DEF Start
<1>3. ASSUME NEW s \in Sessions, NEW snapshot \in Snapshots, NEW alternative \in Candidates,
             NEW pays \in BOOLEAN, Observe(s, snapshot, alternative, pays)
      PROVE  RuntimeInv'
  BY <1>1, <1>3, StartedRecord, ObservedInv DEF Observe
<1>4. ASSUME NEW s \in Sessions, NEW candidate \in Candidates, Confirm(s, candidate)
      PROVE  RuntimeInv'
  BY <1>1, <1>4, StartedRecord, ConfirmedInv DEF Confirm, ConfirmOk
<1>5. ASSUME NEW s \in Sessions, RollbackLastSwitch(s)
      PROVE  RuntimeInv'
  BY <1>1, <1>5, StartedRecord, RolledBackInv DEF RollbackLastSwitch, RollbackLastSwitchOk
<1>6. ASSUME NEW s \in Sessions, AbortPending(s)
      PROVE  RuntimeInv'
  <2> DEFINE q == [session[s] EXCEPT !.pendingCandidate = NoCandidate,
                                     !.pendingSnapshot = NoSnapshot]
  <2>1. session' = [session EXCEPT ![s] = q]
    BY <1>0, <1>6 DEF AbortPending, RuntimeTypeOK
  <2>2. RecordInv(q)
    BY <1>6, StartedRecord, AbortedInv DEF AbortPending
  <2> QED BY <1>1, <2>1, <2>2
<1>7. CASE UNCHANGED runtimeVars
  BY <1>7 DEF runtimeVars, RuntimeInv, RuntimeTypeOK, PendingStillJustified,
              CheckpointPrecedesSwitch, Started
<1>8. CASE RuntimeNext
  BY <1>8, <1>2, <1>3, <1>4, <1>5, <1>6, Zenon DEF RuntimeNext
<1> QED BY <1>7, <1>8

-----------------------------------------------------------------------------
(***************************************************************************)
(* Whatever sequence of observations, confirmations, rollbacks and aborts  *)
(* a session goes through: its record is well formed, a pending            *)
(* recommendation stays justified, and the rollback checkpoint is there    *)
(* exactly while rollback is offered and precedes the switch in force.     *)
(***************************************************************************)
THEOREM RuntimeInvariant == RuntimeSpec => []RuntimeInv
BY RuntimeInvInit, RuntimeInvNext, PTL DEF RuntimeSpec

\* The session table keeps its type.
THEOREM RuntimeTypeCorrect == RuntimeSpec => []RuntimeTypeOK
<1>1. RuntimeInv => RuntimeTypeOK
  BY DEF RuntimeInv
<1> QED BY <1>1, RuntimeInvariant, PTL

\* A recommendation confirmed late is as good as one confirmed at once.
THEOREM PendingJustified == RuntimeSpec => []PendingStillJustified
<1>1. RuntimeInv => PendingStillJustified
  BY DEF RuntimeInv
<1> QED BY <1>1, RuntimeInvariant, PTL

\* rollback_last_switch always restores the state before the switch in force.
THEOREM CheckpointCorrect == RuntimeSpec => []CheckpointPrecedesSwitch
<1>1. RuntimeInv => CheckpointPrecedesSwitch
  BY DEF RuntimeInv
<1> QED BY <1>1, RuntimeInvariant, PTL

\* Beyond a cooldown is later.
LEMMA CooldownIsForward ==
    ASSUME NEW last \in OptSequenceNumbers, NEW cooldown \in Cooldowns, NEW n \in SequenceNumbers,
           CooldownOver(last, cooldown, n)
    PROVE  last < n
<1>1. cooldown \in Nat /\ n \in Nat /\ last \in Int
  BY SequencesAreIntegers, CooldownsAssumption
<1>2. CASE last = NoSequence
  BY <1>1, <1>2 DEF NoSequence
<1>3. CASE n > last + cooldown
  BY <1>1, <1>3
<1> QED BY <1>2, <1>3 DEF CooldownOver

\* A confirmed switch lies beyond the cooldown of the one before it; a
\* rollback returns to the checkpoint; nothing else changes the candidate.
LEMMA MethodsLeaveCandidate ==
    ASSUME NEW r, RecordInv(r)
    PROVE  /\ \A snapshot \in Snapshots, alternative \in Candidates, pays \in BOOLEAN :
                  LeavesCandidate(r, Observed(r, snapshot, alternative, pays))
           /\ r.pendingCandidate # NoCandidate => LeavesCandidate(r, Confirmed(r))
           /\ r.rollbackAvailable => LeavesCandidate(r, RolledBack(r))
           /\ LeavesCandidate(r, [r EXCEPT !.pendingCandidate = NoCandidate,
                                           !.pendingSnapshot = NoSnapshot])
<1>1. r \in SessionRecords
  BY DEF RecordInv
<1>2. ASSUME NEW snapshot \in Snapshots, NEW alternative \in Candidates, NEW pays \in BOOLEAN
      PROVE  Observed(r, snapshot, alternative, pays).active = r.active
  BY <1>1 DEF Observed, SessionRecords
<1>3. ASSUME r.pendingCandidate # NoCandidate
      PROVE  LeavesCandidate(r, Confirmed(r))
  <2>1. /\ r.pendingSnapshot.sequence \in SequenceNumbers
        /\ CooldownOver(r.lastSwitch, r.cooldown, r.pendingSnapshot.sequence)
    BY <1>1, <1>3 DEF RecordInv, StillJustified, Snapshots
  <2>2. /\ Confirmed(r).rollbackAvailable /\ Confirmed(r).previousCandidate = r.active
        /\ Confirmed(r).lastSwitch = r.pendingSnapshot.sequence
    BY <1>1 DEF Confirmed, SessionRecords
  <2>3. r.lastSwitch \in OptSequenceNumbers /\ r.cooldown \in Cooldowns
    BY <1>1 DEF SessionRecords
  <2>4. r.lastSwitch < r.pendingSnapshot.sequence
    BY <2>1, <2>3, CooldownIsForward
  <2>5. r.pendingSnapshot.sequence > r.lastSwitch
    BY <2>1, <2>3, <2>4, SequencesAreIntegers
  <2> QED BY <2>1, <2>2, <2>5 DEF LeavesCandidate
<1>4. ASSUME r.rollbackAvailable
      PROVE  LeavesCandidate(r, RolledBack(r))
  <2>1. /\ r.lastSwitch # NoSequence
        /\ CooldownOver(r.previousSwitch, r.cooldown, r.lastSwitch)
    BY <1>4 DEF RecordInv, ProperCheckpoint
  <2>2. /\ ~RolledBack(r).rollbackAvailable
        /\ RolledBack(r).active = r.previousCandidate
        /\ RolledBack(r).lastSwitch = r.previousSwitch
    BY <1>1 DEF RolledBack, SessionRecords
  <2>3. /\ r.lastSwitch \in SequenceNumbers
        /\ r.previousSwitch \in OptSequenceNumbers
        /\ r.cooldown \in Cooldowns
    BY <1>1, <2>1 DEF SessionRecords, OptSequenceNumbers
  <2>4. r.previousSwitch < r.lastSwitch
    BY <2>1, <2>3, CooldownIsForward
  <2> QED BY <1>4, <2>2, <2>4 DEF LeavesCandidate
<1>5. LeavesCandidate(r, [r EXCEPT !.pendingCandidate = NoCandidate, !.pendingSnapshot = NoSnapshot])
  BY <1>1 DEF LeavesCandidate, SessionRecords
<1> QED BY <1>2, <1>3, <1>4, <1>5 DEF LeavesCandidate

\* Whatever the step, a session leaves its candidate only in those ways.
LEMMA StepLeavesCandidate ==
    ASSUME RuntimeInv, [RuntimeNext]_runtimeVars, NEW u \in Sessions, Started(u)
    PROVE  LeavesCandidate(session[u], session'[u])
<1>0. RuntimeTypeOK /\ RecordInv(session[u])
  BY StartedRecord DEF RuntimeInv
<1>1. ASSUME session'[u] = session[u] PROVE LeavesCandidate(session[u], session'[u])
  BY <1>1 DEF LeavesCandidate
<1>2. CASE UNCHANGED runtimeVars
  BY <1>1, <1>2 DEF runtimeVars
<1>3. ASSUME NEW s \in Sessions,
             \/ \E candidate \in Candidates, baseline \in Snapshots, cooldown \in Cooldowns :
                   Start(s, candidate, baseline, cooldown)
             \/ \E snapshot \in Snapshots, alternative \in Candidates, pays \in BOOLEAN :
                   Observe(s, snapshot, alternative, pays)
             \/ \E candidate \in Candidates : Confirm(s, candidate)
             \/ RollbackLastSwitch(s)
             \/ AbortPending(s)
      PROVE  LeavesCandidate(session[u], session'[u])
  <2>1. CASE s # u
    <3>1. session'[u] = session[u]
      BY <1>0, <1>3, <2>1
         DEF RuntimeTypeOK, Start, Observe, Confirm, RollbackLastSwitch, AbortPending
    <3> QED BY <1>1, <3>1
  <2>2. CASE s = u
    <3>1. ASSUME NEW snapshot \in Snapshots, NEW alternative \in Candidates, NEW pays \in BOOLEAN,
                 Observe(s, snapshot, alternative, pays)
          PROVE  session'[u] = Observed(session[u], snapshot, alternative, pays)
      BY <1>0, <2>2, <3>1 DEF Observe, RuntimeTypeOK
    <3>2. ASSUME NEW candidate \in Candidates, Confirm(s, candidate)
          PROVE  session'[u] = Confirmed(session[u]) /\ session[u].pendingCandidate # NoCandidate
      BY <1>0, <2>2, <3>2 DEF Confirm, ConfirmOk, RuntimeTypeOK
    <3>3. ASSUME RollbackLastSwitch(s)
          PROVE  session'[u] = RolledBack(session[u]) /\ session[u].rollbackAvailable
      BY <1>0, <2>2, <3>3 DEF RollbackLastSwitch, RollbackLastSwitchOk, RuntimeTypeOK
    <3>4. ASSUME AbortPending(s)
          PROVE  session'[u] = [session[u] EXCEPT !.pendingCandidate = NoCandidate,
                                                  !.pendingSnapshot = NoSnapshot]
      BY <1>0, <2>2, <3>4 DEF AbortPending, RuntimeTypeOK
    <3>5. ASSUME NEW candidate \in Candidates, NEW baseline \in Snapshots, NEW cooldown \in Cooldowns
          PROVE  ~Start(s, candidate, baseline, cooldown)
      BY <2>2 DEF Start
    <3> QED BY <1>0, <1>3, <3>1, <3>2, <3>3, <3>4, <3>5, MethodsLeaveCandidate
  <2> QED BY <2>1, <2>2
<1> QED BY <1>2, <1>3 DEF RuntimeNext

(***************************************************************************)
(* A session changes its candidate only outside the cooldown of the switch *)
(* on record, leaving a checkpoint of the candidate that it had, or by     *)
(* going back to its checkpoint.                                           *)
(***************************************************************************)
THEOREM SwitchesRespectCooldown == RuntimeSpec => SwitchesOutsideCooldown
<1>1. RuntimeInv /\ [RuntimeNext]_runtimeVars
        => [\A s \in Sessions : Started(s) => LeavesCandidate(session[s], session'[s])]_runtimeVars
  BY StepLeavesCandidate
<1> QED BY <1>1, RuntimeInvariant, PTL DEF RuntimeSpec, SwitchesOutsideCooldown

=============================================================================
