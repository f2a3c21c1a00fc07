------------------------- MODULE RuntimeController -------------------------
(***************************************************************************)
(* backend/app/runtime.py: the two-phase runtime adaptation controller.    *)
(* Every public method runs under one RLock, so a method is one action.  A *)
(* call that raises changes nothing and is not a step here; the guards     *)
(* (StartOk, ConfirmOk, ...) are named because callers observe the raise.  *)
(***************************************************************************)
EXTENDS AdaptationData

CONSTANTS
    Mixes,              \* workload mixes: operation mix and access distribution
    DriftPairs,         \* <<baseline, observed>> whose distance meets the threshold
    SequenceNumbers,    \* snapshot sequence numbers (a finite prefix for TLC)
    Cooldowns,          \* values of cooldown_windows
    NoSession, NoMix, NoSnapshot    \* None, absent from the dict

ASSUME SequenceNumbersAssumption == SequenceNumbers \subseteq Nat
ASSUME CooldownsAssumption == Cooldowns \subseteq Nat
ASSUME NoMixAssumption == NoMix \notin Mixes

\* ObservedWorkloadSnapshot, reduced to the fields the controller reads.
Snapshots == [sequence : SequenceNumbers, mix : Mixes]

\* None for an optional sequence number; real sequence numbers are >= 0.
NoSequence == -1
OptSequenceNumbers == SequenceNumbers \cup {NoSequence}

VARIABLE session    \* _sessions: id -> record, NoSession before start

runtimeVars == <<session>>

SessionRecords ==
    [ active            : Candidates,
      baseline          : Mixes,
      cooldown          : Cooldowns,
      lastSwitch        : OptSequenceNumbers,
      lastObserved      : SequenceNumbers,
      pendingCandidate  : OptCandidates,
      pendingSnapshot   : Snapshots \cup {NoSnapshot},
      previousCandidate : OptCandidates,
      previousBaseline  : Mixes \cup {NoMix},
      previousSwitch    : OptSequenceNumbers,
      rollbackAvailable : BOOLEAN ]

ASSUME NoSessionAssumption == NoSession \notin SessionRecords
ASSUME NoSnapshotAssumption == NoSnapshot \notin Snapshots

RuntimeTypeOK == session \in [Sessions -> SessionRecords \cup {NoSession}]

Started(s) == session[s] # NoSession

-----------------------------------------------------------------------------
(* decide_adaptation *)

CooldownOver(lastSwitch, cooldown, sequence) ==
    lastSwitch = NoSequence \/ sequence > lastSwitch + cooldown

\* pays: the predicted benefit exceeds the transition-cost threshold.
\* Seeded fault: the cooldown is not consulted.
SwitchRecommended_NoCooldown(r, snapshot, pays) ==
    /\ <<r.baseline, snapshot.mix>> \in DriftPairs
    /\ pays

SwitchRecommended(r, snapshot, pays) ==
    /\ CooldownOver(r.lastSwitch, r.cooldown, snapshot.sequence)
    /\ <<r.baseline, snapshot.mix>> \in DriftPairs
    /\ pays

-----------------------------------------------------------------------------
(* The methods *)

NewSession(candidate, baseline, cooldown) ==
    [ active            |-> candidate,
      baseline          |-> baseline.mix,
      cooldown          |-> cooldown,
      lastSwitch        |-> NoSequence,
      lastObserved      |-> baseline.sequence,
      pendingCandidate  |-> NoCandidate,
      pendingSnapshot   |-> NoSnapshot,
      previousCandidate |-> NoCandidate,
      previousBaseline  |-> NoMix,
      previousSwitch    |-> NoSequence,
      rollbackAvailable |-> FALSE ]

Start(s, candidate, baseline, cooldown) ==
    /\ ~Started(s)
    /\ session' = [session EXCEPT ![s] = NewSession(candidate, baseline, cooldown)]

\* A recommendation replaces a pending one; no other decision clears it.
Observed(r, snapshot, alternative, pays) ==
    IF SwitchRecommended(r, snapshot, pays)
    THEN [r EXCEPT !.lastObserved = snapshot.sequence,
                   !.pendingCandidate = alternative,
                   !.pendingSnapshot = snapshot]
    ELSE [r EXCEPT !.lastObserved = snapshot.sequence]

Observe(s, snapshot, alternative, pays) ==
    /\ Started(s)
    /\ snapshot.sequence > session[s].lastObserved
    /\ session' = [session EXCEPT ![s] = Observed(@, snapshot, alternative, pays)]

ConfirmOk(s, candidate) ==
    /\ Started(s)
    /\ session[s].pendingCandidate # NoCandidate
    /\ candidate = session[s].pendingCandidate

\* Seeded fault: the checkpoint is saved after the switch.
Confirmed_SavesLate(r) ==
    [r EXCEPT !.previousCandidate = r.active,
              !.previousBaseline = r.pendingSnapshot.mix,
              !.previousSwitch = r.lastSwitch,
              !.rollbackAvailable = TRUE,
              !.active = r.pendingCandidate,
              !.lastSwitch = r.pendingSnapshot.sequence,
              !.baseline = r.pendingSnapshot.mix,
              !.pendingCandidate = NoCandidate,
              !.pendingSnapshot = NoSnapshot]

Confirmed(r) ==
    [r EXCEPT !.previousCandidate = r.active,
              !.previousBaseline = r.baseline,
              !.previousSwitch = r.lastSwitch,
              !.rollbackAvailable = TRUE,
              !.active = r.pendingCandidate,
              !.lastSwitch = r.pendingSnapshot.sequence,
              !.baseline = r.pendingSnapshot.mix,
              !.pendingCandidate = NoCandidate,
              !.pendingSnapshot = NoSnapshot]

Confirm(s, candidate) ==
    /\ ConfirmOk(s, candidate)
    /\ session' = [session EXCEPT ![s] = Confirmed(@)]

\* Seeded fault: a pending recommendation does not block the rollback.
RollbackLastSwitchOk_IgnoresPending(s) ==
    /\ Started(s)
    /\ session[s].rollbackAvailable
    /\ session[s].previousCandidate # NoCandidate

RollbackLastSwitchOk(s) ==
    /\ Started(s)
    /\ session[s].rollbackAvailable
    /\ session[s].previousCandidate # NoCandidate
    /\ session[s].pendingCandidate = NoCandidate

RolledBack(r) ==
    [r EXCEPT !.active = r.previousCandidate,
              !.baseline = IF r.previousBaseline # NoMix THEN r.previousBaseline ELSE @,
              !.lastSwitch = r.previousSwitch,
              !.previousCandidate = NoCandidate,
              !.previousBaseline = NoMix,
              !.previousSwitch = NoSequence,
              !.rollbackAvailable = FALSE]

RollbackLastSwitch(s) ==
    /\ RollbackLastSwitchOk(s)
    /\ session' = [session EXCEPT ![s] = RolledBack(@)]

AbortPending(s) ==
    /\ Started(s)
    /\ session' = [session EXCEPT ![s].pendingCandidate = NoCandidate,
                                  ![s].pendingSnapshot = NoSnapshot]

-----------------------------------------------------------------------------
RuntimeInit == session = [s \in Sessions |-> NoSession]

RuntimeNext ==
    \E s \in Sessions :
        \/ \E candidate \in Candidates, baseline \in Snapshots, cooldown \in Cooldowns :
               Start(s, candidate, baseline, cooldown)
        \/ \E snapshot \in Snapshots, alternative \in Candidates, pays \in BOOLEAN :
               Observe(s, snapshot, alternative, pays)
        \/ \E candidate \in Candidates : Confirm(s, candidate)
        \/ RollbackLastSwitch(s)
        \/ AbortPending(s)

RuntimeSpec == RuntimeInit /\ [][RuntimeNext]_runtimeVars

-----------------------------------------------------------------------------
(* Properties *)

(***************************************************************************)
(* A pending recommendation was made by an earlier call, against the       *)
(* baseline and the switch of that moment.  It is still justified by the   *)
(* session's present state: the drift it saw is drift from the baseline    *)
(* now in force, and it lies beyond the cooldown of the switch now on      *)
(* record, so confirming it late is as good as confirming it at once.      *)
(***************************************************************************)
StillJustified(r) ==
    r.pendingCandidate # NoCandidate =>
        /\ r.pendingSnapshot \in Snapshots
        /\ <<r.baseline, r.pendingSnapshot.mix>> \in DriftPairs
        /\ CooldownOver(r.lastSwitch, r.cooldown, r.pendingSnapshot.sequence)
        /\ r.pendingSnapshot.sequence <= r.lastObserved

PendingStillJustified ==
    \A s \in Sessions : Started(s) => StillJustified(session[s])

(***************************************************************************)
(* The rollback checkpoint is there exactly while rollback is offered, and *)
(* it is the state before the switch in force: the switch was caused by    *)
(* drift away from the saved baseline, and it came later than the saved    *)
(* switch by more than the cooldown.                                       *)
(***************************************************************************)
ProperCheckpoint(r) ==
    IF r.rollbackAvailable
    THEN /\ r.previousCandidate # NoCandidate
         /\ r.lastSwitch # NoSequence
         /\ <<r.previousBaseline, r.baseline>> \in DriftPairs
         /\ CooldownOver(r.previousSwitch, r.cooldown, r.lastSwitch)
         /\ r.lastSwitch <= r.lastObserved
    ELSE /\ r.previousCandidate = NoCandidate
         /\ r.previousBaseline = NoMix
         /\ r.previousSwitch = NoSequence

CheckpointPrecedesSwitch ==
    \A s \in Sessions : Started(s) => ProperCheckpoint(session[s])

(***************************************************************************)
(* A switch moves the session to another candidate only outside the        *)
(* cooldown of the switch on record, and its checkpoint names the          *)
(* candidate it has left; and a session leaves its candidate in no other   *)
(* way than by such a switch or by going back to its checkpoint.           *)
(***************************************************************************)
LeavesCandidate(r, q) ==
    q.active # r.active =>
        \/ /\ q.rollbackAvailable
           /\ q.previousCandidate = r.active
           /\ q.lastSwitch > r.lastSwitch
           /\ CooldownOver(r.lastSwitch, r.cooldown, q.lastSwitch)
        \/ /\ r.rollbackAvailable /\ ~q.rollbackAvailable
           /\ q.active = r.previousCandidate
           /\ q.lastSwitch < r.lastSwitch

SwitchesOutsideCooldown ==
    [][\A s \in Sessions : Started(s) => LeavesCandidate(session[s], session'[s])]_runtimeVars

=============================================================================
