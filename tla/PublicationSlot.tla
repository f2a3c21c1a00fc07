--------------------------- MODULE PublicationSlot ---------------------------
(***************************************************************************)
(* core/include/morpheus: VersionedSlot (one payload type) and             *)
(* ErasedVersionedSlot (any payload type), and the migration helpers that  *)
(* publish through the latter.  Readers and writers are threads of one     *)
(* process.  A step is one atomic load of active_, one critical section of *)
(* transition_mutex_, or a verdict of the caller's validator.  Payloads    *)
(* are immutable: the one first published as generation g is named g.      *)
(***************************************************************************)
EXTENDS Integers, Sequences

CONSTANTS
    Writers,
    CandidateIds,
    Layouts,            \* payload types
    MaxGeneration       \* bound: no publication beyond it

ASSUME MaxGenerationAssumption == MaxGeneration \in Nat \ {0}

VARIABLES
    kind,               \* the class of the slot: "typed" or "erased"
    current,            \* active_
    history,           \* rollback_
    writer              \* where each writer is, and the versions it holds

slotVars == <<kind, current, history, writer>>

NoSource == 0

\* A Version; source is the payload that its validator saw, NoSource when the
\* version was published without one.
SlotVersions ==
    [ generation : 1 .. MaxGeneration,
      candidate  : CandidateIds,
      layout     : Layouts,
      payload    : 1 .. MaxGeneration,
      source     : 0 .. MaxGeneration ]

WriterPlaces == {"idle", "holding", "published", "checked", "probed", "rejected", "accepted"}

\* held is the last lease; own the generation a migration has published, and
\* probed the payload its health check ran on.
WriterStates ==
    [ at     : WriterPlaces,
      held   : SlotVersions,
      own    : 0 .. MaxGeneration,
      probed : 0 .. MaxGeneration ]

WriterAt(t, place) == writer[t].at = place
Lineage == Append(history, current)

SlotTypeOK ==
    /\ kind \in {"typed", "erased"}
    /\ current \in SlotVersions
    /\ history \in Seq(SlotVersions)
    /\ writer \in [Writers -> WriterStates]

\* The exact-version comparison: candidate id and generation.
IsActive(v) == v.candidate = current.candidate /\ v.generation = current.generation

MoveTo(t, place) == writer' = [writer EXCEPT ![t].at = place]

\* An exception or a return: the call is over, its locals are gone.
Locals(place, held) == [at |-> place, held |-> held, own |-> NoSource, probed |-> NoSource]
ReturnFrom(t) == writer' = [writer EXCEPT ![t] = Locals("idle", @.held)]
RefuseCall(t) == ReturnFrom(t) /\ UNCHANGED <<kind, current, history>>

-----------------------------------------------------------------------------
\* lease, and the first load of VersionedSlot::activate_validated.
LeaseActive(t) ==
    /\ writer[t].at \in {"idle", "holding", "accepted"}
    /\ writer' = [writer EXCEPT ![t] = Locals("holding", current)]
    /\ UNCHANGED <<kind, current, history>>

\* Publication under the mutex: the current version goes on the stack.
Push(candidate, layout, source) ==
    /\ current.generation < MaxGeneration
    /\ candidate # current.candidate
    /\ history' = Append(history, current)
    /\ current' = [ generation |-> current.generation + 1, candidate |-> candidate,
                   layout |-> layout, payload |-> current.generation + 1, source |-> source ]
    /\ UNCHANGED kind

\* rollback_locked: the last version comes back as a new generation.
Pop ==
    /\ current.generation < MaxGeneration
    /\ history # <<>>
    /\ current' = [history[Len(history)] EXCEPT !.generation = current.generation + 1]
    /\ history' = SubSeq(history, 1, Len(history) - 1)
    /\ UNCHANGED kind

\* VersionedSlot::activate: the caller names the candidate it replaces.
ReplaceCandidate(t, from, to) ==
    /\ kind = "typed"
    /\ WriterAt(t, "idle")
    /\ current.candidate = from
    /\ Push(to, current.layout, NoSource)
    /\ UNCHANGED writer

\* Seeded fault: only the candidate id is compared.
MayReplace_ById(v) == v.candidate = current.candidate

\* activate_validated of both slots, once the validator has accepted: only
\* over the version that it saw.  A typed slot keeps its layout.
MayReplace(v) == IsActive(v)

ActivateValidated(t, to, layout) ==
    /\ WriterAt(t, "holding")
    /\ kind = "typed" => layout = current.layout
    /\ MayReplace(writer[t].held)
    /\ Push(to, layout, writer[t].held.payload)
    /\ ReturnFrom(t)

\* migrate_validate_and_activate inside migrate_publish_with_health_gate: the
\* source is the payload of the expected version, and the slot is erased.
MigrateAndPublish(t, to, layout) ==
    /\ kind = "erased"
    /\ WriterAt(t, "holding")
    /\ MayReplace(writer[t].held)
    /\ Push(to, layout, writer[t].held.payload)
    /\ writer' = [writer EXCEPT ![t].at = "published", ![t].own = current'.generation]

\* The validator, the rebuild or one of the comparisons refuses.
GiveUp(t) == WriterAt(t, "holding") /\ RefuseCall(t)

\* slot.lease() after the publication: it must still be the own version.
CheckPublished(t) ==
    /\ WriterAt(t, "published")
    /\ IF current.generation = writer[t].own
          THEN /\ writer' = [writer EXCEPT ![t].at = "checked", ![t].held = current]
               /\ UNCHANGED <<kind, current, history>>
          ELSE RefuseCall(t)

\* slot.lease_as<TargetIndex>(): a second load, and std::bad_cast when the
\* version it finds has another layout.
LeaseTarget(t) ==
    /\ WriterAt(t, "checked")
    /\ IF current.layout = writer[t].held.layout
          THEN /\ writer' = [writer EXCEPT ![t].at = "probed", ![t].probed = current.payload]
               /\ UNCHANGED <<kind, current, history>>
          ELSE RefuseCall(t)

\* The post-publication validator: true, or false or an exception.
Healthy(t) == WriterAt(t, "probed") /\ MoveTo(t, "accepted") /\ UNCHANGED <<kind, current, history>>
Unhealthy(t) == WriterAt(t, "probed") /\ MoveTo(t, "rejected") /\ UNCHANGED <<kind, current, history>>

\* Seeded fault: the rollback is by candidate id.
MayUndo_ById(v) == v.candidate = current.candidate

\* slot.rollback(published): by exact version, or an exception.
MayUndo(v) == IsActive(v)

UndoPublication(t) ==
    /\ WriterAt(t, "rejected")
    /\ \/ MayUndo(writer[t].held) /\ Pop /\ ReturnFrom(t)
       \/ (~MayUndo(writer[t].held) \/ history = <<>>) /\ RefuseCall(t)

\* rollback by exact version (erased), and by candidate id (both).
RollbackVersion(t) ==
    /\ kind = "erased"
    /\ WriterAt(t, "holding")
    /\ IsActive(writer[t].held)
    /\ Pop
    /\ ReturnFrom(t)

RollbackCandidate(t, candidate) ==
    /\ writer[t].at \in {"idle", "holding"}
    /\ current.candidate = candidate
    /\ Pop
    /\ UNCHANGED writer

\* retire_rollback_history, by exact version.
Retire(t) ==
    /\ kind = "erased"
    /\ WriterAt(t, "holding")
    /\ IsActive(writer[t].held)
    /\ history # <<>>
    /\ history' = <<>>
    /\ ReturnFrom(t)
    /\ UNCHANGED <<kind, current>>

SlotInit ==
    /\ kind \in {"typed", "erased"}
    /\ \E candidate \in CandidateIds, layout \in Layouts :
          current = [ generation |-> 1, candidate |-> candidate, layout |-> layout,
                     payload |-> 1, source |-> NoSource ]
    /\ history = <<>>
    /\ writer = [t \in Writers |-> Locals("idle", current)]

SlotNext ==
    \E t \in Writers :
        \/ LeaseActive(t) \/ GiveUp(t) \/ CheckPublished(t) \/ LeaseTarget(t)
        \/ Healthy(t) \/ Unhealthy(t) \/ UndoPublication(t)
        \/ RollbackVersion(t) \/ Retire(t)
        \/ \E from, to \in CandidateIds : ReplaceCandidate(t, from, to)
        \/ \E candidate \in CandidateIds : RollbackCandidate(t, candidate)
        \/ \E to \in CandidateIds, layout \in Layouts :
              ActivateValidated(t, to, layout) \/ MigrateAndPublish(t, to, layout)

SlotSpec == SlotInit /\ [][SlotNext]_slotVars

-----------------------------------------------------------------------------
(***************************************************************************)
(* "The generation check closes the candidate-id ABA window": a payload    *)
(* that was rebuilt from, or validated against, another one directly       *)
(* follows that one in the history, so that a publication never drops what *)
(* a third version held, and a rollback returns to what was migrated.      *)
(***************************************************************************)
DerivedFromPredecessor ==
    \A i \in 2 .. Len(Lineage) :
        Lineage[i].source \in {NoSource, Lineage[i - 1].payload}

(***************************************************************************)
(* The rollback after a failed health check removes the caller's own       *)
(* publication, whatever other threads did in between, and returns to the  *)
(* payload the migration has started from.                                 *)
(***************************************************************************)
UndoesOwnPublication ==
    [][ \A t \in Writers :
          (WriterAt(t, "rejected") /\ writer'[t].at = "idle" /\ current' # current)
          => /\ current.payload = writer[t].own
             /\ current'.payload = current.source ]_slotVars

(***************************************************************************)
(* An accepted migration was probed: "a post-publication health check      *)
(* against the newly active typed payload" (migration_publish.hpp).        *)
(***************************************************************************)
AcceptedWasProbed ==
    \A t \in Writers : WriterAt(t, "accepted") => writer[t].probed = writer[t].own
=============================================================================
