------------------------- MODULE IdempotencyJournal -------------------------
(***************************************************************************)
(* backend/app/idempotency.py: one SQLite record per (operation, key), and *)
(* the permanent resolutions of operators.  A key here stands for the      *)
(* hashed pair.  A method that finds the database busy or full raises and  *)
(* changes nothing; the callers decide what follows.                       *)
(***************************************************************************)
CONSTANTS
    Keys,               \* (operation, key_sha256) pairs
    Digests,            \* request_sha256 of the requests that clients send
    Reasons,            \* reason_sha256 of operators
    Responses,          \* responses that can be completed with
    NoRecord, NoResponse, NoResolution

ASSUME NoResponseAssumption == NoResponse \notin Responses

VARIABLES
    record,             \* idempotency_records
    resolution          \* idempotency_resolutions (CONFIRMED_SIDE_EFFECT_PRESENT)

journalVars == <<record, resolution>>

JournalRecords ==
    [ digest   : Digests,
      state    : {"PENDING", "COMPLETED", "AMBIGUOUS_FAILURE"},
      response : Responses \cup {NoResponse} ]

Resolutions == [digest : Digests, reason : Reasons]

ASSUME NoRecordAssumption == NoRecord \notin JournalRecords
ASSUME NoResolutionAssumption == NoResolution \notin Resolutions

JournalTypeOK ==
    /\ record \in [Keys -> JournalRecords \cup {NoRecord}]
    /\ resolution \in [Keys -> Resolutions \cup {NoResolution}]

JournalInit ==
    /\ record = [k \in Keys |-> NoRecord]
    /\ resolution = [k \in Keys |-> NoResolution]

\* The WHERE clause of every update: this key, this digest, this state.
Holds(k, g, state) ==
    record[k] # NoRecord /\ record[k].digest = g /\ record[k].state = state

Resolved(k) == resolution[k] # NoResolution

-----------------------------------------------------------------------------
\* Seeded fault: a key that was used for another request is replayed.
ClaimDisposition_IgnoresDigest(k, g) ==
    IF record[k] = NoRecord THEN "NEW"
    ELSE CASE record[k].state = "COMPLETED" -> "REPLAY"
           [] record[k].state = "AMBIGUOUS_FAILURE" -> IF Resolved(k) THEN "RESOLVED" ELSE "AMBIGUOUS"
           [] record[k].state = "PENDING" -> "IN_PROGRESS"

\* Seeded fault: a resolution is taken for the end of the incident.
ClaimDisposition_ResolvedIsNew(k, g) ==
    IF record[k] = NoRecord THEN "NEW"
    ELSE IF record[k].digest # g THEN "CONFLICT"
    ELSE CASE record[k].state = "COMPLETED" -> "REPLAY"
           [] record[k].state = "AMBIGUOUS_FAILURE" -> IF Resolved(k) THEN "NEW" ELSE "AMBIGUOUS"
           [] record[k].state = "PENDING" -> "IN_PROGRESS"

\* What claim() answers; NEW reserves the key.
ClaimDisposition(k, g) ==
    IF record[k] = NoRecord THEN "NEW"
    ELSE IF record[k].digest # g THEN "CONFLICT"
    ELSE CASE record[k].state = "COMPLETED" -> "REPLAY"
           [] record[k].state = "AMBIGUOUS_FAILURE" -> IF Resolved(k) THEN "RESOLVED" ELSE "AMBIGUOUS"
           [] record[k].state = "PENDING" -> "IN_PROGRESS"

Reserve(k, g) ==
    /\ ClaimDisposition(k, g) = "NEW"
    /\ record' = [record EXCEPT ![k] =
           [digest |-> g, state |-> "PENDING", response |-> NoResponse]]
    /\ UNCHANGED resolution

\* Seeded fault: the response is not stored.
Complete_NoResponse(k, g, response) ==
    /\ Holds(k, g, "PENDING")
    /\ record' = [record EXCEPT ![k].state = "COMPLETED"]
    /\ UNCHANGED resolution

Complete(k, g, response) ==
    /\ Holds(k, g, "PENDING")
    /\ record' = [record EXCEPT ![k].state = "COMPLETED", ![k].response = response]
    /\ UNCHANGED resolution

MarkAmbiguousFailure(k, g) ==
    /\ Holds(k, g, "PENDING")
    /\ record' = [record EXCEPT ![k].state = "AMBIGUOUS_FAILURE", ![k].response = NoResponse]
    /\ UNCHANGED resolution

\* A DELETE that matches nothing is not an error.
ReleasePending(k, g) ==
    /\ record' = IF Holds(k, g, "PENDING") THEN [record EXCEPT ![k] = NoRecord] ELSE record
    /\ UNCHANGED resolution

-----------------------------------------------------------------------------
(* The resolutions run in the operator's process.  Each reads before it    *)
(* writes, and Python's sqlite3 opens the transaction only at the write:   *)
(* other processes commit in between.  ...Checks is what the reads accept, *)
(* the actions are the write transactions.                                 *)

Unresolved(k, g) == Holds(k, g, "AMBIGUOUS_FAILURE") /\ ~Resolved(k)

\* resolve_confirmed_side_effect_present: the repetition of a resolution for
\* the same reason returns, with nothing left to write.
AlreadyPresent(k, g, reason) == resolution[k] = [digest |-> g, reason |-> reason]

PresentChecks(k, g, reason) ==
    /\ Holds(k, g, "AMBIGUOUS_FAILURE")
    /\ Resolved(k) => AlreadyPresent(k, g, reason)

\* The primary key refuses a second resolution; the record is not looked at.
ResolvePresent(k, g, reason) ==
    /\ ~Resolved(k)
    /\ resolution' = [resolution EXCEPT ![k] = [digest |-> g, reason |-> reason]]
    /\ UNCHANGED record

NoSideEffectChecks(k) == ~Resolved(k)

ResolveNoSideEffect(k, g) ==
    /\ Holds(k, g, "AMBIGUOUS_FAILURE")
    /\ record' = [record EXCEPT ![k] = NoRecord]
    /\ UNCHANGED resolution

=============================================================================
