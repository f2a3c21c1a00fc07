--------------------------- MODULE FencedResource ---------------------------
(***************************************************************************)
(* backend/app/process_transfer_protected_resource_fencing_*: the SQLite   *)
(* database that holds, for one resource and one fencing authority, the    *)
(* highest fencing generation and the value that the last generation has   *)
(* written.  Callers are processes that may be terminated at any moment;   *)
(* the database undoes what they have not committed.  The identity pair is *)
(* left out, and a mutation stands for its id and its value together.      *)
(***************************************************************************)
EXTENDS Integers, FiniteSets

CONSTANTS
    Callers,
    PairReaders,
    MaxCounter,     \* bound: fencing generations requested
    Mutations,
    FenceOnly,      \* in place of a mutation: conditional_write has none
    NoRow,
    NoCaller

ASSUME FencedResourceAssumption ==
    /\ MaxCounter \in Nat
    /\ FenceOnly \notin Mutations
    /\ NoCaller \notin Callers

Counters == 0 .. MaxCounter

\* Every commit raises the counter, so that a version counts at most these.
RowVersions == 1 .. MaxCounter + 1

FencingRows == [counter : Counters, version : RowVersions]
ResourceRows == [version : RowVersions, mutation : Mutations, counter : Counters]

ASSUME NoRowAssumption == NoRow \notin FencingRows \cup ResourceRows

VARIABLES
    fencing,        \* the row of morpheus_fencing_state, as committed
    resource,       \* the row of morpheus_protected_resource_state, as committed
    writing,        \* the caller inside BEGIN IMMEDIATE, and the rows it has written
    request,        \* that of each caller, and its outcome
    pair,           \* the read transaction of each reader
    committed       \* history: the generations that were applied, and with what

fencedVars == <<fencing, resource, writing, request, pair, committed>>

VersionOf(row) == IF row = NoRow THEN 0 ELSE row.version

CallRecords ==
    [ at       : {"idle", "begin", "decide", "resource", "commit", "write", "answered"},
      counter  : Counters,
      mutation : Mutations \cup {FenceOnly},
      expected : RowVersions \cup {0},     \* expected_version
      outcome  : {"none", "stale", "idempotent", "reused", "conflict", "applied"} ]

PairRecords == [ open : BOOLEAN, fencing : FencingRows \cup {NoRow},
                 resource : ResourceRows \cup {NoRow}, returned : BOOLEAN ]

FencedTypeOK ==
    /\ fencing \in FencingRows \cup {NoRow}
    /\ resource \in ResourceRows \cup {NoRow}
    /\ writing \in [ caller : Callers \cup {NoCaller}, fencing : FencingRows \cup {NoRow},
                     resource : ResourceRows \cup {NoRow} ]
    /\ request \in [Callers -> CallRecords]
    /\ pair \in [PairReaders -> PairRecords]
    /\ committed \subseteq Counters \X (Mutations \cup {FenceOnly})
    /\ writing.caller = NoCaller <=>
          \A c \in Callers : request[c].at \notin {"decide", "resource", "commit"}

\* Seeded fault: a deferred transaction, which takes no lock at BEGIN.
Free_Always == TRUE

\* SQLite: one writer, which cannot commit while a reader is in its transaction.
Free == writing.caller = NoCaller
ReaderOpen == \E r \in PairReaders : pair[r].open
EndWriting == writing' = [caller |-> NoCaller, fencing |-> NoRow, resource |-> NoRow]

NoRequest == [ at |-> "idle", counter |-> 0, mutation |-> FenceOnly, expected |-> 0,
            outcome |-> "none" ]

Go(c, place) == request' = [request EXCEPT ![c].at = place]
EndCall(c) == request' = [request EXCEPT ![c] = NoRequest]
Conclude(c, outcome) == request' = [request EXCEPT ![c].at = "answered", ![c].outcome = outcome]

\* The current generation against the requested one.
Stale(row, counter) == row # NoRow /\ counter < row.counter
Equal(row, counter) == row # NoRow /\ counter = row.counter

Advanced(row, counter) == [counter |-> counter, version |-> VersionOf(row) + 1]

-----------------------------------------------------------------------------
\* mutate: a request, new or repeated.
Request(c, counter, mutation) ==
    /\ request[c].at \in {"idle", "answered"}
    /\ request' = [request EXCEPT ![c] =
           [ at |-> "begin", counter |-> counter, mutation |-> mutation, expected |-> 0, outcome |-> "none" ]]
    /\ UNCHANGED <<fencing, resource, writing, pair, committed>>

\* BEGIN IMMEDIATE takes the write lock, or raises when busy_timeout is over.
Begin(c) ==
    /\ request[c].at = "begin"
    /\ \/ /\ Free
          /\ writing' = [caller |-> c, fencing |-> fencing, resource |-> resource]
          /\ Go(c, "decide")
       \/ ~Free /\ EndCall(c) /\ UNCHANGED writing
    /\ UNCHANGED <<fencing, resource, pair, committed>>

\* Seeded fault: an equal generation is taken for a retry.
Replays_AnyMutation(c) == resource # NoRow /\ resource.counter = request[c].counter

\* An equal generation only replays the mutation that it has made.
Replays(c) == /\ resource # NoRow
              /\ resource.counter = request[c].counter
              /\ resource.mutation = request[c].mutation

\* The decision, and the fencing row of an accepted newer generation.
Decide(c) ==
    /\ request[c].at = "decide"
    /\ LET counter == request[c].counter IN
       \/ /\ Stale(fencing, counter)
          /\ Conclude(c, "stale")
          /\ EndWriting
       \/ /\ Equal(fencing, counter)
          /\ Conclude(c, IF Replays(c) THEN "idempotent" ELSE "reused")
          /\ EndWriting
       \/ /\ ~Stale(fencing, counter) /\ ~Equal(fencing, counter)
          /\ writing' = [writing EXCEPT !.fencing = Advanced(fencing, counter)]
          /\ Go(c, "resource")
    /\ UNCHANGED <<fencing, resource, pair, committed>>

WriteResource(c) ==
    /\ request[c].at = "resource"
    /\ writing' = [writing EXCEPT !.resource =
                      [ version |-> VersionOf(resource) + 1, mutation |-> request[c].mutation,
                        counter |-> request[c].counter ]]
    /\ Go(c, "commit")
    /\ UNCHANGED <<fencing, resource, pair, committed>>

\* connection.commit(): both rows, or the rollback of an exception.
Commit(c) ==
    /\ request[c].at = "commit"
    /\ \/ /\ ~ReaderOpen
          /\ fencing' = writing.fencing
          /\ resource' = writing.resource
          /\ committed' = committed \cup {<<request[c].counter, request[c].mutation>>}
          /\ Conclude(c, "applied")
       \/ ReaderOpen /\ EndCall(c) /\ UNCHANGED <<fencing, resource, committed>>
    /\ EndWriting
    /\ UNCHANGED pair

\* The caller's process is terminated: the database rolls its transaction back.
Terminated(c) ==
    /\ request[c].at # "idle"
    /\ EndCall(c)
    /\ IF writing.caller = c THEN EndWriting ELSE UNCHANGED writing
    /\ UNCHANGED <<fencing, resource, pair, committed>>

\* apply_fencing_token_with_atomic_backend: the version, then the conditional
\* write in a transaction of its own, whose conflict is not retried.
SnapshotVersion(c, counter) ==
    /\ request[c].at \in {"idle", "answered"}
    /\ request' = [request EXCEPT ![c] = [ at |-> "write", counter |-> counter, mutation |-> FenceOnly,
                                        expected |-> VersionOf(fencing), outcome |-> "none" ]]
    /\ UNCHANGED <<fencing, resource, writing, pair, committed>>

\* The guard of the update: still the version that was observed.
VersionExpected(c) == request[c].expected = VersionOf(fencing)

ConditionalWrite(c) ==
    /\ request[c].at = "write"
    /\ LET counter == request[c].counter
           newer == ~Stale(fencing, counter) /\ ~Equal(fencing, counter) IN
       \/ Free /\ Stale(fencing, counter) /\ Conclude(c, "stale") /\ UNCHANGED <<fencing, committed>>
       \/ Free /\ Equal(fencing, counter) /\ Conclude(c, "idempotent") /\ UNCHANGED <<fencing, committed>>
       \/ /\ Free /\ newer /\ ~VersionExpected(c)
          /\ Conclude(c, "conflict")
          /\ UNCHANGED <<fencing, committed>>
       \/ /\ Free /\ newer /\ VersionExpected(c) /\ ~ReaderOpen
          /\ fencing' = Advanced(fencing, counter)
          /\ committed' = committed \cup {<<counter, FenceOnly>>}
          /\ Conclude(c, "applied")
       \/ (~Free \/ ReaderOpen) /\ EndCall(c) /\ UNCHANGED <<fencing, committed>>
    /\ UNCHANGED <<resource, writing, pair>>

NoPair == [open |-> FALSE, fencing |-> NoRow, resource |-> NoRow, returned |-> FALSE]

\* snapshot_pair: a read transaction, then its two rows are compared.
OpenPair(r) ==
    /\ ~pair[r].open
    /\ pair' = [pair EXCEPT ![r] = [ open |-> TRUE, fencing |-> fencing, resource |-> NoRow,
                                     returned |-> FALSE ]]
    /\ UNCHANGED <<fencing, resource, writing, request, committed>>

\* Seeded fault: the versions are not compared.
PairAgrees_SameCounter(f, row) == f # NoRow /\ row # NoRow /\ f.counter = row.counter

PairAgrees(f, row) ==
    /\ f # NoRow /\ row # NoRow
    /\ f.counter = row.counter
    /\ f.version = row.version

\* Only a pair that agrees is returned; the rest are None or an exception.
ReturnPair(r) ==
    /\ pair[r].open
    /\ pair' = [pair EXCEPT ![r] = IF PairAgrees(@.fencing, resource)
                                      THEN [ open |-> FALSE, fencing |-> @.fencing,
                                             resource |-> resource, returned |-> TRUE ]
                                      ELSE NoPair]
    /\ UNCHANGED <<fencing, resource, writing, request, committed>>

FencedInit ==
    /\ fencing = NoRow
    /\ resource = NoRow
    /\ writing = [caller |-> NoCaller, fencing |-> NoRow, resource |-> NoRow]
    /\ request = [c \in Callers |-> NoRequest]
    /\ pair = [r \in PairReaders |-> NoPair]
    /\ committed = {}

FencedNext ==
    \/ \E c \in Callers :
          \/ Begin(c) \/ Decide(c) \/ WriteResource(c) \/ Commit(c)
          \/ Terminated(c) \/ ConditionalWrite(c)
          \/ \E counter \in Counters :
                \/ SnapshotVersion(c, counter)
                \/ \E mutation \in Mutations : Request(c, counter, mutation)
    \/ \E r \in PairReaders : OpenPair(r) \/ ReturnPair(r)

FencedSpec == FencedInit /\ [][FencedNext]_fencedVars

-----------------------------------------------------------------------------
Accepted(c) == request[c].at = "answered" /\ request[c].outcome \in {"idempotent", "applied"}
Mutating == {p \in committed : p[2] # FenceOnly}

(***************************************************************************)
(* "Equal-generation retries are accepted only when the mutation id and    *)
(* value exactly replay the last committed mutation": a generation is      *)
(* applied once, however often its request is repeated, interrupted or     *)
(* raced, and a mutation that was answered as accepted is the one that its *)
(* generation has applied.                                                 *)
(***************************************************************************)
GenerationAppliedOnce ==
    /\ \A p, q \in committed : p[1] = q[1] => p = q
    /\ \A c \in Callers :
          Accepted(c) /\ request[c].mutation # FenceOnly
          => <<request[c].counter, request[c].mutation>> \in committed

(***************************************************************************)
(* The two rows are written by one transaction: each row's version counts  *)
(* the commits that wrote it, so that equal versions mean that the fence   *)
(* was never advanced without a mutation, and a pair that snapshot_pair    *)
(* returns is the fence and the value of one mutation.                     *)
(***************************************************************************)
RowsMoveTogether ==
    /\ VersionOf(fencing) = Cardinality(committed)
    /\ VersionOf(resource) = Cardinality(Mutating)
    /\ \A r \in PairReaders :
          pair[r].returned => /\ <<pair[r].fencing.counter, pair[r].resource.mutation>> \in Mutating
                              /\ \A p \in committed : p[1] <= pair[r].fencing.counter => p \in Mutating
=============================================================================
