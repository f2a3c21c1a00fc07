----------------------------- MODULE StateStore -----------------------------
(***************************************************************************)
(* The part of backend/app/storage.py that persists a synthesis run:       *)
(* the row, the decision certificate, its link, and the hash-chained       *)
(* evidence ledger.  A hash is represented by the position of the entry    *)
(* it is the hash of, 0 for the _ZERO_HASH: two entries never have the     *)
(* same hash, and an entry's hash covers its predecessor's.                *)
(***************************************************************************)
EXTENDS Integers, Sequences

CONSTANTS
    Runs,               \* run ids, uuid4: each is used once
    Owners,             \* what a run is persisted for
    Subjects,           \* subjects of evidence entries, runs included
    Facts,              \* the payload that readers of the ledger look at
    MaxEntries,         \* bound on the length of the ledger
    NoRun

VARIABLES
    run,                \* synthesis_runs with run_artifacts: owner and progress
    ledger              \* evidence_ledger, in sequence order

storeVars == <<run, ledger>>

\* saved: the row; stored: the certificate is in artifacts; linked: in
\* run_artifacts; certified: the ledger entry too.
Progress == {"saved", "stored", "linked", "certified"}

RunRecords == [owner : Owners, progress : Progress]

Entries == [fact : Facts, subject : Subjects, previous : 0 .. MaxEntries]

ASSUME StoreAssumption ==
    /\ MaxEntries \in Nat
    /\ NoRun \notin Runs \cup RunRecords

StoreTypeOK ==
    /\ run \in [Runs -> RunRecords \cup {NoRun}]
    /\ ledger \in Seq(Entries)

StoreInit ==
    /\ run = [r \in Runs |-> NoRun]
    /\ ledger = <<>>

Saved(r) == run[r] # NoRun

\* The first transaction of save_synthesis, under a fresh run id.
SaveRun(r, owner) ==
    /\ ~Saved(r)
    /\ run' = [run EXCEPT ![r] = [owner |-> owner, progress |-> "saved"]]
    /\ UNCHANGED ledger

\* store_artifact
StoreCertificate(r) ==
    /\ run' = [run EXCEPT ![r].progress = "stored"]
    /\ UNCHANGED ledger

\* link_run_artifact
LinkCertificate(r) ==
    /\ run' = [run EXCEPT ![r].progress = "linked"]
    /\ UNCHANGED ledger

(***************************************************************************)
(* append_evidence selects the last entry_hash before its INSERT opens the *)
(* transaction, so the two are steps: another process may append between.  *)
(***************************************************************************)
LastEntry == Len(ledger)

Entry(fact, subject, head) == [fact |-> fact, subject |-> subject, previous |-> head]

AppendEvidence(fact, subject, head) ==
    /\ Len(ledger) < MaxEntries
    /\ ledger' = Append(ledger, Entry(fact, subject, head))

Recorded(fact, subject) ==
    \E i \in DOMAIN ledger : ledger[i].fact = fact /\ ledger[i].subject = subject

\* verify_evidence_ledger: every entry chains to the one before it.
LedgerVerifies == \A i \in DOMAIN ledger : ledger[i].previous = i - 1

=============================================================================
