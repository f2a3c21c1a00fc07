--------------------------- MODULE PilotSynthesis ---------------------------
(***************************************************************************)
(* backend/app/pilot_api.py and backend/app/pilot_idempotency_resolution.py *)
(* over the idempotency journal and the state store.  Request threads of   *)
(* one server process share the stores' RLocks; an operator runs           *)
(* scripts/resolve_pilot_idempotency.py in a process of its own on the     *)
(* same two databases.  Each journal method and each store transaction is  *)
(* a step.  Any of them may raise (busy, full), any process may die.       *)
(***************************************************************************)
EXTENDS IdempotencyJournal, StateStore, FiniteSets

CONSTANTS
    Threads,            \* request threads of the server
    Operators,          \* processes of the operator script
    NoCall

VARIABLES
    call,               \* what each request thread is doing
    work,               \* what each operator process is doing
    answered            \* the 200 responses given so far, replays included

pilotVars == <<journalVars, storeVars, call, work, answered>>
processes == <<call, work, answered>>

Requests == Keys \X Digests
Rejected == [status |-> 422, run |-> NoRun]
Infeasible == [status |-> 409, run |-> NoRun]
Success(r) == [status |-> 200, run |-> r]
Outcomes == {"CONFIRMED_NO_SIDE_EFFECT", "CONFIRMED_SIDE_EFFECT_PRESENT"}

ASSUME PilotAssumption ==
    /\ Responses = {Rejected, Infeasible} \cup {Success(r) : r \in Runs}
    /\ Owners = Requests
    /\ Subjects = Runs \cup Requests
    /\ Facts = {"certificate", "applied"} \cup Outcomes

Calls ==
    [ at       : {"synthesize", "release", "save", "store", "link", "head", "append",
                  "complete", "ambiguous"},
      key      : Keys,
      digest   : Digests,
      run      : Runs \cup {NoRun},
      response : Responses \cup {NoResponse},
      head     : 0 .. MaxEntries ]

Works ==
    [ at       : {"authorizeHead", "authorize", "check", "resolve", "applyHead", "apply"},
      key      : Keys,
      digest   : Digests,
      outcome  : Outcomes,
      reason   : Reasons,
      head     : 0 .. MaxEntries ]

ASSUME NoCallAssumption == NoCall \notin Calls \cup Works

(***************************************************************************)
(* Types, and what the columns imply of each other: a response is stored   *)
(* exactly with COMPLETED.                                                 *)
(***************************************************************************)
PilotTypeOK ==
    /\ JournalTypeOK /\ StoreTypeOK
    /\ call \in [Threads -> Calls \cup {NoCall}]
    /\ work \in [Operators -> Works \cup {NoCall}]
    /\ answered \subseteq [key : Keys, digest : Digests, run : Runs]
    /\ \A k \in Keys :
           record[k] # NoRecord =>
               (record[k].response = NoResponse <=> record[k].state # "COMPLETED")

-----------------------------------------------------------------------------
At(t, label) == call[t] # NoCall /\ call[t].at = label
Goto(t, label) == call' = [call EXCEPT ![t].at = label]
Leave(t) == call' = [call EXCEPT ![t] = NoCall]

\* What the client of this key and digest is told.
Answer(k, g, response) ==
    answered' = IF response.status = 200
                THEN answered \cup {[key |-> k, digest |-> g, run |-> response.run]}
                ELSE answered

\* NEW: the thread that reserved the key goes on.
Claim(t, k, g) ==
    /\ call[t] = NoCall
    /\ Reserve(k, g)
    /\ call' = [call EXCEPT ![t] =
           [ at |-> "synthesize", key |-> k, digest |-> g, run |-> NoRun,
             response |-> NoResponse, head |-> 0 ]]
    /\ UNCHANGED <<storeVars, work, answered>>

\* REPLAY; the other dispositions answer 409 and change nothing.
Replay(t, k, g) ==
    /\ call[t] = NoCall
    /\ ClaimDisposition(k, g) = "REPLAY"
    /\ Answer(k, g, record[k].response)
    /\ UNCHANGED <<journalVars, storeVars, call, work>>

\* Parse and search: rejected, infeasible, another exception, or a winner.
Synthesize(t) ==
    /\ At(t, "synthesize")
    /\ \/ \E refusal \in {Rejected, Infeasible} :
              call' = [call EXCEPT ![t].at = "complete", ![t].response = refusal]
       \/ Goto(t, "release")
       \/ Goto(t, "save")
    /\ UNCHANGED <<journalVars, storeVars, work, answered>>

Release(t) ==
    /\ At(t, "release")
    /\ \/ ReleasePending(call[t].key, call[t].digest)
       \/ UNCHANGED journalVars
    /\ Leave(t)
    /\ UNCHANGED <<storeVars, work, answered>>

-----------------------------------------------------------------------------
(* save_synthesis: three transactions and an append, any of which may      *)
(* raise when earlier ones are committed.                                  *)

\* Seeded fault: a failure to persist is taken for no side effect.
Fails_Releases(t) == Goto(t, "release") /\ UNCHANGED <<storeVars, journalVars>>

Fails(t) == Goto(t, "ambiguous") /\ UNCHANGED <<storeVars, journalVars>>

Save(t) ==
    /\ At(t, "save")
    /\ \/ \E r \in Runs :
              /\ SaveRun(r, <<call[t].key, call[t].digest>>)
              /\ call' = [call EXCEPT ![t].at = "store", ![t].run = r]
              /\ UNCHANGED journalVars
       \/ Fails(t)
    /\ UNCHANGED <<work, answered>>

Store(t) ==
    /\ At(t, "store")
    /\ \/ StoreCertificate(call[t].run) /\ Goto(t, "link") /\ UNCHANGED journalVars
       \/ Fails(t)
    /\ UNCHANGED <<work, answered>>

Link(t) ==
    /\ At(t, "link")
    /\ \/ LinkCertificate(call[t].run) /\ Goto(t, "head") /\ UNCHANGED journalVars
       \/ Fails(t)
    /\ UNCHANGED <<work, answered>>

\* The select, under the store's lock, which the append releases.
ReadHead(t) ==
    /\ At(t, "head")
    /\ \A u \in Threads : ~At(u, "append")
    /\ call' = [call EXCEPT ![t].at = "append", ![t].head = LastEntry]
    /\ UNCHANGED <<journalVars, storeVars, work, answered>>

\* Seeded fault: a run whose evidence could not be written is reported.
Certify_Regardless(t) ==
    /\ At(t, "append")
    /\ \/ /\ AppendEvidence("certificate", call[t].run, call[t].head)
          /\ run' = [run EXCEPT ![call[t].run].progress = "certified"]
       \/ UNCHANGED storeVars
    /\ call' = [call EXCEPT ![t].at = "complete", ![t].response = Success(call[t].run)]
    /\ UNCHANGED <<journalVars, work, answered>>

Certify(t) ==
    /\ At(t, "append")
    /\ \/ /\ AppendEvidence("certificate", call[t].run, call[t].head)
          /\ run' = [run EXCEPT ![call[t].run].progress = "certified"]
          /\ call' = [call EXCEPT ![t].at = "complete", ![t].response = Success(call[t].run)]
          /\ UNCHANGED journalVars
       \/ Fails(t)
    /\ UNCHANGED <<work, answered>>

\* Completing a refusal is not guarded by a try: the reservation stays.
CompleteRequest(t) ==
    /\ At(t, "complete")
    /\ LET c == call[t] IN
       \/ /\ Complete(c.key, c.digest, c.response)
          /\ Answer(c.key, c.digest, c.response)
          /\ Leave(t)
       \/ /\ IF c.response.status = 200 THEN Goto(t, "ambiguous") ELSE Leave(t)
          /\ UNCHANGED <<journalVars, answered>>
    /\ UNCHANGED <<storeVars, work>>

MarkAmbiguous(t) ==
    /\ At(t, "ambiguous")
    /\ \/ MarkAmbiguousFailure(call[t].key, call[t].digest)
       \/ UNCHANGED journalVars
    /\ Leave(t)
    /\ UNCHANGED <<storeVars, work, answered>>

\* The server process dies and is started again.
Restart ==
    /\ \E t \in Threads : call[t] # NoCall
    /\ call' = [t \in Threads |-> NoCall]
    /\ UNCHANGED <<journalVars, storeVars, work, answered>>

Step(t) ==
    \/ Synthesize(t) \/ Release(t)
    \/ Save(t) \/ Store(t) \/ Link(t) \/ ReadHead(t) \/ Certify(t)
    \/ CompleteRequest(t) \/ MarkAmbiguous(t)

-----------------------------------------------------------------------------
(* resolve_idempotency_ambiguity in an operator's process.                 *)

Doing(o, label) == work[o] # NoCall /\ work[o].at = label
Proceed(o, label) == work' = [work EXCEPT ![o].at = label]

\* Seeded fault: the resolution is applied before it is put on record.
Examine_ResolvesFirst(o, k, g, outcome, reason) ==
    /\ work[o] = NoCall
    /\ Unresolved(k, g)
    /\ work' = [work EXCEPT ![o] = [ at |-> "check", key |-> k, digest |-> g,
                                     outcome |-> outcome, reason |-> reason, head |-> 0 ]]
    /\ UNCHANGED <<journalVars, storeVars, call, answered>>

\* list_unresolved_ambiguities names the record to resolve.
Examine(o, k, g, outcome, reason) ==
    /\ work[o] = NoCall
    /\ Unresolved(k, g)
    /\ work' = [work EXCEPT ![o] = [ at |-> "authorizeHead", key |-> k, digest |-> g,
                                     outcome |-> outcome, reason |-> reason, head |-> 0 ]]
    /\ UNCHANGED <<journalVars, storeVars, call, answered>>

ReadLedger(o) ==
    \E from, to \in {"authorizeHead", "authorize", "applyHead", "apply"} :
        /\ <<from, to>> \in {<<"authorizeHead", "authorize">>, <<"applyHead", "apply">>}
        /\ Doing(o, from)
        /\ work' = [work EXCEPT ![o].at = to, ![o].head = LastEntry]
        /\ UNCHANGED <<journalVars, storeVars, call, answered>>

Authorize(o) ==
    /\ Doing(o, "authorize")
    /\ AppendEvidence(work[o].outcome, <<work[o].key, work[o].digest>>, work[o].head)
    /\ Proceed(o, "check")
    /\ UNCHANGED <<journalVars, run, call, answered>>

\* The reads of the two resolve methods; a failed check raises (see Abandon).
Check(o) ==
    /\ Doing(o, "check")
    /\ LET w == work[o] IN
       IF w.outcome = "CONFIRMED_SIDE_EFFECT_PRESENT"
       THEN /\ PresentChecks(w.key, w.digest, w.reason)
            /\ Proceed(o, IF AlreadyPresent(w.key, w.digest, w.reason) THEN "applyHead" ELSE "resolve")
       ELSE /\ NoSideEffectChecks(w.key)
            /\ Proceed(o, "resolve")
    /\ UNCHANGED <<journalVars, storeVars, call, answered>>

Resolve(o) ==
    /\ Doing(o, "resolve")
    /\ IF work[o].outcome = "CONFIRMED_SIDE_EFFECT_PRESENT"
       THEN ResolvePresent(work[o].key, work[o].digest, work[o].reason)
       ELSE ResolveNoSideEffect(work[o].key, work[o].digest)
    /\ Proceed(o, "applyHead")
    /\ UNCHANGED <<storeVars, call, answered>>

Apply(o) ==
    /\ Doing(o, "apply")
    /\ AppendEvidence("applied", <<work[o].key, work[o].digest>>, work[o].head)
    /\ work' = [work EXCEPT ![o] = NoCall]
    /\ UNCHANGED <<journalVars, run, call, answered>>

\* The command raises, or its process is killed, after any of its steps.
Abandon(o) ==
    /\ work[o] # NoCall
    /\ work' = [work EXCEPT ![o] = NoCall]
    /\ UNCHANGED <<journalVars, storeVars, call, answered>>

Operate(o) ==
    \/ \E k \in Keys, g \in Digests, outcome \in Outcomes, reason \in Reasons :
           Examine(o, k, g, outcome, reason)
    \/ ReadLedger(o) \/ Authorize(o) \/ Check(o) \/ Resolve(o) \/ Apply(o) \/ Abandon(o)

-----------------------------------------------------------------------------
PilotInit ==
    /\ JournalInit /\ StoreInit
    /\ call = [t \in Threads |-> NoCall]
    /\ work = [o \in Operators |-> NoCall]
    /\ answered = {}

PilotNext ==
    \/ \E t \in Threads, k \in Keys, g \in Digests : Claim(t, k, g) \/ Replay(t, k, g)
    \/ \E t \in Threads : Step(t)
    \/ Restart
    \/ \E o \in Operators : Operate(o)

PilotSpec == PilotInit /\ [][PilotNext]_pilotVars

-----------------------------------------------------------------------------
RunsOf(k) == {r \in Runs : Saved(r) /\ run[r].owner[1] = k}

ClearancesOf(k) ==
    {i \in DOMAIN ledger : /\ ledger[i].fact = "CONFIRMED_NO_SIDE_EFFECT"
                           /\ ledger[i].subject \in {k} \X Digests}

(***************************************************************************)
(* Retries, crashes and failures at any step persist at most one run for a *)
(* key, and one more for each time that an operator has put on record that *)
(* an earlier attempt had no side effect.                                  *)
(***************************************************************************)
DuplicatesAreAuthorized ==
    \A k \in Keys : Cardinality(RunsOf(k)) <= 1 + Cardinality(ClearancesOf(k))

(***************************************************************************)
(* Every client that is told success for a key is told the same run, for   *)
(* the same request: the first answer and all replays, before and after    *)
(* restarts and resolutions.                                               *)
(***************************************************************************)
AnswersAgree ==
    \A a, b \in answered : a.key = b.key => a = b

\* The run that a stored success names is this request's, with its decision
\* certificate linked and recorded in the evidence ledger.
ReplayedRunIsCertified ==
    \A k \in Keys :
        record[k] # NoRecord /\ record[k].response # NoResponse /\ record[k].response.status = 200 =>
            LET r == record[k].response.run IN
            /\ Saved(r)
            /\ run[r] = [owner |-> <<k, record[k].digest>>, progress |-> "certified"]
            /\ Recorded("certificate", r)

(***************************************************************************)
(* An ambiguous record is cleared, and a resolution written, only when the *)
(* ledger already holds the operator's authorization of that outcome for   *)
(* that request.                                                           *)
(***************************************************************************)
AuthorizedBeforeResolved ==
    [][\A k \in Keys :
          /\ record[k] # NoRecord /\ record[k].state = "AMBIGUOUS_FAILURE" /\ record'[k] # record[k] =>
                 Recorded("CONFIRMED_NO_SIDE_EFFECT", <<k, record[k].digest>>)
          /\ resolution'[k] # resolution[k] =>
                 Recorded("CONFIRMED_SIDE_EFFECT_PRESENT", <<k, resolution'[k].digest>>)]_pilotVars

(***************************************************************************)
(* A confirmed side effect blocks its key for good: neither the resolution *)
(* nor the ambiguous record it blocks ever changes again.                  *)
(***************************************************************************)
ResolvedStaysBlocked ==
    [][\A k \in Keys : Resolved(k) =>
           record'[k] = record[k] /\ resolution'[k] = resolution[k]]_pilotVars

=============================================================================
