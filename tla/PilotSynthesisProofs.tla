------------------------ MODULE PilotSynthesisProofs ------------------------
(***************************************************************************)
(* Pilot synthesis for any number of threads, operators, keys, requests    *)
(* and runs.  The record of a key is PENDING exactly while one thread may  *)
(* act on it, or none since a restart; the place of that thread says how   *)
(* far the run that it saves has come; and what an operator does after its *)
(* authorization, the ledger already holds.                                *)
(***************************************************************************)
EXTENDS PilotSynthesis, FiniteSetTheorems, SequenceTheorems, TLAPS

\* How far the run of a request is persisted.
RunIs(k, g, r, progress) ==
    /\ r \in Runs
    /\ Saved(r)
    /\ run[r].owner = <<k, g>>
    /\ run[r].progress = progress

Certified(k, g, r) == RunIs(k, g, r, "certified") /\ Recorded("certificate", r)

\* A thread holds the reservation of its key; its place tells its run.
CallOK(c) ==
    /\ Holds(c.key, c.digest, "PENDING")
    /\ c.at = "store" => RunIs(c.key, c.digest, c.run, "saved")
    /\ c.at = "link" => RunIs(c.key, c.digest, c.run, "stored")
    /\ c.at \in {"head", "append"} => RunIs(c.key, c.digest, c.run, "linked")
    /\ c.at = "complete" =>
          /\ c.response \in Responses
          /\ c.response.status = 200 => Certified(c.key, c.digest, c.response.run)

CallsOK == \A t \in Threads : call[t] # NoCall => CallOK(call[t])

OneThreadPerKey ==
    \A t, u \in Threads :
        call[t] # NoCall /\ call[u] # NoCall /\ call[t].key = call[u].key => t = u

SuccessesAreCertified ==
    \A k \in Keys :
        record[k] # NoRecord /\ record[k].response # NoResponse /\ record[k].response.status = 200 =>
            Certified(k, record[k].digest, record[k].response.run)

\* What was answered is what the key's record still says.
AnswersRecorded ==
    \A a \in answered :
        Holds(a.key, a.digest, "COMPLETED") /\ record[a.key].response = Success(a.run)

\* An operator past its authorization finds it in the ledger.
WorkOK(w) ==
    w.at \in {"check", "resolve", "applyHead", "apply"} => Recorded(w.outcome, <<w.key, w.digest>>)

WorksOK == \A o \in Operators : work[o] # NoCall => WorkOK(work[o])

(***************************************************************************)
(* A run can still be saved for a key that has no record, and by the       *)
(* thread that has reserved it and has not saved yet.  Each operator who   *)
(* has authorized to clear a key, and has not, may free it once more.      *)
(***************************************************************************)
BeforeSave == {"synthesize", "release", "save"}

MaySave(k) ==
    \/ record[k] = NoRecord
    \/ \E t \in Threads : call[t] # NoCall /\ call[t].key = k /\ call[t].at \in BeforeSave

ClearingOf(k) ==
    {o \in Operators : /\ work[o] # NoCall
                       /\ work[o].at \in {"check", "resolve"}
                       /\ work[o].key = k
                       /\ work[o].outcome = "CONFIRMED_NO_SIDE_EFFECT"}

Chances(k) == IF MaySave(k) THEN 1 ELSE 0

BudgetOf(k) ==
    /\ IsFiniteSet(RunsOf(k))
    /\ IsFiniteSet(ClearingOf(k))
    /\ Cardinality(RunsOf(k)) + Cardinality(ClearingOf(k)) + Chances(k)
          <= 1 + Cardinality(ClearancesOf(k))

PilotInv ==
    /\ PilotTypeOK
    /\ Len(ledger) <= MaxEntries
    /\ CallsOK
    /\ OneThreadPerKey
    /\ SuccessesAreCertified
    /\ AnswersRecorded
    /\ WorksOK
    /\ \A k \in Keys : BudgetOf(k)

-----------------------------------------------------------------------------
(* The types, in the form the steps use.                                   *)

CallPlaces == {"synthesize", "release", "save", "store", "link", "head", "append",
               "complete", "ambiguous"}

WorkPlaces == {"authorizeHead", "authorize", "check", "resolve", "applyHead", "apply"}

LEMMA PilotTypes ==
    ASSUME PilotInv
    PROVE  /\ record \in [Keys -> JournalRecords \cup {NoRecord}]
           /\ resolution \in [Keys -> Resolutions \cup {NoResolution}]
           /\ run \in [Runs -> RunRecords \cup {NoRun}]
           /\ ledger \in Seq(Entries) /\ Len(ledger) \in 0 .. MaxEntries
           /\ call \in [Threads -> Calls \cup {NoCall}]
           /\ work \in [Operators -> Works \cup {NoCall}]
           /\ answered \subseteq [key : Keys, digest : Digests, run : Runs]
           /\ MaxEntries \in Nat /\ 0 \in 0 .. MaxEntries
<1>1. ledger \in Seq(Entries) /\ Len(ledger) <= MaxEntries
  BY DEF PilotInv, PilotTypeOK, StoreTypeOK
<1>2. Len(ledger) \in Nat /\ MaxEntries \in Nat
  BY <1>1, LenProperties, StoreAssumption
<1> QED BY <1>1, <1>2 DEF PilotInv, PilotTypeOK, JournalTypeOK, StoreTypeOK

\* The record of a thread that acts, and the operator's.
LEMMA ActingCall ==
    ASSUME PilotInv, NEW t \in Threads, call[t] # NoCall
    PROVE  /\ call[t] \in Calls /\ CallOK(call[t])
           /\ call[t].key \in Keys /\ call[t].digest \in Digests
           /\ call[t].at \in CallPlaces
           /\ call[t].run \in Runs \cup {NoRun}
           /\ call[t].response \in Responses \cup {NoResponse}
           /\ call[t].head \in 0 .. MaxEntries
           /\ \A u \in Threads \ {t} : call[u] # NoCall => call[u].key # call[t].key
<1>1. call[t] \in Calls
  BY PilotTypes
<1> QED BY <1>1 DEF PilotInv, CallsOK, OneThreadPerKey, Calls, CallPlaces

LEMMA ActingWork ==
    ASSUME PilotInv, NEW o \in Operators, work[o] # NoCall
    PROVE  /\ work[o] \in Works /\ WorkOK(work[o])
           /\ work[o].key \in Keys /\ work[o].digest \in Digests
           /\ work[o].at \in WorkPlaces
           /\ work[o].outcome \in Outcomes
           /\ work[o].reason \in Reasons
           /\ work[o].head \in 0 .. MaxEntries
<1>1. work[o] \in Works
  BY PilotTypes
<1> QED BY <1>1 DEF PilotInv, WorksOK, Works, WorkPlaces

LEMMA Places ==
    /\ "synthesize" \in CallPlaces /\ "release" \in CallPlaces /\ "save" \in CallPlaces
    /\ "store" \in CallPlaces /\ "link" \in CallPlaces /\ "head" \in CallPlaces
    /\ "append" \in CallPlaces /\ "complete" \in CallPlaces /\ "ambiguous" \in CallPlaces
    /\ "authorizeHead" \in WorkPlaces /\ "authorize" \in WorkPlaces /\ "check" \in WorkPlaces
    /\ "resolve" \in WorkPlaces /\ "applyHead" \in WorkPlaces /\ "apply" \in WorkPlaces
BY DEF CallPlaces, WorkPlaces

\* The updates of a thread's record.
Moved(old, new, place) ==
    new \in Calls /\ new.at = place /\ new.key = old.key /\ new.digest = old.digest

LEMMA CallGoes ==
    ASSUME PilotInv, NEW t \in Threads, call[t] # NoCall, NEW place \in CallPlaces
    PROVE  \E new : /\ [call EXCEPT ![t].at = place] = [call EXCEPT ![t] = new]
                    /\ Moved(call[t], new, place)
                    /\ new.run = call[t].run /\ new.response = call[t].response
<1> DEFINE new == [call[t] EXCEPT !.at = place]
<1>1. call[t] \in Calls
  BY ActingCall
<1>2. /\ Moved(call[t], new, place)
      /\ new.run = call[t].run /\ new.response = call[t].response
  BY <1>1 DEF Calls, CallPlaces, Moved
<1>3. [call EXCEPT ![t].at = place] = [call EXCEPT ![t] = new]
  BY PilotTypes
<1> QED BY <1>2, <1>3

\* The updates of an operator's record.
WorkMoved(old, new, place) ==
    /\ new \in Works /\ new.at = place /\ new.key = old.key /\ new.digest = old.digest
    /\ new.outcome = old.outcome

LEMMA WorkGoes ==
    ASSUME PilotInv, NEW o \in Operators, work[o] # NoCall, NEW place \in WorkPlaces
    PROVE  \E new : /\ [work EXCEPT ![o].at = place] = [work EXCEPT ![o] = new]
                    /\ WorkMoved(work[o], new, place)
<1> DEFINE new == [work[o] EXCEPT !.at = place]
<1>1. work[o] \in Works
  BY ActingWork
<1>2. WorkMoved(work[o], new, place)
  BY <1>1 DEF Works, WorkPlaces, WorkMoved
<1>3. [work EXCEPT ![o].at = place] = [work EXCEPT ![o] = new]
  BY PilotTypes
<1> QED BY <1>2, <1>3

LEMMA WorkGoesWithHead ==
    ASSUME PilotInv, NEW o \in Operators, work[o] # NoCall, NEW place \in WorkPlaces,
           NEW h \in 0 .. MaxEntries,
           work' = [work EXCEPT ![o].at = place, ![o].head = h]
    PROVE  \E new : /\ work' = [work EXCEPT ![o] = new]
                    /\ WorkMoved(work[o], new, place)
<1> DEFINE new == [work[o] EXCEPT !.at = place, !.head = h]
<1>1. work[o] \in Works
  BY ActingWork
<1>2. WorkMoved(work[o], new, place)
  BY <1>1 DEF Works, WorkPlaces, WorkMoved
<1>3. work' = [work EXCEPT ![o] = new]
  BY PilotTypes
<1> QED BY <1>2, <1>3

-----------------------------------------------------------------------------
(* The budget of a key, as the steps change what it counts.                *)

LEMMA PositionsAreFinite ==
    ASSUME NEW entries \in Seq(Entries), NEW S, S \subseteq DOMAIN entries
    PROVE  IsFiniteSet(S) /\ Cardinality(S) \in Nat
<1>1. DOMAIN entries = 1 .. Len(entries) /\ Len(entries) \in Nat
  BY LenProperties
<1>2. IsFiniteSet(1 .. Len(entries))
  BY <1>1, FS_Interval
<1>3. IsFiniteSet(S)
  BY <1>1, <1>2, FS_Subset
<1> QED BY <1>3, FS_CardinalityType

LEMMA BudgetNumbers ==
    ASSUME PilotInv, NEW k \in Keys
    PROVE  /\ IsFiniteSet(RunsOf(k)) /\ IsFiniteSet(ClearingOf(k)) /\ IsFiniteSet(ClearancesOf(k))
           /\ Cardinality(RunsOf(k)) \in Nat /\ Cardinality(ClearingOf(k)) \in Nat
           /\ Cardinality(ClearancesOf(k)) \in Nat /\ Chances(k) \in Nat
           /\ Cardinality(RunsOf(k)) + Cardinality(ClearingOf(k)) + Chances(k)
                 <= 1 + Cardinality(ClearancesOf(k))
<1>1. BudgetOf(k)
  BY DEF PilotInv
<1>2. ClearancesOf(k) \subseteq DOMAIN ledger
  BY DEF ClearancesOf
<1> QED BY <1>1, <1>2, PilotTypes, PositionsAreFinite, FS_CardinalityType DEF BudgetOf, Chances

LEMMA OneMore ==
    ASSUME NEW S, IsFiniteSet(S), NEW e
    PROVE  /\ IsFiniteSet(S \cup {e}) /\ Cardinality(S \cup {e}) \in Nat
           /\ Cardinality(S \cup {e}) <= Cardinality(S) + 1
<1>1. Cardinality(S) \in Nat
  BY FS_CardinalityType
<1>2. IsFiniteSet(S \cup {e}) /\ Cardinality(S \cup {e}) \in {Cardinality(S), Cardinality(S) + 1}
  BY FS_AddElement
<1> QED BY <1>1, <1>2

LEMMA SmallerSum ==
    ASSUME NEW a \in Nat, NEW b \in Nat, NEW c \in Nat, NEW d \in Nat,
           NEW a1 \in Nat, NEW b1 \in Nat, NEW c1 \in Nat, NEW d1 \in Nat,
           a + b + c <= 1 + d, a1 + b1 + c1 <= a + b + c + (d1 - d)
    PROVE  a1 + b1 + c1 <= 1 + d1
OBVIOUS

\* Nothing that makes more runs possible.
LEMMA BudgetKept ==
    ASSUME PilotInv, NEW k \in Keys, ledger' \in Seq(Entries),
           RunsOf(k)' = RunsOf(k), ClearingOf(k)' \subseteq ClearingOf(k),
           ClearancesOf(k) \subseteq ClearancesOf(k)',
           MaySave(k)' => MaySave(k)
    PROVE  BudgetOf(k)'
<1>1. /\ IsFiniteSet(ClearingOf(k)') /\ Cardinality(ClearingOf(k)') \in Nat
      /\ Cardinality(ClearingOf(k)') <= Cardinality(ClearingOf(k))
  BY BudgetNumbers, FS_Subset, FS_CardinalityType
<1>2. /\ Cardinality(ClearancesOf(k)') \in Nat
      /\ Cardinality(ClearancesOf(k)) <= Cardinality(ClearancesOf(k)')
  <2>1. ClearancesOf(k)' \subseteq DOMAIN ledger'
    BY DEF ClearancesOf
  <2>2. IsFiniteSet(ClearancesOf(k)') /\ Cardinality(ClearancesOf(k)') \in Nat
    BY <2>1, PositionsAreFinite
  <2> QED BY <2>2, FS_Subset
<1>3. Chances(k)' \in Nat /\ Chances(k)' <= Chances(k)
  BY DEF Chances
<1>4. Cardinality(RunsOf(k)) + Cardinality(ClearingOf(k)') + Chances(k)' <= 1 + Cardinality(ClearancesOf(k)')
  BY <1>1, <1>2, <1>3, BudgetNumbers, SmallerSum
<1> QED BY <1>1, <1>4, BudgetNumbers DEF BudgetOf

\* A run is saved: the chance is used.
LEMMA BudgetSaved ==
    ASSUME PilotInv, NEW k \in Keys, NEW r, RunsOf(k)' = RunsOf(k) \cup {r},
           ClearingOf(k)' = ClearingOf(k), ClearancesOf(k)' = ClearancesOf(k),
           MaySave(k), ~MaySave(k)'
    PROVE  BudgetOf(k)'
<1>1. /\ IsFiniteSet(RunsOf(k)') /\ Cardinality(RunsOf(k)') \in Nat
      /\ Cardinality(RunsOf(k)') <= Cardinality(RunsOf(k)) + 1
  BY BudgetNumbers, OneMore
<1>2. Chances(k) = 1 /\ Chances(k)' = 0
  BY DEF Chances
<1>3. Cardinality(RunsOf(k)') + Cardinality(ClearingOf(k)) + Chances(k)' <= 1 + Cardinality(ClearancesOf(k))
  BY <1>1, <1>2, BudgetNumbers
<1> QED BY <1>1, <1>3, BudgetNumbers DEF BudgetOf

\* An operator authorizes to clear the key, and puts that on record.
LEMMA BudgetAuthorized ==
    ASSUME PilotInv, NEW k \in Keys, NEW o, NEW i, RunsOf(k)' = RunsOf(k),
           ClearingOf(k)' = ClearingOf(k) \cup {o},
           i \notin ClearancesOf(k), ClearancesOf(k)' = ClearancesOf(k) \cup {i},
           MaySave(k)' = MaySave(k)
    PROVE  BudgetOf(k)'
<1>1. /\ IsFiniteSet(ClearingOf(k)') /\ Cardinality(ClearingOf(k)') \in Nat
      /\ Cardinality(ClearingOf(k)') <= Cardinality(ClearingOf(k)) + 1
  BY BudgetNumbers, OneMore
<1>2. Cardinality(ClearancesOf(k)') = Cardinality(ClearancesOf(k)) + 1
  BY BudgetNumbers, FS_AddElement
<1>3. Chances(k)' = Chances(k)
  BY DEF Chances
<1>4. Cardinality(RunsOf(k)) + Cardinality(ClearingOf(k)') + Chances(k)' <= 1 + Cardinality(ClearancesOf(k)')
  BY <1>1, <1>2, <1>3, BudgetNumbers
<1> QED BY <1>1, <1>4, BudgetNumbers DEF BudgetOf

\* The operator clears it: the authorization is used, the key may be used.
LEMMA BudgetCleared ==
    ASSUME PilotInv, NEW k \in Keys, NEW o \in ClearingOf(k), RunsOf(k)' = RunsOf(k),
           ClearingOf(k)' = ClearingOf(k) \ {o}, ClearancesOf(k)' = ClearancesOf(k)
    PROVE  ~MaySave(k) => BudgetOf(k)'
<1> SUFFICES ASSUME ~MaySave(k) PROVE BudgetOf(k)'
  OBVIOUS
<1>1. /\ IsFiniteSet(ClearingOf(k)') /\ Cardinality(ClearingOf(k)') \in Nat
      /\ Cardinality(ClearingOf(k)') = Cardinality(ClearingOf(k)) - 1
  BY BudgetNumbers, FS_RemoveElement, FS_CardinalityType
<1>2. Chances(k) = 0 /\ Chances(k)' \in Nat /\ Chances(k)' <= 1
  BY DEF Chances
<1>3. Cardinality(RunsOf(k)) + Cardinality(ClearingOf(k)') + Chances(k)' <= 1 + Cardinality(ClearancesOf(k))
  BY <1>1, <1>2, BudgetNumbers
<1> QED BY <1>1, <1>3, BudgetNumbers DEF BudgetOf

-----------------------------------------------------------------------------
(* What the steps of others leave as it is.                                *)

NothingLost ==
    \A fact \in Facts, subject \in Subjects : Recorded(fact, subject) => Recorded(fact, subject)'

CertifiedRunsStay == \A r \in Runs : Saved(r) /\ run[r].progress = "certified" => run'[r] = run[r]

RunsOfOthersStay(key) == \A r \in Runs : Saved(r) /\ run[r].owner[1] # key => run'[r] = run[r]

LEMMA UnchangedLosesNothing == ledger' = ledger => NothingLost
BY DEF NothingLost, Recorded

LEMMA AppendLosesNothing ==
    ASSUME PilotInv, NEW fact \in Facts, NEW subject \in Subjects, NEW h \in 0 .. MaxEntries,
           AppendEvidence(fact, subject, h)
    PROVE  /\ ledger' \in Seq(Entries) /\ Len(ledger') <= MaxEntries
           /\ DOMAIN ledger' = DOMAIN ledger \cup {Len(ledger) + 1}
           /\ Len(ledger) + 1 \notin DOMAIN ledger
           /\ \A i \in DOMAIN ledger : ledger'[i] = ledger[i]
           /\ ledger'[Len(ledger) + 1].fact = fact /\ ledger'[Len(ledger) + 1].subject = subject
           /\ NothingLost
           /\ Recorded(fact, subject)'
<1> DEFINE entry == Entry(fact, subject, h)
           n == Len(ledger) + 1
<1>1. entry \in Entries /\ entry.fact = fact /\ entry.subject = subject
  BY DEF Entry, Entries
<1>2. ledger \in Seq(Entries) /\ Len(ledger) \in Nat /\ Len(ledger) < MaxEntries /\ MaxEntries \in Nat
  BY PilotTypes, LenProperties DEF AppendEvidence
<1>3. ledger' = Append(ledger, entry)
  BY DEF AppendEvidence
<1> HIDE DEF entry
<1>4. /\ ledger' \in Seq(Entries) /\ Len(ledger') = n
      /\ \A i \in 1 .. Len(ledger) : ledger'[i] = ledger[i]
      /\ ledger'[n] = entry
  BY <1>1, <1>2, <1>3, AppendProperties
<1>5. DOMAIN ledger = 1 .. Len(ledger) /\ DOMAIN ledger' = 1 .. n
  BY <1>2, <1>4, LenProperties
<1>6. DOMAIN ledger' = DOMAIN ledger \cup {n} /\ n \notin DOMAIN ledger
  BY <1>2, <1>5
<1>7. NothingLost
  BY <1>4, <1>5, <1>6 DEF NothingLost, Recorded
<1>8. Recorded(fact, subject)'
  BY <1>1, <1>4, <1>6 DEF Recorded
<1>9. Len(ledger') <= MaxEntries
  BY <1>2, <1>4
<1> QED BY <1>1, <1>4, <1>5, <1>6, <1>7, <1>8, <1>9

\* What evidence is about.
LEMMA EvidenceTypes ==
    /\ "certificate" \in Facts /\ "applied" \in Facts /\ Outcomes \subseteq Facts
    /\ \A r \in Runs : r \in Subjects
    /\ \A k \in Keys, g \in Digests : <<k, g>> \in Subjects /\ <<k, g>> \in Owners
    /\ \A response \in Responses : response.status = 200 =>
          response.run \in Runs /\ response = Success(response.run)
    /\ Rejected \in Responses /\ Rejected.status # 200
    /\ Infeasible \in Responses /\ Infeasible.status # 200
    /\ \A r \in Runs : Success(r) \in Responses /\ Success(r).status = 200 /\ Success(r).run = r
<1>1. /\ "certificate" \in Facts /\ "applied" \in Facts /\ Outcomes \subseteq Facts
      /\ \A r \in Runs : r \in Subjects
  BY PilotAssumption
<1>2. \A k \in Keys, g \in Digests : <<k, g>> \in Subjects /\ <<k, g>> \in Owners
  BY PilotAssumption DEF Requests
<1>3. /\ Rejected \in Responses /\ Rejected.status # 200
      /\ Infeasible \in Responses /\ Infeasible.status # 200
  BY PilotAssumption DEF Rejected, Infeasible
<1>4. \A r \in Runs : Success(r) \in Responses /\ Success(r).status = 200 /\ Success(r).run = r
  BY PilotAssumption DEF Success
<1>5. \A response \in Responses : response.status = 200 =>
          response.run \in Runs /\ response = Success(response.run)
  <2>1. \A response \in Responses : response.status = 200 => \E r \in Runs : response = Success(r)
    BY <1>3, PilotAssumption
  <2> QED BY <1>4, <2>1
<1> QED BY <1>1, <1>2, <1>3, <1>4, <1>5

LEMMA CertifiedStays ==
    ASSUME NEW k, NEW g, NEW r \in Runs, Certified(k, g, r),
           run[r].progress = "certified" => run'[r] = run[r], NothingLost
    PROVE  Certified(k, g, r)'
<1>1. Recorded("certificate", r)'
  BY EvidenceTypes DEF Certified, NothingLost
<1>2. run'[r] = run[r]
  BY DEF Certified, RunIs
<1> QED BY <1>1, <1>2 DEF Certified, RunIs, Saved

LEMMA CallStays ==
    ASSUME NEW c \in Calls, CallOK(c), record'[c.key] = record[c.key],
           \A r \in Runs : Saved(r) /\ run[r].owner[1] = c.key => run'[r] = run[r],
           NothingLost
    PROVE  CallOK(c)'
<1>1. Holds(c.key, c.digest, "PENDING")'
  BY DEF CallOK, Holds
<1>2. ASSUME NEW r, NEW progress, RunIs(c.key, c.digest, r, progress)
      PROVE  RunIs(c.key, c.digest, r, progress)' /\ run'[r] = run[r]
  BY <1>2 DEF RunIs, Saved
<1>3. ASSUME c.response.status = 200, Certified(c.key, c.digest, c.response.run)
      PROVE  Certified(c.key, c.digest, c.response.run)'
  <2>1. c.response.run \in Runs /\ RunIs(c.key, c.digest, c.response.run, "certified")
    BY <1>3 DEF Certified, RunIs
  <2>2. run'[c.response.run] = run[c.response.run]
    BY <1>2, <2>1
  <2> QED BY <1>3, <2>1, <2>2, CertifiedStays
<1> QED BY <1>1, <1>2, <1>3 DEF CallOK

\* A thread goes on with its key, or with a key that no other thread has.
LEMMA CallsStep ==
    ASSUME PilotInv, NEW t \in Threads, NEW key \in Keys, NEW new \in Calls \cup {NoCall},
           call' = [call EXCEPT ![t] = new],
           \A u \in Threads \ {t} : call[u] # NoCall => call[u].key # key,
           new # NoCall => new.key = key /\ CallOK(new)',
           \A k \in Keys \ {key} : record'[k] = record[k],
           RunsOfOthersStay(key), NothingLost
    PROVE  CallsOK' /\ OneThreadPerKey'
<1>1. call'[t] = new /\ \A u \in Threads \ {t} : call'[u] = call[u]
  BY PilotTypes
<1>2. ASSUME NEW u \in Threads \ {t}, call[u] # NoCall
      PROVE  CallOK(call[u])'
  <2>1. call[u] \in Calls /\ CallOK(call[u]) /\ call[u].key \in Keys \ {key}
    BY <1>2, ActingCall
  <2>2. record'[call[u].key] = record[call[u].key]
    BY <2>1
  <2>3. \A r \in Runs : Saved(r) /\ run[r].owner[1] = call[u].key => run'[r] = run[r]
    BY <2>1 DEF RunsOfOthersStay
  <2>4. PICK c : c = call[u]
    OBVIOUS
  <2>5. CallOK(c)'
    BY <2>1, <2>2, <2>3, <2>4, CallStays
  <2>6. call'[u] = c
    BY <1>1, <2>4
  <2> QED BY <2>5, <2>6
<1>3. ASSUME new # NoCall
      PROVE  CallOK(call[t])'
  BY <1>1, <1>3
<1>4. CallsOK'
  BY <1>1, <1>2, <1>3 DEF CallsOK
<1>5. OneThreadPerKey'
  BY <1>1 DEF OneThreadPerKey, PilotInv
<1> QED BY <1>4, <1>5

\* No thread moves, and the key whose record changes is nobody's.
LEMMA CallsStand ==
    ASSUME PilotInv, call' = call, run' = run, NothingLost,
           \A t \in Threads : call[t] # NoCall => record'[call[t].key] = record[call[t].key]
    PROVE  CallsOK' /\ OneThreadPerKey'
<1>1. ASSUME NEW t \in Threads, call[t] # NoCall
      PROVE  CallOK(call[t])'
  <2>1. call[t] \in Calls /\ CallOK(call[t])
    BY <1>1, ActingCall
  <2>2. PICK c : c = call[t]
    OBVIOUS
  <2>3. CallOK(c)'
    BY <1>1, <2>1, <2>2, CallStays
  <2> QED BY <2>2, <2>3
<1>2. CallsOK'
  BY <1>1 DEF CallsOK
<1> QED BY <1>2 DEF OneThreadPerKey, PilotInv

\* What the journal's rows and the answers rely on.
LEMMA RowsStand ==
    ASSUME PilotInv, record' = record, CertifiedRunsStay, NothingLost
    PROVE  /\ SuccessesAreCertified'
           /\ \A a \in answered : Holds(a.key, a.digest, "COMPLETED")' /\ record'[a.key].response = Success(a.run)
<1>1. ASSUME NEW k \in Keys, record[k] # NoRecord, record[k].response # NoResponse, record[k].response.status = 200
      PROVE  Certified(k, record[k].digest, record[k].response.run)'
  <2>1. Certified(k, record[k].digest, record[k].response.run)
    BY <1>1 DEF PilotInv, SuccessesAreCertified
  <2>2. PICK g, r : g = record[k].digest /\ r = record[k].response.run
    OBVIOUS
  <2>3. r \in Runs /\ (run[r].progress = "certified" => run'[r] = run[r])
    BY <2>1, <2>2 DEF Certified, RunIs, CertifiedRunsStay
  <2>4. Certified(k, g, r)'
    BY <2>1, <2>2, <2>3, CertifiedStays
  <2> QED BY <2>2, <2>4
<1>2. SuccessesAreCertified'
  BY <1>1 DEF SuccessesAreCertified
<1> QED BY <1>2 DEF PilotInv, AnswersRecorded, Holds

\* The row of one key changes, which was not yet COMPLETED.
LEMMA RowChanges ==
    ASSUME PilotInv, NEW k \in Keys, NEW row \in JournalRecords \cup {NoRecord},
           record' = [record EXCEPT ![k] = row], run' = run, ledger' = ledger,
           record[k] # NoRecord => record[k].state # "COMPLETED",
           row # NoRecord => (row.response = NoResponse <=> row.state # "COMPLETED"),
           row # NoRecord /\ row.response # NoResponse /\ row.response.status = 200 =>
               Certified(k, row.digest, row.response.run)
    PROVE  /\ record' \in [Keys -> JournalRecords \cup {NoRecord}]
           /\ \A j \in Keys : record'[j] # NoRecord =>
                 (record'[j].response = NoResponse <=> record'[j].state # "COMPLETED")
           /\ SuccessesAreCertified'
           /\ \A a \in answered : Holds(a.key, a.digest, "COMPLETED")' /\ record'[a.key].response = Success(a.run)
<1>1. /\ record' \in [Keys -> JournalRecords \cup {NoRecord}]
      /\ record'[k] = row /\ \A j \in Keys \ {k} : record'[j] = record[j]
  BY PilotTypes
<1>2. \A j \in Keys : record'[j] # NoRecord =>
          (record'[j].response = NoResponse <=> record'[j].state # "COMPLETED")
  BY <1>1 DEF PilotInv, PilotTypeOK
<1>3. SuccessesAreCertified'
  <2>1. \A j, g, r : Certified(j, g, r) => Certified(j, g, r)'
    BY DEF Certified, RunIs, Saved, Recorded
  <2>2. \A j \in Keys \ {k} :
            record'[j] # NoRecord /\ record'[j].response # NoResponse /\ record'[j].response.status = 200 =>
                Certified(j, record'[j].digest, record'[j].response.run)
    BY <1>1 DEF SuccessesAreCertified, PilotInv
  <2> QED BY <1>1, <2>1, <2>2 DEF SuccessesAreCertified
<1>4. ASSUME NEW a \in answered
      PROVE  Holds(a.key, a.digest, "COMPLETED")' /\ record'[a.key].response = Success(a.run)
  <2>1. Holds(a.key, a.digest, "COMPLETED") /\ record[a.key].response = Success(a.run) /\ a.key \in Keys
    BY PilotTypes DEF PilotInv, AnswersRecorded
  <2>2. a.key # k
    BY <2>1 DEF Holds
  <2> QED BY <1>1, <2>1, <2>2 DEF Holds
<1> QED BY <1>1, <1>2, <1>3, <1>4

LEMMA WorksStand ==
    ASSUME PilotInv, work' = work, NothingLost
    PROVE  WorksOK'
<1>1. ASSUME NEW o \in Operators, work[o] # NoCall
      PROVE  WorkOK(work[o])'
  BY <1>1, ActingWork, EvidenceTypes DEF WorkOK, NothingLost
<1> QED BY <1>1 DEF WorksOK

LEMMA WorksStep ==
    ASSUME PilotInv, NEW o \in Operators, NEW new \in Works \cup {NoCall},
           work' = [work EXCEPT ![o] = new], new # NoCall => WorkOK(new)', NothingLost
    PROVE  work' \in [Operators -> Works \cup {NoCall}] /\ WorksOK'
<1>1. /\ work' \in [Operators -> Works \cup {NoCall}]
      /\ work'[o] = new /\ \A p \in Operators \ {o} : work'[p] = work[p]
  BY PilotTypes
<1>2. ASSUME NEW p \in Operators, work'[p] # NoCall
      PROVE  WorkOK(work[p])'
  <2>1. CASE p = o
    BY <1>1, <1>2, <2>1
  <2>2. CASE p # o
    BY <1>1, <1>2, <2>2, ActingWork, EvidenceTypes DEF WorkOK, NothingLost
  <2> QED BY <2>1, <2>2
<1> QED BY <1>1, <1>2 DEF WorksOK

LEMMA MaySaveFalls ==
    ASSUME PilotInv, NEW t \in Threads, call[t] # NoCall, NEW new \in Calls \cup {NoCall},
           call' = [call EXCEPT ![t] = new],
           new # NoCall => new.key = call[t].key /\ (new.at \in BeforeSave => call[t].at \in BeforeSave),
           NEW k \in Keys,
           record'[k] = NoRecord =>
               record[k] = NoRecord \/ (k = call[t].key /\ call[t].at \in BeforeSave)
    PROVE  MaySave(k)' => MaySave(k)
<1>1. call'[t] = new /\ \A u \in Threads \ {t} : call'[u] = call[u]
  BY PilotTypes
<1>2. ASSUME NEW u \in Threads, call'[u] # NoCall, call'[u].key = k, call'[u].at \in BeforeSave
      PROVE  call[u] # NoCall /\ call[u].key = k /\ call[u].at \in BeforeSave
  <2>1. CASE u = t
    BY <1>1, <1>2, <2>1
  <2>2. CASE u # t
    BY <1>1, <1>2, <2>2
  <2> QED BY <2>1, <2>2
<1> QED BY <1>2 DEF MaySave

\* Nobody saves, nobody authorizes, nobody clears.
LEMMA BudgetStands ==
    ASSUME PilotInv, NEW k \in Keys, run' = run, ledger' = ledger, work' = work,
           MaySave(k)' => MaySave(k)
    PROVE  BudgetOf(k)'
<1>1. /\ RunsOf(k)' = RunsOf(k) /\ ClearingOf(k)' = ClearingOf(k)
      /\ ClearancesOf(k)' = ClearancesOf(k)
  BY DEF RunsOf, Saved, ClearingOf, ClearancesOf
<1>2. ledger' \in Seq(Entries)
  BY PilotTypes
<1> QED BY <1>1, <1>2, BudgetKept

-----------------------------------------------------------------------------
(* The steps of the threads.                                               *)

\* A thread's own step: neither store is written.
LEMMA ThreadGoes ==
    ASSUME PilotInv, NEW t \in Threads, call[t] # NoCall, NEW new,
           call' = [call EXCEPT ![t] = new], UNCHANGED <<journalVars, storeVars, work, answered>>,
           new # NoCall => /\ new \in Calls /\ new.key = call[t].key /\ CallOK(new)
                           /\ new.at \in BeforeSave => call[t].at \in BeforeSave
    PROVE  PilotInv'
<1>1. UNCHANGED <<record, resolution, run, ledger, work, answered>>
  BY DEF journalVars, storeVars
<1>2. new \in Calls \cup {NoCall} /\ call' \in [Threads -> Calls \cup {NoCall}]
  BY PilotTypes
<1>3. PilotTypeOK'
  BY <1>1, <1>2 DEF PilotInv, PilotTypeOK, JournalTypeOK, StoreTypeOK
<1>4. NothingLost /\ CertifiedRunsStay /\ RunsOfOthersStay(call[t].key)
  BY <1>1, UnchangedLosesNothing DEF CertifiedRunsStay, RunsOfOthersStay
<1>5. new # NoCall => CallOK(new)'
  BY <1>1 DEF CallOK, Holds, RunIs, Certified, Saved, Recorded
<1>6. CallsOK' /\ OneThreadPerKey'
  BY <1>1, <1>2, <1>4, <1>5, ActingCall, CallsStep
<1>7. SuccessesAreCertified' /\ AnswersRecorded'
  BY <1>1, <1>4, RowsStand DEF AnswersRecorded, Holds
<1>8. WorksOK'
  BY <1>1, <1>4, WorksStand
<1>9. ASSUME NEW k \in Keys
      PROVE  BudgetOf(k)'
  BY <1>1, <1>2, MaySaveFalls, BudgetStands
<1>10. Len(ledger') <= MaxEntries
  BY <1>1 DEF PilotInv
<1> QED BY <1>3, <1>6, <1>7, <1>8, <1>9, <1>10 DEF PilotInv

\* A thread writes the row of its key and leaves.
LEMMA ThreadCloses ==
    ASSUME PilotInv, NEW t \in Threads, call[t] # NoCall, NEW row \in JournalRecords \cup {NoRecord},
           record' = [record EXCEPT ![call[t].key] = row], resolution' = resolution, Leave(t),
           UNCHANGED <<storeVars, work>>,
           row = NoRecord => call[t].at \in BeforeSave,
           row # NoRecord => (row.response = NoResponse <=> row.state # "COMPLETED"),
           row # NoRecord /\ row.response # NoResponse /\ row.response.status = 200 =>
               Certified(call[t].key, row.digest, row.response.run),
           answered' \subseteq [key : Keys, digest : Digests, run : Runs],
           \A a \in answered' \ answered :
               row # NoRecord /\ a.key = call[t].key /\ a.digest = row.digest
               /\ row.state = "COMPLETED" /\ row.response = Success(a.run)
    PROVE  PilotInv'
<1> DEFINE k == call[t].key
<1>1. run' = run /\ ledger' = ledger /\ work' = work /\ k \in Keys
  BY ActingCall DEF storeVars
<1>2. call' = [call EXCEPT ![t] = NoCall] /\ call' \in [Threads -> Calls \cup {NoCall}]
  BY PilotTypes DEF Leave
<1>3. record[k] # NoRecord /\ record[k].state = "PENDING"
  BY ActingCall DEF CallOK, Holds
<1>4. /\ record' \in [Keys -> JournalRecords \cup {NoRecord}]
      /\ \A j \in Keys : record'[j] # NoRecord =>
            (record'[j].response = NoResponse <=> record'[j].state # "COMPLETED")
      /\ SuccessesAreCertified'
      /\ \A a \in answered : Holds(a.key, a.digest, "COMPLETED")' /\ record'[a.key].response = Success(a.run)
  BY <1>1, <1>3, RowChanges
<1>5. PilotTypeOK'
  BY <1>1, <1>2, <1>4 DEF PilotInv, PilotTypeOK, JournalTypeOK, StoreTypeOK
<1>6. NothingLost /\ RunsOfOthersStay(k)
  BY <1>1, UnchangedLosesNothing DEF RunsOfOthersStay
<1>7. record'[k] = row /\ \A j \in Keys \ {k} : record'[j] = record[j]
  BY <1>1, PilotTypes
<1>8. CallsOK' /\ OneThreadPerKey'
  BY <1>1, <1>2, <1>6, <1>7, ActingCall, CallsStep
<1>9. AnswersRecorded'
  <2>1. \A a \in answered' \ answered :
            Holds(a.key, a.digest, "COMPLETED")' /\ record'[a.key].response = Success(a.run)
    BY <1>7 DEF Holds
  <2> QED BY <1>4, <2>1 DEF AnswersRecorded
<1>10. WorksOK'
  BY <1>1, <1>6, WorksStand
<1>11. ASSUME NEW j \in Keys
       PROVE  BudgetOf(j)'
  <2>1. record'[j] = NoRecord => record[j] = NoRecord \/ (j = k /\ call[t].at \in BeforeSave)
    BY <1>7
  <2>2. MaySave(j)' => MaySave(j)
    BY <1>2, <2>1, MaySaveFalls
  <2> QED BY <1>1, <2>2, BudgetStands
<1>12. Len(ledger') <= MaxEntries
  BY <1>1 DEF PilotInv
<1> QED BY <1>5, <1>4, <1>8, <1>9, <1>10, <1>11, <1>12 DEF PilotInv

\* A thread writes the row of its run, and perhaps an entry of the ledger.
Persists(k, g, r, progress) ==
    /\ run' \in [Runs -> RunRecords \cup {NoRun}]
    /\ r \in Runs /\ run'[r] # NoRun /\ run'[r].owner = <<k, g>> /\ run'[r].progress = progress
    /\ \A s \in Runs \ {r} : run'[s] = run[s]

LEMMA ThreadPersists ==
    ASSUME PilotInv, NEW t \in Threads, call[t] # NoCall, NEW new \in Calls, NEW r, NEW progress,
           Persists(call[t].key, call[t].digest, r, progress),
           IF Saved(r) THEN run[r].owner = <<call[t].key, call[t].digest>> /\ run[r].progress # "certified"
                       ELSE call[t].at \in BeforeSave,
           call' = [call EXCEPT ![t] = new], new.key = call[t].key, new.at \notin BeforeSave,
           CallOK(new)',
           UNCHANGED <<journalVars, work, answered>>,
           ledger' \in Seq(Entries), Len(ledger') <= MaxEntries, NothingLost,
           \A k \in Keys : ClearancesOf(k)' = ClearancesOf(k)
    PROVE  PilotInv'
<1> DEFINE key == call[t].key
<1>1. UNCHANGED <<record, resolution, work, answered>> /\ key \in Keys
  BY ActingCall DEF journalVars
<1>2. /\ run' \in [Runs -> RunRecords \cup {NoRun}] /\ r \in Runs
      /\ run'[r] # NoRun /\ run'[r].owner[1] = key
      /\ Saved(r) => run[r].owner[1] = key
      /\ \A s \in Runs \ {r} : run'[s] = run[s]
  BY DEF Persists, RunIs, Saved
<1>3. call' \in [Threads -> Calls \cup {NoCall}] /\ new # NoCall
      /\ call'[t] = new /\ \A u \in Threads \ {t} : call'[u] = call[u]
  BY PilotTypes, NoCallAssumption
<1>4. PilotTypeOK'
  BY <1>1, <1>2, <1>3 DEF PilotInv, PilotTypeOK, JournalTypeOK, StoreTypeOK
<1>5. CertifiedRunsStay /\ RunsOfOthersStay(key)
  BY <1>1, <1>2 DEF CertifiedRunsStay, RunsOfOthersStay
<1>6. CallsOK' /\ OneThreadPerKey'
  BY <1>1, <1>3, <1>5, ActingCall, CallsStep
<1>7. SuccessesAreCertified' /\ AnswersRecorded'
  BY <1>1, <1>5, RowsStand DEF AnswersRecorded, Holds
<1>8. WorksOK'
  BY <1>1, WorksStand
<1>9. ASSUME NEW k \in Keys
      PROVE  BudgetOf(k)'
  <2>1. ClearingOf(k)' = ClearingOf(k) /\ ClearancesOf(k)' = ClearancesOf(k)
    BY <1>1 DEF ClearingOf
  <2>2. MaySave(k)' => MaySave(k)
    BY <1>1, <1>3, MaySaveFalls
  <2>3. CASE Saved(r) \/ k # key
    <3>1. RunsOf(k)' = RunsOf(k)
      BY <1>1, <1>2, <2>3 DEF RunsOf, Saved
    <3> QED BY <2>1, <2>2, <3>1, BudgetKept
  <2>4. CASE ~Saved(r) /\ k = key
    <3>1. RunsOf(k)' = RunsOf(k) \cup {r}
      BY <1>1, <1>2, <2>4 DEF RunsOf, Saved
    <3>2. MaySave(k)
      BY <2>4 DEF MaySave
    <3>3. ~MaySave(k)'
      BY <1>1, <1>3, <2>4, ActingCall DEF MaySave, CallOK, Holds
    <3> QED BY <2>1, <3>1, <3>2, <3>3, BudgetSaved
  <2> QED BY <2>3, <2>4
<1> QED BY <1>4, <1>6, <1>7, <1>8, <1>9 DEF PilotInv

-----------------------------------------------------------------------------
LEMMA ClaimKeeps ==
    ASSUME PilotInv, NEW t \in Threads, NEW k \in Keys, NEW g \in Digests, Claim(t, k, g)
    PROVE  PilotInv'
<1> DEFINE row == [digest |-> g, state |-> "PENDING", response |-> NoResponse]
           new == [ at |-> "synthesize", key |-> k, digest |-> g, run |-> NoRun,
                    response |-> NoResponse, head |-> 0 ]
<1>1. call[t] = NoCall /\ record[k] = NoRecord
  BY PilotTypes DEF Claim, Reserve, ClaimDisposition, JournalRecords
<1>2. /\ record' = [record EXCEPT ![k] = row] /\ call' = [call EXCEPT ![t] = new]
      /\ UNCHANGED <<resolution, run, ledger, work, answered>>
  BY DEF Claim, Reserve, storeVars
<1>3. row \in JournalRecords /\ row # NoRecord /\ row.digest = g /\ row.state = "PENDING"
      /\ row.response = NoResponse
  BY NoRecordAssumption DEF JournalRecords
<1>4. new \in Calls /\ new # NoCall /\ new.key = k /\ new.digest = g /\ new.at = "synthesize"
  <2>1. 0 \in 0 .. MaxEntries
    BY PilotTypes
  <2>2. new \in Calls
    BY <2>1 DEF Calls
  <2> QED BY <2>2, NoCallAssumption
<1> HIDE DEF row, new
<1>5. /\ record' \in [Keys -> JournalRecords \cup {NoRecord}]
      /\ \A j \in Keys : record'[j] # NoRecord =>
            (record'[j].response = NoResponse <=> record'[j].state # "COMPLETED")
      /\ SuccessesAreCertified'
      /\ \A a \in answered : Holds(a.key, a.digest, "COMPLETED")' /\ record'[a.key].response = Success(a.run)
  BY <1>1, <1>2, <1>3, RowChanges
<1>6. call' \in [Threads -> Calls \cup {NoCall}]
      /\ call'[t] = new /\ \A u \in Threads \ {t} : call'[u] = call[u]
  BY <1>2, <1>4, PilotTypes
<1>7. PilotTypeOK'
  BY <1>2, <1>5, <1>6 DEF PilotInv, PilotTypeOK, JournalTypeOK, StoreTypeOK
<1>8. record'[k] = row /\ \A j \in Keys \ {k} : record'[j] = record[j]
  BY <1>2, PilotTypes
<1>9. CallOK(new)'
  BY <1>3, <1>4, <1>8 DEF CallOK, Holds
<1>10. \A u \in Threads \ {t} : call[u] # NoCall => call[u].key # k
  BY <1>1, ActingCall DEF CallOK, Holds
<1>11. NothingLost /\ RunsOfOthersStay(k)
  BY <1>2, UnchangedLosesNothing DEF RunsOfOthersStay
<1>12. CallsOK' /\ OneThreadPerKey'
  BY <1>2, <1>4, <1>8, <1>9, <1>10, <1>11, CallsStep
<1>13. AnswersRecorded' /\ WorksOK'
  BY <1>2, <1>5, <1>11, WorksStand DEF AnswersRecorded
<1>14. ASSUME NEW j \in Keys
       PROVE  BudgetOf(j)'
  <2>1. MaySave(j)' => MaySave(j)
    BY <1>1, <1>4, <1>6, <1>8 DEF MaySave
  <2> QED BY <1>2, <2>1, BudgetStands
<1>15. Len(ledger') <= MaxEntries
  BY <1>2 DEF PilotInv
<1> QED BY <1>5, <1>7, <1>12, <1>13, <1>14, <1>15 DEF PilotInv

LEMMA ReplayKeeps ==
    ASSUME PilotInv, NEW t \in Threads, NEW k \in Keys, NEW g \in Digests, Replay(t, k, g)
    PROVE  PilotInv'
<1>1. UNCHANGED <<record, resolution, run, ledger, call, work>>
  BY DEF Replay, journalVars, storeVars
<1>2. Holds(k, g, "COMPLETED")
  BY PilotTypes DEF Replay, ClaimDisposition, Holds, JournalRecords
<1>3. record[k].response \in Responses
  BY <1>2, PilotTypes DEF Holds, PilotInv, PilotTypeOK, JournalRecords
<1>4. PICK response : response = record[k].response
  OBVIOUS
<1>5. answered' = IF response.status = 200
                  THEN answered \cup {[key |-> k, digest |-> g, run |-> response.run]}
                  ELSE answered
  BY <1>4 DEF Replay, Answer
<1>6. \A a \in answered' \ answered :
          a = [key |-> k, digest |-> g, run |-> response.run] /\ response.run \in Runs
          /\ response = Success(response.run)
  BY <1>3, <1>4, <1>5, EvidenceTypes
<1>7. answered' \subseteq [key : Keys, digest : Digests, run : Runs]
  BY <1>6, PilotTypes
<1>8. AnswersRecorded'
  <2>1. \A a \in answered' \ answered :
            Holds(a.key, a.digest, "COMPLETED")' /\ record'[a.key].response = Success(a.run)
    BY <1>1, <1>2, <1>4, <1>6 DEF Holds
  <2> QED BY <1>1, <2>1 DEF AnswersRecorded, PilotInv, Holds
<1>9. PilotTypeOK'
  BY <1>1, <1>7 DEF PilotInv, PilotTypeOK, JournalTypeOK, StoreTypeOK
<1>10. NothingLost /\ CertifiedRunsStay
  BY <1>1, UnchangedLosesNothing DEF CertifiedRunsStay
<1>11. CallsOK' /\ OneThreadPerKey' /\ SuccessesAreCertified' /\ WorksOK'
  BY <1>1, <1>10, CallsStand, RowsStand, WorksStand
<1>12. \A j \in Keys : BudgetOf(j)'
  BY <1>1, BudgetStands DEF MaySave
<1>13. Len(ledger') <= MaxEntries
  BY <1>1 DEF PilotInv
<1> QED BY <1>8, <1>9, <1>11, <1>12, <1>13 DEF PilotInv

LEMMA LeaveKeeps ==
    ASSUME PilotInv, NEW t \in Threads, call[t] # NoCall, Leave(t),
           UNCHANGED <<journalVars, storeVars, work, answered>>
    PROVE  PilotInv'
<1>1. PICK new : new = NoCall
  OBVIOUS
<1>2. call' = [call EXCEPT ![t] = new]
  BY <1>1 DEF Leave
<1> QED BY <1>1, <1>2, ThreadGoes

LEMMA FailsKeeps ==
    ASSUME PilotInv, NEW t \in Threads, call[t] # NoCall, Goto(t, "ambiguous"),
           UNCHANGED <<journalVars, storeVars, work, answered>>
    PROVE  PilotInv'
<1>1. PICK new : /\ call' = [call EXCEPT ![t] = new]
                 /\ Moved(call[t], new, "ambiguous")
  BY Places, CallGoes DEF Goto
<1>2. CallOK(new)
  BY <1>1, ActingCall DEF Moved, CallOK
<1> QED BY <1>1, <1>2, ThreadGoes DEF Moved, BeforeSave

LEMMA RefusalKeeps ==
    ASSUME PilotInv, NEW t \in Threads, call[t] # NoCall,
           NEW refusal \in Responses, refusal.status # 200,
           call' = [call EXCEPT ![t].at = "complete", ![t].response = refusal],
           UNCHANGED <<journalVars, storeVars, work, answered>>
    PROVE  PilotInv'
<1>1. PICK new : /\ call' = [call EXCEPT ![t] = new]
                 /\ Moved(call[t], new, "complete")
                 /\ new.response = refusal
  <2> DEFINE moved == [call[t] EXCEPT !.at = "complete", !.response = refusal]
  <2>1. call[t] \in Calls
    BY ActingCall
  <2>2. Moved(call[t], moved, "complete") /\ moved.response = refusal
    BY <2>1 DEF Calls, Moved
  <2>3. call' = [call EXCEPT ![t] = moved]
    BY PilotTypes
  <2> QED BY <2>2, <2>3
<1>2. CallOK(new)
  BY <1>1, ActingCall DEF Moved, CallOK
<1> QED BY <1>1, <1>2, ThreadGoes DEF Moved, BeforeSave

LEMMA SynthesizeKeeps ==
    ASSUME PilotInv, NEW t \in Threads, Synthesize(t)
    PROVE  PilotInv'
<1>1. call[t] # NoCall /\ call[t].at = "synthesize"
      /\ UNCHANGED <<journalVars, storeVars, work, answered>>
  BY DEF Synthesize, At
<1>2. ASSUME NEW refusal \in {Rejected, Infeasible},
             call' = [call EXCEPT ![t].at = "complete", ![t].response = refusal]
      PROVE  PilotInv'
  <2>1. refusal \in Responses /\ refusal.status # 200
    BY EvidenceTypes
  <2> QED BY <1>1, <1>2, <2>1, RefusalKeeps
<1>3. ASSUME NEW place \in {"release", "save"}, Goto(t, place)
      PROVE  PilotInv'
  <2>1. PICK new : /\ call' = [call EXCEPT ![t] = new]
                   /\ Moved(call[t], new, place)
                   /\ new.run = call[t].run /\ new.response = call[t].response
    BY <1>1, <1>3, Places, CallGoes DEF Goto
  <2>2. CallOK(new)
    BY <1>1, <2>1, ActingCall DEF Moved, CallOK
  <2> QED BY <1>1, <2>1, <2>2, ThreadGoes DEF Moved, BeforeSave
<1> QED BY <1>2, <1>3 DEF Synthesize

LEMMA ReleaseKeeps ==
    ASSUME PilotInv, NEW t \in Threads, Release(t)
    PROVE  PilotInv'
<1>1. call[t] # NoCall /\ call[t].at = "release" /\ Leave(t)
      /\ UNCHANGED <<storeVars, work, answered>>
  BY DEF Release, At
<1>2. CASE UNCHANGED journalVars
  BY <1>1, <1>2, LeaveKeeps
<1>3. CASE ReleasePending(call[t].key, call[t].digest)
  <2>1. Holds(call[t].key, call[t].digest, "PENDING")
    BY <1>1, ActingCall DEF CallOK
  <2>2. PICK row : row = NoRecord
    OBVIOUS
  <2>3. record' = [record EXCEPT ![call[t].key] = row] /\ resolution' = resolution
    BY <1>3, <2>1, <2>2 DEF ReleasePending
  <2>4. answered' \subseteq [key : Keys, digest : Digests, run : Runs] /\ answered' \ answered = {}
    BY <1>1, PilotTypes
  <2> QED BY <1>1, <2>2, <2>3, <2>4, ThreadCloses DEF BeforeSave
<1> QED BY <1>2, <1>3 DEF Release

LEMMA ReadHeadKeeps ==
    ASSUME PilotInv, NEW t \in Threads, ReadHead(t)
    PROVE  PilotInv'
<1>1. call[t] # NoCall /\ call[t].at = "head"
      /\ call' = [call EXCEPT ![t].at = "append", ![t].head = Len(ledger)]
      /\ UNCHANGED <<journalVars, storeVars, work, answered>>
  BY DEF ReadHead, At, LastEntry
<1>2. Len(ledger) \in 0 .. MaxEntries
  BY PilotTypes
<1>3. PICK new : /\ call' = [call EXCEPT ![t] = new]
                 /\ Moved(call[t], new, "append")
                 /\ new.run = call[t].run
  <2> DEFINE moved == [call[t] EXCEPT !.at = "append", !.head = Len(ledger)]
  <2>1. Moved(call[t], moved, "append") /\ moved.run = call[t].run
    BY <1>1, <1>2, ActingCall DEF Calls, Moved
  <2>2. call' = [call EXCEPT ![t] = moved]
    BY <1>1, PilotTypes
  <2> QED BY <2>1, <2>2
<1>4. CallOK(new)
  BY <1>1, <1>3, ActingCall DEF Moved, CallOK
<1> QED BY <1>1, <1>3, <1>4, ThreadGoes DEF Moved, BeforeSave

LEMMA MarkAmbiguousKeeps ==
    ASSUME PilotInv, NEW t \in Threads, MarkAmbiguous(t)
    PROVE  PilotInv'
<1>1. call[t] # NoCall /\ Leave(t) /\ UNCHANGED <<storeVars, work, answered>>
  BY DEF MarkAmbiguous, At
<1>2. CASE UNCHANGED journalVars
  BY <1>1, <1>2, LeaveKeeps
<1>3. CASE MarkAmbiguousFailure(call[t].key, call[t].digest)
  <2> DEFINE k == call[t].key
             row == [record[k] EXCEPT !.state = "AMBIGUOUS_FAILURE", !.response = NoResponse]
  <2>1. k \in Keys /\ record[k] \in JournalRecords
    BY <1>1, ActingCall, PilotTypes DEF CallOK, Holds
  <2>2. row \in JournalRecords /\ row.state = "AMBIGUOUS_FAILURE" /\ row.response = NoResponse
    BY <2>1 DEF JournalRecords
  <2>3. record' = [record EXCEPT ![k] = row] /\ resolution' = resolution
    BY <1>3, <2>1, PilotTypes DEF MarkAmbiguousFailure
  <2>4. row # NoRecord
    BY <2>2, NoRecordAssumption
  <2>5. answered' \subseteq [key : Keys, digest : Digests, run : Runs] /\ answered' \ answered = {}
    BY <1>1, PilotTypes
  <2>6. PICK new : new = row
    OBVIOUS
  <2> HIDE DEF row
  <2> QED BY <1>1, <2>2, <2>3, <2>4, <2>5, <2>6, ThreadCloses
<1> QED BY <1>2, <1>3 DEF MarkAmbiguous

LEMMA CompleteRequestKeeps ==
    ASSUME PilotInv, NEW t \in Threads, CompleteRequest(t)
    PROVE  PilotInv'
<1> DEFINE c == call[t]
           k == call[t].key
<1>1. call[t] # NoCall /\ c.at = "complete" /\ UNCHANGED <<storeVars, work>>
  BY DEF CompleteRequest, At
<1>2. CASE /\ IF c.response.status = 200 THEN Goto(t, "ambiguous") ELSE Leave(t)
           /\ UNCHANGED <<journalVars, answered>>
  BY <1>1, <1>2, LeaveKeeps, FailsKeeps
<1>3. CASE Complete(k, c.digest, c.response) /\ Answer(k, c.digest, c.response) /\ Leave(t)
  <2> DEFINE row == [record[k] EXCEPT !.state = "COMPLETED", !.response = c.response]
  <2>1. /\ k \in Keys /\ record[k] \in JournalRecords /\ record[k].digest = c.digest
        /\ c.response \in Responses /\ c.digest \in Digests
        /\ c.response.status = 200 => Certified(k, c.digest, c.response.run)
    BY <1>1, ActingCall, PilotTypes DEF CallOK, Holds
  <2>2. /\ row \in JournalRecords /\ row.state = "COMPLETED" /\ row.response = c.response
        /\ row.digest = c.digest
    BY <2>1 DEF JournalRecords
  <2>3. record' = [record EXCEPT ![k] = row] /\ resolution' = resolution
    BY <1>3, <2>1, PilotTypes DEF Complete
  <2>4. row # NoRecord /\ row.response # NoResponse
    BY <2>1, <2>2, NoRecordAssumption, NoResponseAssumption
  <2>5. \A a \in answered' \ answered :
            a = [key |-> k, digest |-> c.digest, run |-> c.response.run] /\ c.response.run \in Runs
            /\ c.response = Success(c.response.run)
    BY <1>3, <2>1, EvidenceTypes DEF Answer
  <2>6. answered' \subseteq [key : Keys, digest : Digests, run : Runs]
    BY <2>1, <2>5, PilotTypes
  <2>7. \A a \in answered' \ answered :
            a.key = k /\ a.digest = row.digest /\ row.state = "COMPLETED"
            /\ row.response = Success(a.run)
    BY <2>2, <2>5
  <2>8. Certified(k, row.digest, row.response.run) \/ row.response.status # 200
    BY <2>1, <2>2
  <2> HIDE DEF row
  <2> QED BY <1>1, <1>3, <2>2, <2>3, <2>4, <2>6, <2>7, <2>8, ThreadCloses
<1> QED BY <1>2, <1>3 DEF CompleteRequest

-----------------------------------------------------------------------------
(* The steps of save_synthesis.                                            *)

LEMMA SaveKeeps ==
    ASSUME PilotInv, NEW t \in Threads, Save(t)
    PROVE  PilotInv'
<1>1. call[t] # NoCall /\ call[t].at = "save" /\ UNCHANGED <<work, answered>>
  BY DEF Save, At
<1>2. CASE Fails(t)
  BY <1>1, <1>2, FailsKeeps DEF Fails
<1>3. ASSUME NEW r \in Runs, SaveRun(r, <<call[t].key, call[t].digest>>),
             call' = [call EXCEPT ![t].at = "store", ![t].run = r], UNCHANGED journalVars
      PROVE  PilotInv'
  <2> DEFINE row == [owner |-> <<call[t].key, call[t].digest>>, progress |-> "saved"]
  <2>1. call[t] \in Calls /\ <<call[t].key, call[t].digest>> \in Owners
    BY <1>1, ActingCall, EvidenceTypes
  <2>2. row \in RunRecords /\ row.owner = <<call[t].key, call[t].digest>> /\ row.progress = "saved"
    BY <2>1 DEF RunRecords, Progress
  <2>3. run' = [run EXCEPT ![r] = row] /\ ~Saved(r) /\ ledger' = ledger
    BY <1>3 DEF SaveRun
  <2> HIDE DEF row
  <2>4. Persists(call[t].key, call[t].digest, r, "saved")
    <3>1. /\ run' \in [Runs -> RunRecords \cup {NoRun}] /\ run'[r] = row
          /\ \A s \in Runs \ {r} : run'[s] = run[s]
      BY <2>2, <2>3, PilotTypes
    <3>2. row # NoRun
      BY <2>2, StoreAssumption
    <3> QED BY <2>2, <3>1, <3>2 DEF Persists, RunIs, Saved
  <2>5. PICK new : /\ call' = [call EXCEPT ![t] = new]
                   /\ Moved(call[t], new, "store")
                   /\ new.run = r
    <3> DEFINE moved == [call[t] EXCEPT !.at = "store", !.run = r]
    <3>1. Moved(call[t], moved, "store") /\ moved.run = r
      BY <2>1 DEF Calls, Moved
    <3>2. call' = [call EXCEPT ![t] = moved]
      BY <1>3, PilotTypes
    <3> QED BY <3>1, <3>2
  <2>6. CallOK(new)'
    <3>1. Holds(new.key, new.digest, "PENDING")'
      BY <1>1, <1>3, <2>5, ActingCall DEF Moved, CallOK, Holds, journalVars
    <3>2. RunIs(new.key, new.digest, new.run, "saved")'
      BY <2>4, <2>5 DEF Moved, Persists, RunIs, Saved
    <3> QED BY <2>5, <3>1, <3>2 DEF Moved, CallOK
  <2>7. /\ ledger' \in Seq(Entries) /\ Len(ledger') <= MaxEntries /\ NothingLost
        /\ \A k \in Keys : ClearancesOf(k)' = ClearancesOf(k)
    BY <2>3, PilotTypes, UnchangedLosesNothing DEF ClearancesOf
  <2>8. new \in Calls /\ new.key = call[t].key /\ new.at \notin BeforeSave
    BY <2>5 DEF Moved, BeforeSave
  <2>9. call[t].at \in BeforeSave
    BY <1>1 DEF BeforeSave
  <2> QED BY <1>1, <1>3, <2>3, <2>4, <2>5, <2>6, <2>7, <2>8, <2>9, ThreadPersists
<1> QED BY <1>2, <1>3 DEF Save

\* A step on the row of the thread's run.
LEMMA ProgressRow ==
    ASSUME PilotInv, NEW k, NEW g, NEW r, NEW from, RunIs(k, g, r, from), NEW to \in Progress,
           run' = [run EXCEPT ![r].progress = to]
    PROVE  Persists(k, g, r, to)
<1> DEFINE row == [run[r] EXCEPT !.progress = to]
<1>1. r \in Runs /\ run[r] \in RunRecords /\ run[r].owner = <<k, g>>
  BY PilotTypes DEF RunIs, Saved
<1>2. row \in RunRecords /\ row.owner = <<k, g>> /\ row.progress = to
  BY <1>1 DEF RunRecords
<1>3. run' = [run EXCEPT ![r] = row]
  BY PilotTypes
<1> HIDE DEF row
<1> QED BY <1>1, <1>2, <1>3, PilotTypes, StoreAssumption DEF Persists, RunIs, Saved

LEMMA StoredKeeps ==
    ASSUME PilotInv, NEW t \in Threads, call[t] # NoCall,
           NEW from \in Progress, NEW to \in Progress, NEW place \in CallPlaces,
           RunIs(call[t].key, call[t].digest, call[t].run, from), from # "certified",
           run' = [run EXCEPT ![call[t].run].progress = to], ledger' = ledger,
           <<to, place>> \in {<<"stored", "link">>, <<"linked", "head">>},
           Goto(t, place), UNCHANGED <<journalVars, work, answered>>
    PROVE  PilotInv'
<1>1. PICK r : r = call[t].run
  OBVIOUS
<1>2. Persists(call[t].key, call[t].digest, r, to)
  BY <1>1, ProgressRow
<1>3. PICK new : /\ [call EXCEPT ![t].at = place] = [call EXCEPT ![t] = new]
                 /\ Moved(call[t], new, place)
                 /\ new.run = call[t].run /\ new.response = call[t].response
  BY CallGoes
<1>4. Saved(r) /\ run[r].owner = <<call[t].key, call[t].digest>> /\ run[r].progress # "certified"
  BY <1>1 DEF RunIs
<1>5. CallOK(new)'
  <2>1. Holds(new.key, new.digest, "PENDING")'
    BY <1>3, ActingCall DEF Moved, CallOK, Holds, journalVars
  <2>2. RunIs(new.key, new.digest, new.run, to)'
    BY <1>1, <1>2, <1>3 DEF Moved, Persists, RunIs, Saved
  <2>3. new.at = place
    BY <1>3 DEF Moved
  <2> QED BY <2>1, <2>2, <2>3 DEF CallOK
<1>6. /\ ledger' \in Seq(Entries) /\ Len(ledger') <= MaxEntries /\ NothingLost
      /\ \A k \in Keys : ClearancesOf(k)' = ClearancesOf(k)
  BY PilotTypes, UnchangedLosesNothing DEF ClearancesOf
<1>7. call' = [call EXCEPT ![t] = new] /\ new \in Calls /\ new.key = call[t].key
      /\ new.at \notin BeforeSave
  BY <1>3 DEF Goto, Moved, BeforeSave
<1> QED BY <1>2, <1>4, <1>5, <1>6, <1>7, ThreadPersists

LEMMA StoreKeeps ==
    ASSUME PilotInv, NEW t \in Threads, Store(t)
    PROVE  PilotInv'
<1>1. call[t] # NoCall /\ call[t].at = "store" /\ UNCHANGED <<work, answered>>
  BY DEF Store, At
<1>2. CASE Fails(t)
  BY <1>1, <1>2, FailsKeeps DEF Fails
<1>3. CASE StoreCertificate(call[t].run) /\ Goto(t, "link") /\ UNCHANGED journalVars
  <2>1. RunIs(call[t].key, call[t].digest, call[t].run, "saved")
    BY <1>1, ActingCall DEF CallOK
  <2>2. run' = [run EXCEPT ![call[t].run].progress = "stored"] /\ ledger' = ledger
    BY <1>3 DEF StoreCertificate
  <2>3. "saved" \in Progress /\ "stored" \in Progress
    BY DEF Progress
  <2> QED BY <1>1, <1>3, <2>1, <2>2, <2>3, Places, StoredKeeps
<1> QED BY <1>2, <1>3 DEF Store

LEMMA LinkKeeps ==
    ASSUME PilotInv, NEW t \in Threads, Link(t)
    PROVE  PilotInv'
<1>1. call[t] # NoCall /\ call[t].at = "link" /\ UNCHANGED <<work, answered>>
  BY DEF Link, At
<1>2. CASE Fails(t)
  BY <1>1, <1>2, FailsKeeps DEF Fails
<1>3. CASE LinkCertificate(call[t].run) /\ Goto(t, "head") /\ UNCHANGED journalVars
  <2>1. RunIs(call[t].key, call[t].digest, call[t].run, "stored")
    BY <1>1, ActingCall DEF CallOK
  <2>2. run' = [run EXCEPT ![call[t].run].progress = "linked"] /\ ledger' = ledger
    BY <1>3 DEF LinkCertificate
  <2>3. "stored" \in Progress /\ "linked" \in Progress
    BY DEF Progress
  <2> QED BY <1>1, <1>3, <2>1, <2>2, <2>3, Places, StoredKeeps
<1> QED BY <1>2, <1>3 DEF Link

\* An entry that is not a clearance leaves the clearances as they are.
LEMMA OtherEvidence ==
    ASSUME PilotInv, NEW fact \in Facts, NEW subject \in Subjects, NEW h \in 0 .. MaxEntries,
           AppendEvidence(fact, subject, h), NEW k,
           fact # "CONFIRMED_NO_SIDE_EFFECT" \/ subject \notin {k} \X Digests
    PROVE  ClearancesOf(k)' = ClearancesOf(k)
BY AppendLosesNothing DEF ClearancesOf

LEMMA CertifyKeeps ==
    ASSUME PilotInv, NEW t \in Threads, Certify(t)
    PROVE  PilotInv'
<1>1. call[t] # NoCall /\ call[t].at = "append" /\ UNCHANGED <<work, answered>>
  BY DEF Certify, At
<1>2. CASE Fails(t)
  BY <1>1, <1>2, FailsKeeps DEF Fails
<1>3. ASSUME AppendEvidence("certificate", call[t].run, call[t].head),
             run' = [run EXCEPT ![call[t].run].progress = "certified"],
             call' = [call EXCEPT ![t].at = "complete", ![t].response = Success(call[t].run)],
             UNCHANGED journalVars
      PROVE  PilotInv'
  <2>1. PICK r : r = call[t].run
    OBVIOUS
  <2>2. RunIs(call[t].key, call[t].digest, r, "linked") /\ r \in Runs /\ call[t] \in Calls
    BY <1>1, <2>1, ActingCall DEF CallOK, RunIs
  <2>3. Persists(call[t].key, call[t].digest, r, "certified")
    <3>1. "certified" \in Progress
      BY DEF Progress
    <3> QED BY <1>3, <2>1, <2>2, <3>1, ProgressRow
  <2>4. Success(r) \in Responses /\ Success(r).status = 200 /\ Success(r).run = r
    BY <2>2, EvidenceTypes
  <2>5. PICK new : /\ call' = [call EXCEPT ![t] = new]
                   /\ Moved(call[t], new, "complete")
                   /\ new.response = Success(r)
    <3> DEFINE moved == [call[t] EXCEPT !.at = "complete", !.response = Success(r)]
    <3>1. Moved(call[t], moved, "complete") /\ moved.response = Success(r)
      BY <2>2, <2>4 DEF Calls, Moved
    <3>2. call' = [call EXCEPT ![t] = moved]
      BY <1>3, <2>1, PilotTypes
    <3> QED BY <3>1, <3>2
  <2>6. Saved(r) /\ run[r].owner = <<call[t].key, call[t].digest>> /\ run[r].progress # "certified"
    BY <2>2 DEF RunIs
  <2>8. /\ "certificate" \in Facts /\ r \in Subjects /\ call[t].head \in 0 .. MaxEntries
        /\ AppendEvidence("certificate", r, call[t].head)
    BY <1>1, <1>3, <2>1, <2>2, EvidenceTypes, ActingCall
  <2>9. /\ ledger' \in Seq(Entries) /\ Len(ledger') <= MaxEntries /\ NothingLost
        /\ Recorded("certificate", r)'
    BY <2>8, AppendLosesNothing
  <2>10. \A k \in Keys : ClearancesOf(k)' = ClearancesOf(k)
    BY <2>8, OtherEvidence
  <2>11. CallOK(new)'
    <3>1. Holds(new.key, new.digest, "PENDING")'
      BY <1>1, <1>3, <2>5, ActingCall DEF Moved, CallOK, Holds, journalVars
    <3>2. Certified(new.key, new.digest, r)'
      BY <2>3, <2>5, <2>9 DEF Moved, Persists, Certified, RunIs, Saved
    <3> QED BY <2>4, <2>5, <3>1, <3>2 DEF Moved, CallOK
  <2>12. new \in Calls /\ new.key = call[t].key /\ new.at \notin BeforeSave
    BY <2>5 DEF Moved, BeforeSave
  <2> QED BY <1>1, <1>3, <2>3, <2>5, <2>6, <2>9, <2>10, <2>11, <2>12, ThreadPersists
<1> QED BY <1>2, <1>3 DEF Certify

-----------------------------------------------------------------------------
(* The server dies; the steps of the operators.                            *)

LEMMA RestartKeeps ==
    ASSUME PilotInv, Restart
    PROVE  PilotInv'
<1>1. /\ UNCHANGED <<record, resolution, run, ledger, work, answered>>
      /\ call' = [t \in Threads |-> NoCall]
  BY DEF Restart, journalVars, storeVars
<1>2. \A t \in Threads : call'[t] = NoCall
  BY <1>1
<1>3. PilotTypeOK' /\ Len(ledger') <= MaxEntries
  BY <1>1 DEF PilotInv, PilotTypeOK, JournalTypeOK, StoreTypeOK
<1>4. CallsOK' /\ OneThreadPerKey'
  BY <1>2 DEF CallsOK, OneThreadPerKey
<1>5. NothingLost /\ CertifiedRunsStay
  BY <1>1, UnchangedLosesNothing DEF CertifiedRunsStay
<1>6. SuccessesAreCertified' /\ AnswersRecorded' /\ WorksOK'
  BY <1>1, <1>5, RowsStand, WorksStand DEF AnswersRecorded
<1>7. ASSUME NEW k \in Keys
      PROVE  BudgetOf(k)'
  <2>1. MaySave(k)' => MaySave(k)
    BY <1>1, <1>2 DEF MaySave
  <2> QED BY <1>1, <2>1, BudgetStands
<1> QED BY <1>3, <1>4, <1>6, <1>7 DEF PilotInv

\* An operator goes on, and may write a resolution or an entry.
LEMMA OperatorStep ==
    ASSUME PilotInv, NEW o \in Operators, NEW new \in Works \cup {NoCall},
           work' = [work EXCEPT ![o] = new], new # NoCall => WorkOK(new)',
           resolution' \in [Keys -> Resolutions \cup {NoResolution}],
           ledger' \in Seq(Entries), Len(ledger') <= MaxEntries, NothingLost,
           UNCHANGED <<record, run, call, answered>>,
           \A k \in Keys : BudgetOf(k)'
    PROVE  PilotInv'
<1>1. work' \in [Operators -> Works \cup {NoCall}] /\ WorksOK'
  BY WorksStep
<1>2. PilotTypeOK'
  BY <1>1 DEF PilotInv, PilotTypeOK, JournalTypeOK, StoreTypeOK
<1>3. CertifiedRunsStay
  BY DEF CertifiedRunsStay
<1>4. CallsOK' /\ OneThreadPerKey'
  BY CallsStand
<1>5. SuccessesAreCertified' /\ AnswersRecorded'
  BY <1>3, RowsStand DEF AnswersRecorded
<1> QED BY <1>1, <1>2, <1>4, <1>5 DEF PilotInv

\* The budget of a key, when an operator that goes on is not clearing it
\* unless it was before, and the ledger at most grows.
LEMMA BudgetOfOperator ==
    ASSUME PilotInv, NEW o \in Operators, NEW new \in Works \cup {NoCall},
           work' = [work EXCEPT ![o] = new], UNCHANGED <<record, run, call>>,
           ledger' \in Seq(Entries), NEW k \in Keys, ClearancesOf(k) \subseteq ClearancesOf(k)',
           /\ new # NoCall /\ new.at \in {"check", "resolve"} /\ new.key = k
           /\ new.outcome = "CONFIRMED_NO_SIDE_EFFECT"
           => o \in ClearingOf(k)
    PROVE  BudgetOf(k)'
<1>1. work'[o] = new /\ \A p \in Operators \ {o} : work'[p] = work[p]
  BY PilotTypes
<1>2. ClearingOf(k)' \subseteq ClearingOf(k)
  BY <1>1 DEF ClearingOf
<1>3. RunsOf(k)' = RunsOf(k) /\ MaySave(k)' = MaySave(k)
  BY DEF RunsOf, Saved, MaySave
<1> QED BY <1>2, <1>3, BudgetKept

\* Its own step: neither store is written.
LEMMA OperatorGoes ==
    ASSUME PilotInv, NEW o \in Operators, NEW new \in Works \cup {NoCall},
           work' = [work EXCEPT ![o] = new], new # NoCall => WorkOK(new),
           UNCHANGED <<journalVars, storeVars, call, answered>>,
           new # NoCall /\ new.at \in {"check", "resolve"} =>
               /\ work[o] # NoCall /\ work[o].at \in {"check", "resolve"}
               /\ new.key = work[o].key /\ new.outcome = work[o].outcome
    PROVE  PilotInv'
<1>1. UNCHANGED <<record, resolution, run, ledger, call, answered>>
  BY DEF journalVars, storeVars
<1>2. NothingLost /\ ledger' \in Seq(Entries) /\ Len(ledger') <= MaxEntries
  BY <1>1, PilotTypes, UnchangedLosesNothing DEF PilotInv
<1>3. new # NoCall => WorkOK(new)'
  BY <1>1 DEF WorkOK, Recorded
<1>4. ASSUME NEW k \in Keys
      PROVE  BudgetOf(k)'
  <2>1. ClearancesOf(k)' = ClearancesOf(k)
    BY <1>1 DEF ClearancesOf
  <2>2. /\ new # NoCall /\ new.at \in {"check", "resolve"} /\ new.key = k
        /\ new.outcome = "CONFIRMED_NO_SIDE_EFFECT"
        => o \in ClearingOf(k)
    BY DEF ClearingOf
  <2> QED BY <1>1, <1>2, <2>1, <2>2, BudgetOfOperator
<1>5. resolution' \in [Keys -> Resolutions \cup {NoResolution}]
  BY <1>1, PilotTypes
<1> QED BY <1>1, <1>2, <1>3, <1>4, <1>5, OperatorStep

LEMMA ExamineKeeps ==
    ASSUME PilotInv, NEW o \in Operators, NEW k \in Keys, NEW g \in Digests,
           NEW outcome \in Outcomes, NEW reason \in Reasons, Examine(o, k, g, outcome, reason)
    PROVE  PilotInv'
<1> DEFINE new == [ at |-> "authorizeHead", key |-> k, digest |-> g,
                    outcome |-> outcome, reason |-> reason, head |-> 0 ]
<1>1. 0 \in 0 .. MaxEntries
  BY PilotTypes
<1>2. new \in Works /\ new.at = "authorizeHead"
  BY <1>1 DEF Works
<1>3. work' = [work EXCEPT ![o] = new] /\ UNCHANGED <<journalVars, storeVars, call, answered>>
  BY DEF Examine
<1> HIDE DEF new
<1>4. WorkOK(new)
  BY <1>2 DEF WorkOK
<1> QED BY <1>2, <1>3, <1>4, OperatorGoes

LEMMA ReadLedgerKeeps ==
    ASSUME PilotInv, NEW o \in Operators, ReadLedger(o)
    PROVE  PilotInv'
<1>1. PICK from, to \in {"authorizeHead", "authorize", "applyHead", "apply"} :
          /\ <<from, to>> \in {<<"authorizeHead", "authorize">>, <<"applyHead", "apply">>}
          /\ Doing(o, from)
          /\ work' = [work EXCEPT ![o].at = to, ![o].head = LastEntry]
          /\ UNCHANGED <<journalVars, storeVars, call, answered>>
  BY DEF ReadLedger
<1>2. work[o] # NoCall /\ work[o].at = from /\ to \in {"authorize", "apply"}
      /\ (to = "apply" => from = "applyHead")
  BY <1>1 DEF Doing
<1>3. work[o] \in Works /\ WorkOK(work[o]) /\ LastEntry \in 0 .. MaxEntries
  BY <1>2, ActingWork, PilotTypes DEF LastEntry
<1>4. PICK new : /\ work' = [work EXCEPT ![o] = new]
                 /\ WorkMoved(work[o], new, to)
  <2> DEFINE moved == [work[o] EXCEPT !.at = to, !.head = LastEntry]
  <2>1. WorkMoved(work[o], moved, to)
    BY <1>2, <1>3 DEF Works, WorkMoved
  <2>2. work' = [work EXCEPT ![o] = moved]
    BY <1>1, PilotTypes
  <2> QED BY <2>1, <2>2
<1>5. WorkOK(new)
  BY <1>2, <1>3, <1>4 DEF WorkMoved, WorkOK
<1>6. new \in Works /\ new.at \notin {"check", "resolve"}
  BY <1>2, <1>4 DEF WorkMoved
<1> QED BY <1>1, <1>4, <1>5, <1>6, OperatorGoes

LEMMA CheckKeeps ==
    ASSUME PilotInv, NEW o \in Operators, Check(o)
    PROVE  PilotInv'
<1>1. work[o] # NoCall /\ work[o].at = "check" /\ UNCHANGED <<journalVars, storeVars, call, answered>>
  BY DEF Check, Doing
<1>2. PICK place \in {"resolve", "applyHead"} : Proceed(o, place)
  BY DEF Check
<1>3. PICK new : /\ [work EXCEPT ![o].at = place] = [work EXCEPT ![o] = new]
                 /\ WorkMoved(work[o], new, place)
  BY <1>1, Places, WorkGoes
<1>4. new \in Works /\ new.key = work[o].key /\ new.outcome = work[o].outcome
      /\ work' = [work EXCEPT ![o] = new]
  BY <1>2, <1>3 DEF WorkMoved, Proceed
<1>5. WorkOK(new)
  BY <1>1, <1>3, ActingWork DEF WorkMoved, WorkOK
<1> QED BY <1>1, <1>4, <1>5, OperatorGoes

LEMMA AbandonKeeps ==
    ASSUME PilotInv, NEW o \in Operators, Abandon(o)
    PROVE  PilotInv'
<1>1. PICK new : new = NoCall
  OBVIOUS
<1>2. work' = [work EXCEPT ![o] = new] /\ UNCHANGED <<journalVars, storeVars, call, answered>>
  BY <1>1 DEF Abandon
<1> QED BY <1>1, <1>2, OperatorGoes

LEMMA AuthorizeKeeps ==
    ASSUME PilotInv, NEW o \in Operators, Authorize(o)
    PROVE  PilotInv'
<1>1. work[o] # NoCall /\ work[o].at = "authorize" /\ UNCHANGED <<record, resolution, run, call, answered>>
  BY DEF Authorize, Doing, journalVars
<1>2. PICK fact, key, digest, h : fact = work[o].outcome /\ key = work[o].key
                                  /\ digest = work[o].digest /\ h = work[o].head
  OBVIOUS
<1>3. PICK subject : subject = <<key, digest>>
  OBVIOUS
<1>4. /\ fact \in Facts /\ subject \in Subjects /\ h \in 0 .. MaxEntries
      /\ fact \in Outcomes /\ key \in Keys /\ digest \in Digests
  BY <1>1, <1>2, <1>3, ActingWork, EvidenceTypes
<1>5. AppendEvidence(fact, subject, h)
  BY <1>2, <1>3 DEF Authorize
<1>6. PICK new : /\ [work EXCEPT ![o].at = "check"] = [work EXCEPT ![o] = new]
                 /\ WorkMoved(work[o], new, "check")
  BY <1>1, Places, WorkGoes
<1>7. /\ work' = [work EXCEPT ![o] = new] /\ new \in Works /\ new # NoCall
      /\ new.at = "check" /\ new.key = key /\ new.digest = digest /\ new.outcome = fact
  BY <1>2, <1>6, NoCallAssumption DEF WorkMoved, Proceed, Authorize
<1>8. /\ ledger' \in Seq(Entries) /\ Len(ledger') <= MaxEntries /\ NothingLost
      /\ DOMAIN ledger' = DOMAIN ledger \cup {Len(ledger) + 1}
      /\ Len(ledger) + 1 \notin DOMAIN ledger
      /\ \A i \in DOMAIN ledger : ledger'[i] = ledger[i]
      /\ ledger'[Len(ledger) + 1].fact = fact /\ ledger'[Len(ledger) + 1].subject = subject
      /\ Recorded(fact, subject)'
  BY <1>4, <1>5, AppendLosesNothing
<1>9. WorkOK(new)'
  BY <1>3, <1>7, <1>8 DEF WorkOK
<1>10. ASSUME NEW k \in Keys
       PROVE  BudgetOf(k)'
  <2>1. CASE k = key /\ fact = "CONFIRMED_NO_SIDE_EFFECT"
    <3>1. PICK n : n = Len(ledger) + 1
      OBVIOUS
    <3>2. n \notin ClearancesOf(k) /\ ClearancesOf(k)' = ClearancesOf(k) \cup {n}
      <4>1. subject \in {k} \X Digests
        BY <1>3, <1>4, <2>1
      <4> QED BY <1>8, <2>1, <3>1, <4>1 DEF ClearancesOf
    <3>3. work'[o] = new /\ \A p \in Operators \ {o} : work'[p] = work[p]
      BY <1>7, PilotTypes
    <3>4. ClearingOf(k)' = ClearingOf(k) \cup {o}
      BY <1>1, <1>7, <2>1, <3>3 DEF ClearingOf
    <3>5. RunsOf(k)' = RunsOf(k) /\ MaySave(k)' = MaySave(k)
      BY <1>1 DEF RunsOf, Saved, MaySave
    <3> QED BY <3>2, <3>4, <3>5, BudgetAuthorized
  <2>2. CASE ~(k = key /\ fact = "CONFIRMED_NO_SIDE_EFFECT")
    <3>1. ClearancesOf(k) \subseteq ClearancesOf(k)'
      BY <1>8 DEF ClearancesOf
    <3> QED BY <1>1, <1>7, <1>8, <2>2, <3>1, BudgetOfOperator
  <2> QED BY <2>1, <2>2
<1>11. resolution' \in [Keys -> Resolutions \cup {NoResolution}]
  BY <1>1, PilotTypes
<1> QED BY <1>1, <1>7, <1>8, <1>9, <1>10, <1>11, OperatorStep

LEMMA ApplyKeeps ==
    ASSUME PilotInv, NEW o \in Operators, Apply(o)
    PROVE  PilotInv'
<1>1. work[o] # NoCall /\ UNCHANGED <<record, resolution, run, call, answered>>
  BY DEF Apply, Doing, journalVars
<1>2. PICK subject, h : subject = <<work[o].key, work[o].digest>> /\ h = work[o].head
  OBVIOUS
<1>3. "applied" \in Facts /\ subject \in Subjects /\ h \in 0 .. MaxEntries
  BY <1>1, <1>2, ActingWork, EvidenceTypes
<1>4. AppendEvidence("applied", subject, h)
  BY <1>2 DEF Apply
<1>5. ledger' \in Seq(Entries) /\ Len(ledger') <= MaxEntries /\ NothingLost
  BY <1>3, <1>4, AppendLosesNothing
<1>6. PICK new : new = NoCall
  OBVIOUS
<1>7. work' = [work EXCEPT ![o] = new]
  BY <1>6 DEF Apply
<1>8. \A k \in Keys : ClearancesOf(k)' = ClearancesOf(k)
  BY <1>3, <1>4, OtherEvidence
<1>9. \A k \in Keys : BudgetOf(k)'
  BY <1>1, <1>5, <1>6, <1>7, <1>8, BudgetOfOperator
<1>10. resolution' \in [Keys -> Resolutions \cup {NoResolution}]
  BY <1>1, PilotTypes
<1> QED BY <1>1, <1>5, <1>6, <1>7, <1>9, <1>10, OperatorStep

LEMMA ResolveKeeps ==
    ASSUME PilotInv, NEW o \in Operators, Resolve(o)
    PROVE  PilotInv'
<1>1. work[o] # NoCall /\ work[o].at = "resolve" /\ UNCHANGED <<run, ledger, call, answered>>
  BY DEF Resolve, Doing, storeVars
<1>2. PICK key, digest, reason :
          key = work[o].key /\ digest = work[o].digest /\ reason = work[o].reason
  OBVIOUS
<1>3. key \in Keys /\ digest \in Digests /\ reason \in Reasons /\ WorkOK(work[o])
      /\ work[o].outcome \in Outcomes
  BY <1>1, <1>2, ActingWork
<1>4. PICK new : /\ [work EXCEPT ![o].at = "applyHead"] = [work EXCEPT ![o] = new]
                 /\ WorkMoved(work[o], new, "applyHead")
  BY <1>1, Places, WorkGoes
<1>5. /\ work' = [work EXCEPT ![o] = new] /\ new \in Works /\ new.at = "applyHead"
      /\ new.key = key /\ new.digest = digest /\ new.outcome = work[o].outcome
  BY <1>2, <1>4 DEF WorkMoved, Proceed, Resolve
<1>6. NothingLost /\ ledger' \in Seq(Entries) /\ Len(ledger') <= MaxEntries
  BY <1>1, PilotTypes, UnchangedLosesNothing DEF PilotInv
<1>7. WorkOK(new)'
  BY <1>1, <1>2, <1>3, <1>5 DEF WorkOK, Recorded
<1>8. CASE work[o].outcome = "CONFIRMED_SIDE_EFFECT_PRESENT"
  <2>1. /\ resolution' = [resolution EXCEPT ![key] = [digest |-> digest, reason |-> reason]]
        /\ record' = record
    BY <1>2, <1>8 DEF Resolve, ResolvePresent
  <2>2. [digest |-> digest, reason |-> reason] \in Resolutions
    BY <1>3 DEF Resolutions
  <2>3. resolution' \in [Keys -> Resolutions \cup {NoResolution}]
    BY <2>1, <2>2, PilotTypes
  <2>4. \A k \in Keys : ClearancesOf(k)' = ClearancesOf(k)
    BY <1>1 DEF ClearancesOf
  <2>5. \A k \in Keys : BudgetOf(k)'
    BY <1>1, <1>5, <1>6, <2>1, <2>4, BudgetOfOperator
  <2> QED BY <1>1, <1>5, <1>6, <1>7, <2>1, <2>3, <2>5, OperatorStep
<1>9. CASE work[o].outcome # "CONFIRMED_SIDE_EFFECT_PRESENT"
  <2>1. PICK row : row = NoRecord
    OBVIOUS
  <2>2. /\ Holds(key, digest, "AMBIGUOUS_FAILURE")
        /\ record' = [record EXCEPT ![key] = row] /\ resolution' = resolution
    BY <1>2, <1>9, <2>1 DEF Resolve, ResolveNoSideEffect
  <2>3. work[o].outcome = "CONFIRMED_NO_SIDE_EFFECT"
    BY <1>3, <1>9 DEF Outcomes
  <2>4. record'[key] = NoRecord /\ \A k \in Keys \ {key} : record'[k] = record[k]
    BY <1>3, <2>1, <2>2, PilotTypes
  <2>5. /\ record' \in [Keys -> JournalRecords \cup {NoRecord}]
        /\ \A k \in Keys : record'[k] # NoRecord =>
              (record'[k].response = NoResponse <=> record'[k].state # "COMPLETED")
        /\ SuccessesAreCertified'
        /\ \A a \in answered : Holds(a.key, a.digest, "COMPLETED")' /\ record'[a.key].response = Success(a.run)
    BY <1>1, <1>3, <2>1, <2>2, RowChanges DEF Holds
  <2>6. work' \in [Operators -> Works \cup {NoCall}] /\ WorksOK'
    BY <1>5, <1>6, <1>7, WorksStep
  <2>7. PilotTypeOK'
    BY <1>1, <2>2, <2>5, <2>6 DEF PilotInv, PilotTypeOK, JournalTypeOK, StoreTypeOK
  <2>8. \A t \in Threads : call[t] # NoCall => call[t].key \in Keys \ {key}
    BY <2>2, ActingCall DEF CallOK, Holds
  <2>9. CallsOK' /\ OneThreadPerKey'
    BY <1>1, <1>6, <2>4, <2>8, CallsStand
  <2>10. AnswersRecorded'
    BY <1>1, <2>5 DEF AnswersRecorded
  <2>11. work'[o] = new /\ \A p \in Operators \ {o} : work'[p] = work[p]
    BY <1>5, PilotTypes
  <2>12. ASSUME NEW k \in Keys
         PROVE  BudgetOf(k)'
    <3>1. RunsOf(k)' = RunsOf(k) /\ ClearancesOf(k)' = ClearancesOf(k)
      BY <1>1 DEF RunsOf, Saved, ClearancesOf
    <3>2. CASE k = key
      <4>1. ~MaySave(k)
        BY <2>2, <2>8, <3>2 DEF MaySave, Holds
      <4>2. o \in ClearingOf(k) /\ ClearingOf(k)' = ClearingOf(k) \ {o}
        BY <1>1, <1>2, <1>5, <2>3, <2>11, <3>2 DEF ClearingOf
      <4> QED BY <3>1, <4>1, <4>2, BudgetCleared
    <3>3. CASE k # key
      <4>1. ClearingOf(k)' \subseteq ClearingOf(k)
        BY <1>5, <2>11 DEF ClearingOf
      <4>2. MaySave(k)' => MaySave(k)
        BY <1>1, <2>4, <3>3 DEF MaySave
      <4> QED BY <1>6, <3>1, <4>1, <4>2, BudgetKept
    <3> QED BY <3>2, <3>3
  <2> QED BY <1>6, <2>5, <2>6, <2>7, <2>9, <2>10, <2>12 DEF PilotInv
<1> QED BY <1>8, <1>9

-----------------------------------------------------------------------------
LEMMA PilotStarts == PilotInit => PilotInv
<1> SUFFICES ASSUME PilotInit PROVE PilotInv
  OBVIOUS
<1>1. /\ record = [k \in Keys |-> NoRecord] /\ resolution = [k \in Keys |-> NoResolution]
      /\ run = [r \in Runs |-> NoRun] /\ ledger = <<>>
      /\ call = [t \in Threads |-> NoCall] /\ work = [o \in Operators |-> NoCall] /\ answered = {}
  BY DEF PilotInit, JournalInit, StoreInit
<1>2. ledger \in Seq(Entries) /\ Len(ledger) = 0 /\ 0 <= MaxEntries
  BY <1>1, EmptySeq, StoreAssumption
<1>3. PilotTypeOK
  BY <1>1, <1>2 DEF PilotTypeOK, JournalTypeOK, StoreTypeOK
<1>4. CallsOK /\ OneThreadPerKey /\ SuccessesAreCertified /\ AnswersRecorded /\ WorksOK
  BY <1>1 DEF CallsOK, OneThreadPerKey, SuccessesAreCertified, AnswersRecorded, WorksOK
<1>5. ASSUME NEW k \in Keys
      PROVE  BudgetOf(k)
  <2>1. RunsOf(k) = {} /\ ClearingOf(k) = {}
    BY <1>1 DEF RunsOf, Saved, ClearingOf
  <2>2. IsFiniteSet({}) /\ Cardinality({}) = 0
    BY FS_EmptySet
  <2>3. Cardinality(ClearancesOf(k)) \in Nat
    BY <1>2, PositionsAreFinite DEF ClearancesOf
  <2>4. Chances(k) \in {0, 1}
    BY DEF Chances
  <2> QED BY <2>1, <2>2, <2>3, <2>4 DEF BudgetOf
<1> QED BY <1>2, <1>3, <1>4, <1>5 DEF PilotInv

LEMMA PilotStep == PilotInv /\ [PilotNext]_pilotVars => PilotInv'
<1> SUFFICES ASSUME PilotInv, [PilotNext]_pilotVars PROVE PilotInv'
  OBVIOUS
<1>1. CASE UNCHANGED pilotVars
  <2>1. UNCHANGED <<record, resolution, run, ledger, call, work, answered>>
    BY <1>1 DEF pilotVars, journalVars, storeVars
  <2>2. NothingLost /\ CertifiedRunsStay
    BY <2>1, UnchangedLosesNothing DEF CertifiedRunsStay
  <2>3. CallsOK' /\ OneThreadPerKey' /\ SuccessesAreCertified' /\ AnswersRecorded' /\ WorksOK'
    BY <2>1, <2>2, CallsStand, RowsStand, WorksStand DEF AnswersRecorded
  <2>4. \A k \in Keys : BudgetOf(k)'
    BY <2>1, BudgetStands DEF MaySave
  <2>5. PilotTypeOK' /\ Len(ledger') <= MaxEntries
    BY <2>1 DEF PilotInv, PilotTypeOK, JournalTypeOK, StoreTypeOK
  <2> QED BY <2>3, <2>4, <2>5 DEF PilotInv
<1>2. ASSUME NEW t \in Threads, NEW k \in Keys, NEW g \in Digests, Claim(t, k, g) \/ Replay(t, k, g)
      PROVE  PilotInv'
  BY <1>2, ClaimKeeps, ReplayKeeps
<1>3. ASSUME NEW t \in Threads, Step(t)
      PROVE  PilotInv'
  BY <1>3, SynthesizeKeeps, ReleaseKeeps, SaveKeeps, StoreKeeps, LinkKeeps, ReadHeadKeeps,
     CertifyKeeps, CompleteRequestKeeps, MarkAmbiguousKeeps DEF Step
<1>4. CASE Restart
  BY <1>4, RestartKeeps
<1>5. ASSUME NEW o \in Operators, Operate(o)
      PROVE  PilotInv'
  <2>1. ASSUME NEW k \in Keys, NEW g \in Digests, NEW outcome \in Outcomes, NEW reason \in Reasons,
               Examine(o, k, g, outcome, reason)
        PROVE  PilotInv'
    BY <2>1, ExamineKeeps
  <2> QED
    BY <1>5, <2>1, ReadLedgerKeeps, AuthorizeKeeps, CheckKeeps, ResolveKeeps, ApplyKeeps, AbandonKeeps
    DEF Operate
<1> QED BY <1>1, <1>2, <1>3, <1>4, <1>5 DEF PilotNext

-----------------------------------------------------------------------------
(***************************************************************************)
(* Whatever fails or dies between two steps of a request or of an          *)
(* operator, the databases are in a state of the inductive invariant.      *)
(***************************************************************************)
THEOREM PilotInvariant == PilotSpec => []PilotInv
<1> QED BY PilotStarts, PilotStep, PTL DEF PilotSpec

(***************************************************************************)
(* The rows, the ledger and the threads are of their types, and a response *)
(* is stored exactly in the COMPLETED records.                             *)
(***************************************************************************)
THEOREM PilotTypeCorrect == PilotSpec => []PilotTypeOK
<1>1. PilotInv => PilotTypeOK
  BY DEF PilotInv
<1> QED BY <1>1, PilotInvariant, PTL

(***************************************************************************)
(* claim, release, save_synthesis and the resolutions: a key has at most   *)
(* one run, and one more for each clearance that an operator has put on    *)
(* record, however many operators clear it and whoever dies in between.    *)
(***************************************************************************)
THEOREM DuplicatesNeedAuthorization == PilotSpec => []DuplicatesAreAuthorized
<1>1. ASSUME NEW a \in Nat, NEW b \in Nat, NEW c \in Nat, NEW d \in Nat, a + b + c <= 1 + d
      PROVE  a <= 1 + d
  BY <1>1
<1>2. PilotInv => DuplicatesAreAuthorized
  BY <1>1, BudgetNumbers DEF DuplicatesAreAuthorized
<1> QED BY <1>2, PilotInvariant, PTL

(***************************************************************************)
(* _replay and the first answer: all successes of a key name one run, for  *)
(* one request, since a COMPLETED record never changes.                    *)
(***************************************************************************)
THEOREM AnswersOfAKeyAgree == PilotSpec => []AnswersAgree
<1>1. ASSUME PilotInv, NEW a \in answered, NEW b \in answered, a.key = b.key
      PROVE  a = b
  <2>1. Success(a.run) = Success(b.run) /\ a.digest = b.digest
    BY <1>1 DEF PilotInv, AnswersRecorded, Holds
  <2>2. a \in [key : Keys, digest : Digests, run : Runs] /\ b \in [key : Keys, digest : Digests, run : Runs]
    BY <1>1, PilotTypes
  <2>3. a.run = b.run
    BY <2>1, <2>2, EvidenceTypes
  <2> QED BY <1>1, <2>1, <2>2, <2>3
<1>2. PilotInv => AnswersAgree
  BY <1>1 DEF AnswersAgree
<1> QED BY <1>2, PilotInvariant, PTL

(***************************************************************************)
(* A stored success names a run of this request whose decision certificate *)
(* is linked and in the ledger: save_synthesis returns before complete.    *)
(***************************************************************************)
THEOREM ReplayedRunsAreCertified == PilotSpec => []ReplayedRunIsCertified
<1>1. ASSUME PilotInv, NEW k \in Keys, record[k] # NoRecord, record[k].response # NoResponse,
             record[k].response.status = 200
      PROVE  LET r == record[k].response.run IN
             /\ Saved(r)
             /\ run[r] = [owner |-> <<k, record[k].digest>>, progress |-> "certified"]
             /\ Recorded("certificate", r)
  <2>1. PICK r : r = record[k].response.run
    OBVIOUS
  <2>2. Certified(k, record[k].digest, r)
    BY <1>1, <2>1 DEF PilotInv, SuccessesAreCertified
  <2>3. run[r] \in RunRecords /\ run[r].owner = <<k, record[k].digest>> /\ run[r].progress = "certified"
    BY <1>1, <2>2, PilotTypes DEF Certified, RunIs, Saved
  <2>4. run[r] = [owner |-> <<k, record[k].digest>>, progress |-> "certified"]
    BY <2>3 DEF RunRecords
  <2> QED BY <2>1, <2>2, <2>4 DEF Certified, RunIs
<1>2. PilotInv => ReplayedRunIsCertified
  BY <1>1 DEF ReplayedRunIsCertified
<1> QED BY <1>2, PilotInvariant, PTL

-----------------------------------------------------------------------------
(* Who changes what an operator has to resolve.                            *)

LEMMA ThreadsLeaveAmbiguous ==
    ASSUME PilotInv, NEW t \in Threads,
           \/ \E k \in Keys, g \in Digests : Claim(t, k, g) \/ Replay(t, k, g)
           \/ Step(t)
    PROVE  /\ resolution' = resolution
           /\ \A k \in Keys : record[k] # NoRecord /\ record[k].state = "AMBIGUOUS_FAILURE" => record'[k] = record[k]
<1> DEFINE Leaves == /\ resolution' = resolution
                     /\ \A k \in Keys : record[k] # NoRecord /\ record[k].state = "AMBIGUOUS_FAILURE"
                                        => record'[k] = record[k]
<1>1. ASSUME UNCHANGED journalVars PROVE Leaves
  BY <1>1 DEF journalVars
<1>2. ASSUME NEW k \in Keys, NEW g \in Digests, Claim(t, k, g) PROVE Leaves
  <2>1. record[k] = NoRecord
    BY <1>2, PilotTypes DEF Claim, Reserve, ClaimDisposition, JournalRecords
  <2> QED BY <1>2, <2>1, PilotTypes DEF Claim, Reserve
<1>3. ASSUME NEW k \in Keys, NEW g \in Digests, Replay(t, k, g) PROVE Leaves
  BY <1>1, <1>3 DEF Replay
<1>4. ASSUME call[t] # NoCall, ReleasePending(call[t].key, call[t].digest) PROVE Leaves
  BY <1>4, PilotTypes DEF ReleasePending, Holds
<1>5. ASSUME call[t] # NoCall, MarkAmbiguousFailure(call[t].key, call[t].digest) PROVE Leaves
  BY <1>5, PilotTypes DEF MarkAmbiguousFailure, Holds
<1>6. ASSUME call[t] # NoCall, NEW response, Complete(call[t].key, call[t].digest, response) PROVE Leaves
  BY <1>6, PilotTypes DEF Complete, Holds
<1>7. ASSUME Release(t) \/ MarkAmbiguous(t) \/ CompleteRequest(t) PROVE Leaves
  BY <1>1, <1>4, <1>5, <1>6, <1>7 DEF Release, MarkAmbiguous, CompleteRequest, At, journalVars
<1>8. ASSUME Synthesize(t) \/ Save(t) \/ Store(t) \/ Link(t) \/ ReadHead(t) \/ Certify(t) PROVE Leaves
  BY <1>1, <1>8 DEF Synthesize, Save, Store, Link, ReadHead, Certify, Fails
<1> QED BY <1>2, <1>3, <1>7, <1>8 DEF Step

LEMMA OperatorsResolve ==
    ASSUME PilotInv, NEW o \in Operators, Operate(o), NEW k \in Keys,
           record'[k] # record[k] \/ resolution'[k] # resolution[k]
    PROVE  Resolve(o) /\ work[o] # NoCall /\ work[o].at = "resolve" /\ work[o].key = k
<1>1. ASSUME UNCHANGED journalVars PROVE FALSE
  BY <1>1 DEF journalVars
<1>2. Resolve(o)
  BY <1>1 DEF Operate, Examine, ReadLedger, Authorize, Check, Apply, Abandon
<1>3. work[o] # NoCall /\ work[o].at = "resolve" /\ work[o].key \in Keys
  BY <1>2, ActingWork DEF Resolve, Doing
<1>4. work[o].key = k
  BY <1>2, <1>3, PilotTypes DEF Resolve, ResolvePresent, ResolveNoSideEffect
<1> QED BY <1>2, <1>3, <1>4

\* A step changes an ambiguous record, or a resolution, only by Resolve.
LEMMA OnlyResolveChanges ==
    ASSUME PilotInv, [PilotNext]_pilotVars, NEW k \in Keys,
           \/ record[k] # NoRecord /\ record[k].state = "AMBIGUOUS_FAILURE" /\ record'[k] # record[k]
           \/ resolution'[k] # resolution[k]
    PROVE  \E o \in Operators :
              Resolve(o) /\ work[o] # NoCall /\ work[o].at = "resolve" /\ work[o].key = k
<1>1. ~UNCHANGED journalVars
  BY DEF journalVars
<1>2. PilotNext /\ ~Restart
  BY <1>1 DEF pilotVars, Restart, journalVars
<1>3. ~ \E t \in Threads :
           \/ \E j \in Keys, g \in Digests : Claim(t, j, g) \/ Replay(t, j, g)
           \/ Step(t)
  BY ThreadsLeaveAmbiguous
<1>4. PICK o \in Operators : Operate(o)
  BY <1>2, <1>3 DEF PilotNext
<1> QED BY <1>4, OperatorsResolve

(***************************************************************************)
(* resolve_idempotency_ambiguity: no record is cleared and no resolution   *)
(* written before the operator's authorization is in the ledger, whichever *)
(* operators race and wherever one of them is killed.                      *)
(***************************************************************************)
THEOREM ResolutionsAreAuthorized == PilotSpec => AuthorizedBeforeResolved
<1> DEFINE Authorized(k) ==
          /\ record[k] # NoRecord /\ record[k].state = "AMBIGUOUS_FAILURE" /\ record'[k] # record[k] =>
                 Recorded("CONFIRMED_NO_SIDE_EFFECT", <<k, record[k].digest>>)
          /\ resolution'[k] # resolution[k] =>
                 Recorded("CONFIRMED_SIDE_EFFECT_PRESENT", <<k, resolution'[k].digest>>)
<1>1. ASSUME PilotInv, [PilotNext]_pilotVars, NEW k \in Keys
      PROVE  Authorized(k)
  <2>1. CASE \/ record[k] # NoRecord /\ record[k].state = "AMBIGUOUS_FAILURE" /\ record'[k] # record[k]
             \/ resolution'[k] # resolution[k]
    <3>1. PICK o \in Operators :
              Resolve(o) /\ work[o] # NoCall /\ work[o].at = "resolve" /\ work[o].key = k
      BY <1>1, <2>1, OnlyResolveChanges
    <3>2. Recorded(work[o].outcome, <<k, work[o].digest>>) /\ work[o].outcome \in Outcomes
      BY <1>1, <3>1, ActingWork DEF WorkOK
    <3>3. CASE work[o].outcome = "CONFIRMED_SIDE_EFFECT_PRESENT"
      <4>1. record' = record
            /\ resolution' = [resolution EXCEPT ![k] = [digest |-> work[o].digest, reason |-> work[o].reason]]
        BY <3>1, <3>3 DEF Resolve, ResolvePresent
      <4>2. resolution'[k].digest = work[o].digest
        BY <1>1, <4>1, PilotTypes
      <4> QED BY <3>2, <3>3, <4>1, <4>2
    <3>4. CASE work[o].outcome # "CONFIRMED_SIDE_EFFECT_PRESENT"
      <4>1. work[o].outcome = "CONFIRMED_NO_SIDE_EFFECT"
        BY <3>2, <3>4 DEF Outcomes
      <4>2. record[k].digest = work[o].digest /\ resolution' = resolution
        BY <3>1, <3>4 DEF Resolve, ResolveNoSideEffect, Holds
      <4> QED BY <3>2, <4>1, <4>2
    <3> QED BY <3>3, <3>4
  <2> QED BY <2>1
<1>2. PilotInv /\ [PilotNext]_pilotVars => [\A k \in Keys : Authorized(k)]_pilotVars
  BY <1>1
<1> QED BY <1>2, PilotInvariant, PTL DEF PilotSpec, AuthorizedBeforeResolved

-----------------------------------------------------------------------------
(* With one operator at a time nothing can change between its reads and    *)
(* its write.  (With two, something can: see the run that shows it.)       *)

BlocksHold ==
    /\ \A k \in Keys : Resolved(k) => record[k] # NoRecord /\ record[k].state = "AMBIGUOUS_FAILURE"
    /\ \A o \in Operators : work[o] # NoCall /\ work[o].at = "resolve" =>
          IF work[o].outcome = "CONFIRMED_SIDE_EFFECT_PRESENT"
          THEN Unresolved(work[o].key, work[o].digest)
          ELSE ~Resolved(work[o].key)

Blocks(k) == Resolved(k) => record'[k] = record[k] /\ resolution'[k] = resolution[k]

LEMMA BlockedStep ==
    ASSUME PilotInv, BlocksHold, [PilotNext]_pilotVars, NEW k \in Keys
    PROVE  Blocks(k)
<1> SUFFICES ASSUME Resolved(k), record'[k] # record[k] \/ resolution'[k] # resolution[k]
             PROVE  FALSE
  BY DEF Blocks
<1>1. record[k] # NoRecord /\ record[k].state = "AMBIGUOUS_FAILURE"
  BY DEF BlocksHold
<1>2. PICK o \in Operators :
          Resolve(o) /\ work[o] # NoCall /\ work[o].at = "resolve" /\ work[o].key = k
  BY <1>1, OnlyResolveChanges
<1> QED BY <1>2 DEF BlocksHold, Unresolved

LEMMA ThreadsLeaveWork ==
    ASSUME NEW t \in Threads,
           \/ \E k \in Keys, g \in Digests : Claim(t, k, g) \/ Replay(t, k, g)
           \/ Step(t)
    PROVE  work' = work
BY DEF Claim, Replay, Step, Synthesize, Release, Save, Store, Link, ReadHead, Certify,
   CompleteRequest, MarkAmbiguous

\* An operator is about to write a resolution only after its reads.
LEMMA OnlyCheckDecides ==
    ASSUME PilotInv, NEW o \in Operators, Operate(o), work'[o] # NoCall, work'[o].at = "resolve"
    PROVE  /\ UNCHANGED journalVars
           /\ work'[o].key = work[o].key /\ work'[o].digest = work[o].digest
           /\ work'[o].outcome = work[o].outcome
           /\ IF work[o].outcome = "CONFIRMED_SIDE_EFFECT_PRESENT"
              THEN Unresolved(work[o].key, work[o].digest)
              ELSE ~Resolved(work[o].key)
<1>1. ASSUME NEW place \in WorkPlaces, work[o] # NoCall, Proceed(o, place)
      PROVE  work'[o].at = place /\ work'[o].key = work[o].key /\ work'[o].digest = work[o].digest
             /\ work'[o].outcome = work[o].outcome
  <2>1. PICK new : /\ [work EXCEPT ![o].at = place] = [work EXCEPT ![o] = new]
                   /\ WorkMoved(work[o], new, place)
    BY <1>1, WorkGoes
  <2>2. work'[o] = new
    BY <1>1, <2>1, PilotTypes DEF Proceed
  <2> QED BY <2>1, <2>2 DEF WorkMoved
<1>2. ASSUME NEW k \in Keys, NEW g \in Digests, NEW outcome \in Outcomes, NEW reason \in Reasons,
             Examine(o, k, g, outcome, reason)
      PROVE  FALSE
  <2> DEFINE new == [ at |-> "authorizeHead", key |-> k, digest |-> g,
                      outcome |-> outcome, reason |-> reason, head |-> 0 ]
  <2>1. work'[o] = new
    BY <1>2, PilotTypes DEF Examine
  <2> QED BY <2>1
<1>3. ASSUME ReadLedger(o) PROVE FALSE
  <2>1. PICK from, to \in {"authorizeHead", "authorize", "applyHead", "apply"} :
            /\ <<from, to>> \in {<<"authorizeHead", "authorize">>, <<"applyHead", "apply">>}
            /\ Doing(o, from)
            /\ work' = [work EXCEPT ![o].at = to, ![o].head = LastEntry]
    BY <1>3 DEF ReadLedger
  <2>2. work[o] \in Works
    BY <2>1, ActingWork DEF Doing
  <2>3. work'[o] = [work[o] EXCEPT !.at = to, !.head = LastEntry]
    BY <2>1, PilotTypes
  <2>4. work'[o].at = to
    BY <2>2, <2>3 DEF Works
  <2> QED BY <2>1, <2>4
<1>4. ASSUME Authorize(o) PROVE FALSE
  BY <1>1, <1>4, Places DEF Authorize, Doing
<1>5. ASSUME Resolve(o) PROVE FALSE
  BY <1>1, <1>5, Places DEF Resolve, Doing
<1>6. ASSUME Apply(o) \/ Abandon(o) PROVE FALSE
  BY <1>6, PilotTypes DEF Apply, Abandon
<1>7. Check(o)
  BY <1>2, <1>3, <1>4, <1>5, <1>6 DEF Operate
<1>8. work[o] # NoCall /\ UNCHANGED journalVars
  BY <1>7 DEF Check, Doing
<1>9. /\ work'[o].key = work[o].key /\ work'[o].digest = work[o].digest
      /\ work'[o].outcome = work[o].outcome
  BY <1>1, <1>7, <1>8, Places DEF Check
<1>10. CASE work[o].outcome = "CONFIRMED_SIDE_EFFECT_PRESENT"
  <2>1. ~AlreadyPresent(work[o].key, work[o].digest, work[o].reason)
    BY <1>1, <1>7, <1>8, <1>10, Places DEF Check
  <2> QED BY <1>7, <1>8, <1>9, <1>10, <2>1 DEF Check, PresentChecks, Unresolved
<1>11. CASE work[o].outcome # "CONFIRMED_SIDE_EFFECT_PRESENT"
  BY <1>7, <1>8, <1>9, <1>11 DEF Check, NoSideEffectChecks
<1> QED BY <1>10, <1>11

LEMMA BlocksKeep ==
    ASSUME \A o, p \in Operators : o = p, PilotInv, BlocksHold, [PilotNext]_pilotVars
    PROVE  BlocksHold'
<1>1. ASSUME NEW k \in Keys, resolution'[k] # NoResolution
      PROVE  record'[k] # NoRecord /\ record'[k].state = "AMBIGUOUS_FAILURE"
  <2>1. CASE resolution'[k] = resolution[k]
    BY <1>1, <2>1, BlockedStep DEF BlocksHold, Blocks, Resolved
  <2>2. CASE resolution'[k] # resolution[k]
    <3>1. PICK o \in Operators :
              Resolve(o) /\ work[o] # NoCall /\ work[o].at = "resolve" /\ work[o].key = k
      BY <2>2, OnlyResolveChanges
    <3>2. work[o].outcome = "CONFIRMED_SIDE_EFFECT_PRESENT" /\ record' = record
      BY <2>2, <3>1 DEF Resolve, ResolvePresent, ResolveNoSideEffect
    <3> QED BY <3>1, <3>2 DEF BlocksHold, Unresolved, Holds
  <2> QED BY <2>1, <2>2
<1>2. ASSUME NEW o \in Operators, work'[o] # NoCall, work'[o].at = "resolve"
      PROVE  (IF work[o].outcome = "CONFIRMED_SIDE_EFFECT_PRESENT"
              THEN Unresolved(work[o].key, work[o].digest)
              ELSE ~Resolved(work[o].key))'
  <2>1. CASE \E p \in Operators : Operate(p)
    <3>1. Operate(o)
      BY <2>1
    <3> QED BY <1>2, <3>1, OnlyCheckDecides DEF journalVars, Unresolved, Holds, Resolved
  <2>2. CASE work' = work /\ resolution' = resolution
             /\ \A k \in Keys : record[k] # NoRecord /\ record[k].state = "AMBIGUOUS_FAILURE" => record'[k] = record[k]
    <3>1. work[o].key \in Keys
      BY <1>2, <2>2, ActingWork
    <3> QED BY <1>2, <2>2, <3>1 DEF BlocksHold, Unresolved, Holds, Resolved
  <2>3. CASE Restart \/ UNCHANGED pilotVars
    BY <2>2, <2>3 DEF Restart, pilotVars, journalVars
  <2> QED BY <2>1, <2>2, <2>3, ThreadsLeaveWork, ThreadsLeaveAmbiguous DEF PilotNext
<1> QED BY <1>1, <1>2 DEF BlocksHold, Resolved

(***************************************************************************)
(* resolve_confirmed_side_effect_present: as long as operators take turns, *)
(* a confirmed side effect blocks its key for good, whatever the server    *)
(* does with other requests and wherever either is killed.                 *)
(***************************************************************************)
THEOREM OneOperatorBlocksForGood ==
    ASSUME \A o, p \in Operators : o = p
    PROVE  PilotSpec => ResolvedStaysBlocked
<1>1. PilotInit => BlocksHold
  BY DEF PilotInit, JournalInit, BlocksHold, Resolved
<1>2. PilotInv /\ BlocksHold /\ [PilotNext]_pilotVars => BlocksHold'
  BY BlocksKeep
<1>3. PilotInv /\ BlocksHold /\ [PilotNext]_pilotVars => [\A k \in Keys : Blocks(k)]_pilotVars
  BY BlockedStep
<1>4. ResolvedStaysBlocked <=> [][\A k \in Keys : Blocks(k)]_pilotVars
  BY PTL DEF ResolvedStaysBlocked, Blocks
<1> QED BY <1>1, <1>2, <1>3, <1>4, PilotInvariant, PTL DEF PilotSpec
=============================================================================
