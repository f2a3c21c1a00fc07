---------------------------- MODULE HandoverProofs ----------------------------
(***************************************************************************)
(* What processes of one host hand over to each other, for any number of   *)
(* processes, bundles, checkpoints, callers, mutations and generations:    *)
(* fenced restarts, the recovery anchor and the fenced resource.           *)
(***************************************************************************)
EXTENDS MCHandover, SequenceTheorems, FiniteSetTheorems, TLAPS

-----------------------------------------------------------------------------
(* The chains of heads and the lineages of anchors are bounded sequences.  *)

LEMMA BoundedSequences ==
    ASSUME NEW S, NEW max \in Nat, NEW seq \in UNION {[1 .. n -> S] : n \in 0 .. max}
    PROVE  seq \in Seq(S) /\ Len(seq) \in 0 .. max
<1>1. PICK n \in 0 .. max : seq \in [1 .. n -> S]
  OBVIOUS
<1>2. n \in Nat
  BY <1>1
<1>3. seq \in Seq(S)
  BY <1>1, <1>2, SeqDef
<1>4. Len(seq) = n
  BY <1>1, <1>2, <1>3, LenProperties
<1> QED BY <1>1, <1>3, <1>4

LEMMA LongerSequence ==
    ASSUME NEW S, NEW max \in Nat, NEW seq \in UNION {[1 .. n -> S] : n \in 0 .. max},
           NEW e \in S, Len(seq) < max
    PROVE  Append(seq, e) \in UNION {[1 .. n -> S] : n \in 0 .. max}
<1>1. seq \in Seq(S) /\ Len(seq) \in 0 .. max
  BY BoundedSequences
<1> DEFINE longer == Append(seq, e)
           n == Len(seq) + 1
<1>2. longer \in Seq(S) /\ Len(longer) = n
  BY <1>1, AppendProperties
<1>3. longer \in [1 .. n -> S]
  BY <1>2, LenProperties
<1>4. n \in 0 .. max
  BY <1>1
<1> QED BY <1>3, <1>4

\* What a sequence extends, a longer sequence extends.
LEMMA PrefixOfLonger ==
    ASSUME NEW S, NEW prefix \in Seq(S), NEW seq \in Seq(S), NEW e \in S,
           Len(prefix) <= Len(seq), SubSeq(seq, 1, Len(prefix)) = prefix
    PROVE  /\ Len(prefix) <= Len(Append(seq, e))
           /\ SubSeq(Append(seq, e), 1, Len(prefix)) = prefix
<1> DEFINE n == Len(prefix)
           longer == Append(seq, e)
<1>1. n \in Nat /\ Len(seq) \in Nat
  BY LenProperties
<1>2. /\ longer \in Seq(S) /\ Len(longer) = Len(seq) + 1
      /\ \A i \in 1 .. Len(seq) : longer[i] = seq[i]
  BY AppendProperties
<1>3. \A i \in 1 .. n : longer[i] \in S /\ seq[i] \in S /\ longer[i] = seq[i]
  BY <1>1, <1>2, ElementOfSeq
<1>4. /\ SubSeq(longer, 1, n) \in Seq(S)
      /\ Len(SubSeq(longer, 1, n)) = IF 1 <= n THEN n - 1 + 1 ELSE 0
      /\ \A i \in 1 .. n - 1 + 1 : SubSeq(longer, 1, n)[i] = longer[1 + i - 1]
  BY <1>1, <1>3, SubSeqProperties
<1>5. \A i \in 1 .. n - 1 + 1 : SubSeq(seq, 1, n)[i] = seq[1 + i - 1]
  BY <1>1, <1>3, SubSeqProperties
<1>6. Len(SubSeq(longer, 1, n)) = n
  BY <1>1, <1>4
<1>7. \A i \in 1 .. n : SubSeq(longer, 1, n)[i] = prefix[i]
  BY <1>1, <1>3, <1>4, <1>5
<1>8. SubSeq(longer, 1, n) = prefix
  BY <1>4, <1>6, <1>7, SeqEqual
<1> QED BY <1>1, <1>2, <1>8

-----------------------------------------------------------------------------
(***************************************************************************)
(* Transfer heads and fenced restarts for any number of processes, bundles *)
(* and generations.  The lock file stands while a process is between its   *)
(* checks and its unlink, so that the head it has compared is the head it  *)
(* replaces; the authority answers a claim as requested only when it moves *)
(* from one generation to the next, so that a claimed generation is the    *)
(* claim of one process; and a counter that is the same before and after   *)
(* was the same in between, since the authority never goes back.           *)
(***************************************************************************)

TransferRecords ==
    [ at : TransferPlaces, purpose : Purposes, expected : Chains, bundle : Bundles \cup {NoBundle},
      counter : 0 .. MaxFence, replayed : 0 .. MaxFence ]

EvidenceRecords == [process : Processes, counter : ClaimCounters, head : Chains]

LockPlaces == {"check", "replace", "reload"}

\* A restart whose generation the authority has given to it.
HasClaimed(t) == t.purpose = "fence" /\ t.at \in {"lock", "check", "verified"}

\* What a process has compared or observed, and still relies on.
ReliesOn(t) ==
    /\ t.purpose = "advance" => t.bundle \in Bundles
    /\ t.at = "replace" => t.purpose = "advance" /\ t.expected = head /\ Len(head) < MaxSequence
    /\ HasClaimed(t) => 1 <= t.counter /\ t.counter <= authority
    /\ t.at = "persist" => 1 <= t.counter
    /\ t.at = "observe" => t.purpose \in {"current", "bracket"}
    /\ t.at \in {"observe again", "reported"} => t.purpose = "bracket"
    /\ t.purpose = "bracket" =>
          /\ t.at \in {"lock", "check"} => t.counter <= authority
          /\ t.at \in {"verified", "observe again"} => t.counter <= t.replayed /\ t.replayed <= authority
          /\ t.at = "reported" => t.replayed = t.counter

ProcessesRely == \A p \in Processes : ReliesOn(transfer[p])

\* A generation is held by one process, or is evidence, or neither.
ClaimsAreExclusive ==
    /\ \A p, q \in Processes : HasClaimed(transfer[p]) /\ HasClaimed(transfer[q])
                               /\ transfer[p].counter = transfer[q].counter => p = q
    /\ \A p \in Processes : HasClaimed(transfer[p]) =>
          \A e \in evidence : e.counter # transfer[p].counter
    /\ \A e \in evidence : e.counter <= authority

RestartInv ==
    /\ RestartTypeOK
    /\ HeadLockExcludes
    /\ ProcessesRely
    /\ ClaimsAreExclusive
    /\ AdvancesAreKept
    /\ OneRestartPerGeneration

-----------------------------------------------------------------------------
LEMMA AtMostEachOther ==
    ASSUME NEW m \in Nat, NEW n \in Nat, m <= n, n <= m
    PROVE  m = n
OBVIOUS

LEMMA ChainsAreSequences ==
    ASSUME NEW chain \in Chains
    PROVE  chain \in Seq(Bundles) /\ Len(chain) \in 0 .. MaxSequence
BY BoundedSequences, TransferAssumption DEF Chains

LEMMA LongerChain ==
    ASSUME NEW chain \in Chains, NEW bundle \in Bundles, Len(chain) < MaxSequence
    PROVE  Append(chain, bundle) \in Chains
BY LongerSequence, TransferAssumption DEF Chains

LEMMA ChainExtendsItself ==
    ASSUME NEW chain \in Chains
    PROVE  IsPrefixOf(chain, chain)
BY ChainsAreSequences, LenProperties, SubSeqFull DEF IsPrefixOf

\* The types that the steps use, with the record of a process in one piece.
LEMMA RestartTypes ==
    ASSUME RestartInv
    PROVE  /\ transfer \in [Processes -> TransferRecords]
           /\ head \in Chains /\ bundleFile \in Bundles \cup {NoBundle} /\ headLock \in BOOLEAN
           /\ advances \subseteq Chains /\ authority \in 0 .. MaxFence
           /\ receipt \in Receipts \cup {NoReceipt} /\ highest \in 0 .. MaxFence
           /\ evidence \subseteq EvidenceRecords
<1>1. transfer \in [Processes -> [ at : TransferPlaces, purpose : Purposes, expected : Chains,
                                   bundle : Bundles \cup {NoBundle}, counter : Nat, replayed : Nat ]]
  BY DEF RestartInv, RestartTypeOK, HeadTypeOK
<1>2. ASSUME NEW p \in Processes PROVE transfer[p] \in TransferRecords
  BY <1>1 DEF RestartInv, RestartTypeOK, TransferRecords
<1> QED BY <1>1, <1>2 DEF RestartInv, RestartTypeOK, HeadTypeOK, EvidenceRecords

LEMMA WiderRecords ==
    TransferRecords \subseteq [ at : TransferPlaces, purpose : Purposes, expected : Chains,
                                bundle : Bundles \cup {NoBundle}, counter : Nat, replayed : Nat ]
<1>1. 0 .. MaxFence \subseteq Nat
  BY FencedRestartAssumption
<1> QED BY <1>1 DEF TransferRecords

LEMMA IdleRecord ==
    /\ Idle \in TransferRecords
    /\ Idle.at = "idle" /\ Idle.purpose = "restart"
<1>1. Genesis \in Chains
  <2>1. Genesis \in [1 .. 0 -> Bundles] /\ 0 \in 0 .. MaxSequence
    BY TransferAssumption DEF Genesis
  <2> QED BY <2>1 DEF Chains
<1>2. 0 \in 0 .. MaxFence
  BY FencedRestartAssumption
<1> QED BY <1>1, <1>2 DEF Idle, TransferRecords, TransferPlaces, Purposes

LEMMA RestartStarts == RestartInit => RestartInv
<1> SUFFICES ASSUME RestartInit PROVE RestartInv
  OBVIOUS
<1>1. transfer \in [Processes -> TransferRecords] /\ \A p \in Processes : transfer[p] = Idle
  BY IdleRecord DEF RestartInit, HeadInit
<1>2. head \in Chains
  <2>1. Genesis \in [1 .. 0 -> Bundles] /\ 0 \in 0 .. MaxSequence
    BY TransferAssumption DEF Genesis
  <2> QED BY <2>1 DEF Chains, RestartInit, HeadInit
<1>3. RestartTypeOK
  <2>1. 0 \in 0 .. MaxFence
    BY FencedRestartAssumption
  <2>2. HeadTypeOK
    BY <1>1, <1>2, WiderRecords DEF RestartInit, HeadInit, HeadTypeOK
  <2> QED BY <1>1, <2>1, <2>2 DEF RestartInit, RestartTypeOK, TransferRecords
<1>4. HeadLockExcludes
  BY <1>1, IdleRecord DEF HeadLockExcludes, Locked
<1>5. ProcessesRely /\ ClaimsAreExclusive
  BY <1>1, IdleRecord DEF ProcessesRely, ReliesOn, ClaimsAreExclusive, HasClaimed, RestartInit
<1> QED BY <1>3, <1>4, <1>5 DEF RestartInv, AdvancesAreKept, OneRestartPerGeneration, RestartInit, HeadInit

-----------------------------------------------------------------------------
\* A process moves: it takes the lock when it is free, and keeps or releases it;
\* the head is replaced only under it, the authority only goes forward, and a
\* generation becomes evidence only from the claim of the process.
LEMMA ProcessMoves ==
    ASSUME RestartInv, NEW p \in Processes, NEW new \in TransferRecords,
           transfer' = [transfer EXCEPT ![p] = new],
           head' \in Chains, bundleFile' \in Bundles \cup {NoBundle}, headLock' \in BOOLEAN,
           advances' \subseteq Chains, authority' \in 0 .. MaxFence,
           receipt' \in Receipts \cup {NoReceipt}, highest' \in 0 .. MaxFence,
           head' = head \/ Locked(p),
           new.at \in LockPlaces => headLock' /\ (Locked(p) \/ ~headLock),
           headLock' = headLock \/ Locked(p) \/ ~headLock,
           authority <= authority',
           \/ evidence' = evidence
           \/ \E e \in EvidenceRecords :
                 /\ evidence' = evidence \cup {e} /\ e.counter = transfer[p].counter
                 /\ HasClaimed(transfer[p]) /\ ~HasClaimed(new),
           HasClaimed(new) => (HasClaimed(transfer[p]) /\ new.counter = transfer[p].counter)
                              \/ authority < new.counter,
           ReliesOn(new)',
           AdvancesAreKept'
    PROVE  RestartInv'
<1> USE RestartTypes
<1>1. transfer' \in [Processes -> TransferRecords] /\ transfer'[p] = new
  OBVIOUS
<1>2. \A q \in Processes : q # p => transfer'[q] = transfer[q]
  OBVIOUS
<1>3. authority \in Nat /\ authority' \in Nat
  BY FencedRestartAssumption
<1>4. RestartTypeOK'
  <2>1. HeadTypeOK'
    BY <1>1, WiderRecords DEF HeadTypeOK
  <2>2. evidence' \subseteq EvidenceRecords
    OBVIOUS
  <2> QED BY <1>1, <2>1, <2>2 DEF RestartTypeOK, TransferRecords, EvidenceRecords
<1>5. ASSUME NEW q \in Processes, q # p, Locked(q) PROVE ~Locked(p) /\ headLock
  BY <1>5 DEF RestartInv, HeadLockExcludes
<1>6. HeadLockExcludes'
  <2> SUFFICES ASSUME NEW q \in Processes, NEW o \in Processes, Locked(q)', Locked(o)'
               PROVE  q = o /\ headLock'
    BY DEF HeadLockExcludes
  <2>1. \A r \in Processes : r # p /\ Locked(r)' => Locked(r)
    BY <1>2 DEF Locked
  <2>2. Locked(p)' => headLock' /\ (Locked(p) \/ ~headLock)
    BY <1>1 DEF Locked, LockPlaces
  <2> QED BY <1>5, <2>1, <2>2 DEF RestartInv, HeadLockExcludes
<1>7. ProcessesRely'
  <2> SUFFICES ASSUME NEW q \in Processes PROVE ReliesOn(transfer[q])'
    BY DEF ProcessesRely
  <2>1. CASE q = p
    BY <1>1, <2>1
  <2>2. CASE q # p
    <3>1. ReliesOn(transfer[q]) /\ transfer[q] \in TransferRecords
      BY DEF RestartInv, ProcessesRely
    <3>2. transfer[q].at = "replace" => head' = head
      BY <1>5, <2>2 DEF Locked
    <3>3. transfer[q].counter \in Nat /\ transfer[q].replayed \in Nat
      BY <3>1, FencedRestartAssumption DEF TransferRecords
    <3>4. /\ transfer[q].counter <= authority => transfer[q].counter <= authority'
          /\ transfer[q].replayed <= authority => transfer[q].replayed <= authority'
      BY <1>3, <3>3
    <3>5. transfer'[q] = transfer[q]
      BY <1>2, <2>2
    <3> HIDE RestartTypes
    <3>6. HasClaimed(transfer[q]) => 1 <= transfer[q].counter /\ transfer[q].counter <= authority'
      BY <3>1, <3>4 DEF ReliesOn
    <3>7. transfer[q].purpose = "bracket" =>
             /\ transfer[q].at \in {"lock", "check"} => transfer[q].counter <= authority'
             /\ transfer[q].at \in {"verified", "observe again"} =>
                   transfer[q].counter <= transfer[q].replayed /\ transfer[q].replayed <= authority'
             /\ transfer[q].at = "reported" => transfer[q].replayed = transfer[q].counter
      BY <3>1, <3>4 DEF ReliesOn
    <3>8. /\ transfer[q].purpose = "advance" => transfer[q].bundle \in Bundles
          /\ transfer[q].at = "replace" =>
                transfer[q].purpose = "advance" /\ transfer[q].expected = head' /\ Len(head') < MaxSequence
          /\ transfer[q].at = "persist" => 1 <= transfer[q].counter
          /\ transfer[q].at = "observe" => transfer[q].purpose \in {"current", "bracket"}
          /\ transfer[q].at \in {"observe again", "reported"} => transfer[q].purpose = "bracket"
      BY <3>1, <3>2 DEF ReliesOn
    <3> QED BY <3>5, <3>6, <3>7, <3>8 DEF ReliesOn, HasClaimed
  <2> QED BY <2>1, <2>2
<1>8. ASSUME NEW q \in Processes, HasClaimed(transfer[q])
      PROVE  transfer[q].counter \in Nat /\ transfer[q].counter <= authority
  <2>1. transfer[q] \in TransferRecords
    OBVIOUS
  <2>2. transfer[q].counter \in Nat
    BY <2>1, FencedRestartAssumption DEF TransferRecords
  <2>3. ReliesOn(transfer[q])
    BY DEF RestartInv, ProcessesRely
  <2>4. transfer[q].counter <= authority
    BY <1>8, <2>3 DEF ReliesOn
  <2> QED BY <2>2, <2>4
<1>9. \A e \in evidence : e.counter \in Nat /\ e.counter <= authority
  BY FencedRestartAssumption DEF RestartInv, ClaimsAreExclusive, EvidenceRecords, ClaimCounters
<1>10. new.counter \in Nat
  BY FencedRestartAssumption DEF TransferRecords
<1>11. ASSUME NEW q \in Processes, q # p, HasClaimed(transfer[q]), HasClaimed(new)
       PROVE  new.counter # transfer[q].counter
  <2>1. CASE HasClaimed(transfer[p]) /\ new.counter = transfer[p].counter
    BY <1>11, <2>1 DEF RestartInv, ClaimsAreExclusive
  <2>2. CASE authority < new.counter
    BY <1>3, <1>8, <1>10, <1>11, <2>2
  <2> QED BY <1>11, <2>1, <2>2
<1>12. ASSUME HasClaimed(new), NEW e \in evidence PROVE e.counter # new.counter
  <2>1. CASE HasClaimed(transfer[p]) /\ new.counter = transfer[p].counter
    BY <2>1 DEF RestartInv, ClaimsAreExclusive
  <2>2. CASE authority < new.counter
    BY <1>3, <1>9, <1>10, <2>2
  <2> QED BY <1>12, <2>1, <2>2
<1>13. ClaimsAreExclusive' /\ OneRestartPerGeneration'
  <2>1. \A q, o \in Processes : HasClaimed(transfer'[q]) /\ HasClaimed(transfer'[o])
                                /\ transfer'[q].counter = transfer'[o].counter => q = o
    BY <1>1, <1>2, <1>11 DEF RestartInv, ClaimsAreExclusive
  <2>2. CASE evidence' = evidence
    <3>1. \A q \in Processes : HasClaimed(transfer'[q]) =>
             \A e \in evidence : e.counter # transfer'[q].counter
      BY <1>1, <1>2, <1>12 DEF RestartInv, ClaimsAreExclusive
    <3>2. \A e \in evidence : e.counter <= authority'
      BY <1>3, <1>9
    <3> QED BY <2>1, <2>2, <3>1, <3>2 DEF ClaimsAreExclusive, HasClaimed, RestartInv, OneRestartPerGeneration
  <2>3. CASE \E e \in EvidenceRecords :
                 /\ evidence' = evidence \cup {e} /\ e.counter = transfer[p].counter
                 /\ HasClaimed(transfer[p]) /\ ~HasClaimed(new)
    <3>1. PICK e \in EvidenceRecords :
                 /\ evidence' = evidence \cup {e} /\ e.counter = transfer[p].counter
                 /\ HasClaimed(transfer[p]) /\ ~HasClaimed(new)
      BY <2>3
    <3>2. ASSUME NEW q \in Processes, HasClaimed(transfer'[q]), NEW f \in evidence'
          PROVE  f.counter # transfer'[q].counter
      <4>1. q # p /\ transfer'[q] = transfer[q]
        BY <1>1, <1>2, <3>1, <3>2
      <4> QED BY <3>1, <3>2, <4>1 DEF RestartInv, ClaimsAreExclusive
    <3>3. \A f \in evidence' : f.counter <= authority'
      BY <1>3, <1>8, <1>9, <3>1
    <3>4. OneRestartPerGeneration'
      BY <3>1 DEF RestartInv, ClaimsAreExclusive, OneRestartPerGeneration
    <3> QED BY <2>1, <3>2, <3>3, <3>4 DEF ClaimsAreExclusive, HasClaimed
  <2> QED BY <2>2, <2>3
<1> QED BY <1>4, <1>6, <1>7, <1>13 DEF RestartInv

-----------------------------------------------------------------------------
\* The record of a process that goes to another place.
LEMMA RecordMoves ==
    ASSUME RestartInv, NEW p \in Processes, NEW place \in TransferPlaces, Move(p, place)
    PROVE  \E new \in TransferRecords :
              /\ transfer' = [transfer EXCEPT ![p] = new]
              /\ new.at = place /\ new.purpose = transfer[p].purpose
              /\ new.expected = transfer[p].expected /\ new.bundle = transfer[p].bundle
              /\ new.counter = transfer[p].counter /\ new.replayed = transfer[p].replayed
<1> DEFINE new == [transfer[p] EXCEPT !.at = place]
<1>1. transfer[p] \in TransferRecords
  BY RestartTypes
<1>2. new \in TransferRecords
  BY <1>1 DEF TransferRecords
<1>3. /\ new.at = place /\ new.purpose = transfer[p].purpose
      /\ new.expected = transfer[p].expected /\ new.bundle = transfer[p].bundle
      /\ new.counter = transfer[p].counter /\ new.replayed = transfer[p].replayed
  BY <1>1 DEF TransferRecords
<1>4. transfer' = [transfer EXCEPT ![p] = new]
  BY DEF Move
<1> HIDE DEF new
<1> QED BY <1>2, <1>3, <1>4

\* A step that leaves everything but its own record and the lock alone.
LEMMA QuietMove ==
    ASSUME RestartInv, NEW p \in Processes, NEW new \in TransferRecords,
           transfer' = [transfer EXCEPT ![p] = new],
           UNCHANGED <<head, bundleFile, advances, fenceVars>>,
           headLock' \in BOOLEAN,
           new.at \in LockPlaces => headLock' /\ (Locked(p) \/ ~headLock),
           headLock' = headLock \/ Locked(p) \/ ~headLock,
           HasClaimed(new) => HasClaimed(transfer[p]) /\ new.counter = transfer[p].counter,
           ReliesOn(new)
    PROVE  RestartInv'
<1>1. UNCHANGED <<head, bundleFile, advances, authority, receipt, highest, evidence>>
  BY DEF fenceVars
<1>2. authority <= authority'
  <2>1. authority \in Nat
    BY RestartTypes, FencedRestartAssumption
  <2> QED BY <1>1, <2>1
<1>3. ReliesOn(new)' /\ AdvancesAreKept'
  BY <1>1 DEF ReliesOn, HasClaimed, RestartInv, AdvancesAreKept
<1> QED BY <1>1, <1>2, <1>3, RestartTypes, ProcessMoves

\* A process that ends what it does, with evidence, an error or a crash.
LEMMA StopStep ==
    ASSUME RestartInv, NEW p \in Processes, Stop(p),
           head' = head, bundleFile' = bundleFile, headLock' \in BOOLEAN,
           headLock' = headLock \/ Locked(p) \/ ~headLock,
           advances' \subseteq Chains, authority' \in 0 .. MaxFence, authority <= authority',
           receipt' \in Receipts \cup {NoReceipt}, highest' \in 0 .. MaxFence,
           evidence' = evidence, AdvancesAreKept'
    PROVE  RestartInv'
<1>1. Idle \in TransferRecords /\ Idle.at \notin LockPlaces /\ ~HasClaimed(Idle) /\ ReliesOn(Idle)'
  BY IdleRecord DEF LockPlaces, HasClaimed, ReliesOn
<1>2. transfer' = [transfer EXCEPT ![p] = Idle]
  BY DEF Stop
<1> QED BY <1>1, <1>2, RestartTypes, ProcessMoves

LEMMA QuietStop ==
    ASSUME RestartInv, NEW p \in Processes, Stop(p),
           UNCHANGED <<head, bundleFile, advances, fenceVars>>, headLock' \in BOOLEAN,
           headLock' = headLock \/ Locked(p) \/ ~headLock
    PROVE  RestartInv'
<1>1. Idle \in TransferRecords /\ Idle.at \notin LockPlaces /\ ~HasClaimed(Idle) /\ ReliesOn(Idle)
  BY IdleRecord DEF LockPlaces, HasClaimed, ReliesOn
<1>2. transfer' = [transfer EXCEPT ![p] = Idle]
  BY DEF Stop
<1> QED BY <1>1, <1>2, QuietMove

\* What the invariant says of the process that takes a step.
LEMMA OwnRecord ==
    ASSUME RestartInv, NEW p \in Processes
    PROVE  /\ transfer[p] \in TransferRecords /\ ReliesOn(transfer[p])
           /\ transfer[p].counter \in Nat /\ transfer[p].replayed \in Nat /\ authority \in Nat
           /\ Locked(p) => headLock
<1>1. transfer[p] \in TransferRecords /\ authority \in 0 .. MaxFence
  BY RestartTypes
<1> QED BY <1>1, FencedRestartAssumption DEF RestartInv, ProcessesRely, HeadLockExcludes, TransferRecords

-----------------------------------------------------------------------------
LEMMA AskKeeps ==
    ASSUME RestartInv, NEW p \in Processes,
           \/ Ask(p, "restart", NoBundle)
           \/ \E bundle \in Bundles : Ask(p, "advance", bundle),
           UNCHANGED fenceVars
    PROVE  RestartInv'
<1>1. PICK purpose \in {"restart", "advance"}, bundle \in Bundles \cup {NoBundle} :
         Ask(p, purpose, bundle) /\ (purpose = "advance" => bundle \in Bundles)
  OBVIOUS
<1> DEFINE new == [Idle EXCEPT !.at = "lock", !.purpose = purpose, !.expected = head, !.bundle = bundle]
<1>2. new \in TransferRecords /\ new.at = "lock" /\ new.purpose = purpose /\ new.bundle = bundle
  BY IdleRecord, RestartTypes DEF TransferRecords, TransferPlaces, Purposes
<1>3. transfer' = [transfer EXCEPT ![p] = new] /\ UNCHANGED <<head, bundleFile, advances, headLock>>
  BY <1>1 DEF Ask
<1> HIDE DEF new
<1>4. ReliesOn(new) /\ ~HasClaimed(new) /\ new.at \notin LockPlaces
  BY <1>1, <1>2 DEF ReliesOn, HasClaimed, LockPlaces
<1> QED BY <1>2, <1>3, <1>4, RestartTypes, QuietMove

LEMMA AcquireKeeps ==
    ASSUME RestartInv, NEW p \in Processes, AcquireHeadLock(p), UNCHANGED fenceVars
    PROVE  RestartInv'
<1>1. /\ transfer[p].at = "lock" /\ headLock' = TRUE /\ UNCHANGED <<head, bundleFile, advances>>
  BY DEF AcquireHeadLock
<1>2. CASE headLock /\ Stop(p)
  BY <1>1, <1>2, QuietStop
<1>3. CASE ~headLock /\ Move(p, "check")
  <2>1. PICK new \in TransferRecords :
              /\ transfer' = [transfer EXCEPT ![p] = new]
              /\ new.at = "check" /\ new.purpose = transfer[p].purpose
              /\ new.expected = transfer[p].expected /\ new.bundle = transfer[p].bundle
              /\ new.counter = transfer[p].counter /\ new.replayed = transfer[p].replayed
    BY <1>3, RecordMoves DEF TransferPlaces
  <2>2. ReliesOn(new) /\ (HasClaimed(new) => HasClaimed(transfer[p]))
    BY <1>1, <2>1, OwnRecord DEF ReliesOn, HasClaimed
  <2> QED BY <1>1, <1>3, <2>1, <2>2, QuietMove
<1> QED BY <1>2, <1>3 DEF AcquireHeadLock, Excluded

LEMMA CheckAdvanceKeeps ==
    ASSUME RestartInv, NEW p \in Processes, CheckAdvance(p), UNCHANGED fenceVars
    PROVE  RestartInv'
<1>1. /\ transfer[p].at = "check" /\ transfer[p].purpose = "advance"
      /\ UNCHANGED <<head, bundleFile, advances>> /\ Locked(p) /\ headLock
  BY OwnRecord DEF CheckAdvance, Locked
<1>2. CASE Stop(p) /\ ReleaseHeadLock
  BY <1>1, <1>2, QuietStop DEF ReleaseHeadLock
<1>3. CASE MayAdvance(p) /\ Move(p, "replace") /\ UNCHANGED headLock
  <2>1. PICK new \in TransferRecords :
              /\ transfer' = [transfer EXCEPT ![p] = new]
              /\ new.at = "replace" /\ new.purpose = transfer[p].purpose
              /\ new.expected = transfer[p].expected /\ new.bundle = transfer[p].bundle
              /\ new.counter = transfer[p].counter /\ new.replayed = transfer[p].replayed
    BY <1>3, RecordMoves DEF TransferPlaces
  <2>2. ReliesOn(new) /\ ~HasClaimed(new)
    BY <1>1, <1>3, <2>1, OwnRecord DEF ReliesOn, HasClaimed, MayAdvance
  <2> QED BY <1>1, <1>3, <2>1, <2>2, QuietMove
<1> QED BY <1>2, <1>3 DEF CheckAdvance

\* The head is the one that was compared: what extended it, extends the new one.
LEMMA ReplaceHeadKeeps ==
    ASSUME RestartInv, NEW p \in Processes, ReplaceHead(p), UNCHANGED fenceVars
    PROVE  RestartInv'
<1>1. /\ transfer[p].at = "replace" /\ Move(p, "reload") /\ Locked(p) /\ headLock
      /\ UNCHANGED <<bundleFile, headLock, advances>>
      /\ UNCHANGED <<authority, receipt, highest, evidence>>
  BY OwnRecord DEF ReplaceHead, Locked, fenceVars
<1>2. /\ transfer[p].purpose = "advance" /\ transfer[p].expected = head
      /\ Len(head) < MaxSequence /\ transfer[p].bundle \in Bundles
  BY <1>1, OwnRecord DEF ReliesOn
<1>3. head' = Append(head, transfer[p].bundle) /\ head' \in Chains
  BY <1>2, RestartTypes, LongerChain DEF ReplaceHead, StagedHead
<1>4. PICK new \in TransferRecords :
          /\ transfer' = [transfer EXCEPT ![p] = new]
          /\ new.at = "reload" /\ new.purpose = transfer[p].purpose
          /\ new.expected = transfer[p].expected /\ new.bundle = transfer[p].bundle
          /\ new.counter = transfer[p].counter /\ new.replayed = transfer[p].replayed
  BY <1>1, RecordMoves DEF TransferPlaces
<1>5. ReliesOn(new)' /\ ~HasClaimed(new)
  BY <1>2, <1>4 DEF ReliesOn, HasClaimed
<1>6. AdvancesAreKept'
  <2> SUFFICES ASSUME NEW chain \in advances PROVE IsPrefixOf(chain, head)'
    BY <1>1 DEF AdvancesAreKept
  <2>1. IsPrefixOf(chain, head) /\ chain \in Seq(Bundles) /\ head \in Seq(Bundles)
    BY RestartTypes, ChainsAreSequences DEF RestartInv, AdvancesAreKept
  <2> QED BY <1>2, <1>3, <2>1, PrefixOfLonger DEF IsPrefixOf
<1>7. authority <= authority'
  BY <1>1, OwnRecord
<1> QED BY <1>1, <1>3, <1>4, <1>5, <1>6, <1>7, RestartTypes, ProcessMoves DEF LockPlaces

LEMMA ReloadHeadKeeps ==
    ASSUME RestartInv, NEW p \in Processes, ReloadHead(p), UNCHANGED fenceVars
    PROVE  RestartInv'
<1>1. /\ transfer[p].at = "reload" /\ Stop(p) /\ headLock' = FALSE /\ Locked(p)
      /\ UNCHANGED <<head, bundleFile, authority, receipt, highest, evidence>>
      /\ advances' \subseteq advances \cup {head}
  BY DEF ReloadHead, ReleaseHeadLock, Locked, fenceVars
<1>2. IsPrefixOf(head, head) /\ advances' \subseteq Chains
  BY <1>1, RestartTypes, ChainExtendsItself
<1>3. AdvancesAreKept'
  BY <1>1, <1>2 DEF RestartInv, AdvancesAreKept, IsPrefixOf
<1>4. authority <= authority'
  BY <1>1, OwnRecord
<1> QED BY <1>1, <1>2, <1>3, <1>4, RestartTypes, StopStep

LEMMA CheckRestartKeeps ==
    ASSUME RestartInv, NEW p \in Processes, CheckRestart(p, authority), UNCHANGED fenceVars
    PROVE  RestartInv'
<1>1. /\ transfer[p].at = "check" /\ transfer[p].purpose # "advance"
      /\ UNCHANGED <<head, bundleFile, advances>> /\ Locked(p) /\ headLock' = FALSE
  BY DEF CheckRestart, Locked, ReleaseHeadLock
<1>2. CASE Stop(p)
  BY <1>1, <1>2, QuietStop
<1>3. CASE transfer' = [transfer EXCEPT
                 ![p].at = "verified",
                 ![p].replayed = IF transfer[p].purpose = "bracket" THEN authority ELSE @]
  <2> DEFINE seen == IF transfer[p].purpose = "bracket" THEN authority ELSE transfer[p].replayed
             new == [transfer[p] EXCEPT !.at = "verified", !.replayed = seen]
  <2>1. transfer[p] \in TransferRecords /\ seen \in 0 .. MaxFence
    BY RestartTypes DEF TransferRecords
  <2>2. /\ new \in TransferRecords
        /\ new.at = "verified" /\ new.purpose = transfer[p].purpose
        /\ new.counter = transfer[p].counter /\ new.replayed = seen
    <3> HIDE DEF seen
    <3> QED BY <2>1 DEF TransferRecords, TransferPlaces
  <2>3. transfer' = [transfer EXCEPT ![p] = new]
    BY <1>3
  <2>4. new.purpose = "bracket" => new.replayed = authority
    BY <2>2
  <2> HIDE DEF new, seen
  <2>5. HasClaimed(new) => HasClaimed(transfer[p]) /\ new.counter = transfer[p].counter
    BY <1>1, <2>2 DEF HasClaimed
  <2>6. new.purpose = "bracket" => new.counter <= new.replayed /\ new.replayed <= authority
    <3>1. transfer[p].purpose = "bracket" => transfer[p].counter <= authority
      BY <1>1, OwnRecord DEF ReliesOn
    <3>2. authority <= authority
      BY OwnRecord
    <3> QED BY <2>2, <2>4, <3>1, <3>2
  <2>7. HasClaimed(new) => 1 <= new.counter /\ new.counter <= authority
    BY <2>5, OwnRecord DEF ReliesOn
  <2>8. ReliesOn(new)
    BY <1>1, <2>2, <2>6, <2>7 DEF ReliesOn
  <2>9. new.at \notin LockPlaces
    BY <2>2 DEF LockPlaces
  <2> QED BY <1>1, <2>2, <2>3, <2>5, <2>8, <2>9, QuietMove
<1> QED BY <1>2, <1>3 DEF CheckRestart

LEMMA PublishBundleKeeps ==
    ASSUME RestartInv, NEW p \in Processes, NEW bundle \in Bundles, PublishBundle(p, bundle),
           UNCHANGED fenceVars
    PROVE  RestartInv'
<1>1. /\ bundleFile' \in Bundles
      /\ UNCHANGED <<head, headLock, transfer, advances, authority, receipt, highest, evidence>>
  BY DEF PublishBundle, fenceVars
<1>2. RestartTypeOK' /\ HeadLockExcludes'
  BY <1>1 DEF RestartInv, RestartTypeOK, HeadTypeOK, HeadLockExcludes, Locked
<1> QED BY <1>1, <1>2 DEF RestartInv, ProcessesRely, ReliesOn, HasClaimed, ClaimsAreExclusive,
           AdvancesAreKept, OneRestartPerGeneration

LEMMA RemoveStaleLockKeeps ==
    ASSUME RestartInv, RemoveStaleLock, UNCHANGED fenceVars
    PROVE  RestartInv'
<1>1. /\ headLock' = FALSE /\ \A p \in Processes : ~Locked(p)
      /\ UNCHANGED <<head, bundleFile, transfer, advances, authority, receipt, highest, evidence>>
  BY DEF RemoveStaleLock, fenceVars
<1>2. RestartTypeOK' /\ HeadLockExcludes'
  BY <1>1 DEF RestartInv, RestartTypeOK, HeadTypeOK, HeadLockExcludes, Locked
<1> QED BY <1>1, <1>2 DEF RestartInv, ProcessesRely, ReliesOn, HasClaimed, ClaimsAreExclusive,
           AdvancesAreKept, OneRestartPerGeneration

LEMMA HeadStep ==
    ASSUME RestartInv, HeadNext(authority), UNCHANGED fenceVars
    PROVE  RestartInv'
<1>1. CASE RemoveStaleLock
  BY <1>1, RemoveStaleLockKeeps
<1>2. ASSUME NEW p \in Processes, NEW bundle \in Bundles, PublishBundle(p, bundle)
      PROVE  RestartInv'
  BY <1>2, PublishBundleKeeps
<1>3. ASSUME NEW p \in Processes,
             Ask(p, "restart", NoBundle) \/ \E bundle \in Bundles : Ask(p, "advance", bundle)
      PROVE  RestartInv'
  BY <1>3, AskKeeps
<1>4. ASSUME NEW p \in Processes, Crash(p) PROVE RestartInv'
  BY <1>4, RestartTypes, QuietStop DEF Crash
<1>5. ASSUME NEW p \in Processes,
             \/ AcquireHeadLock(p) \/ CheckAdvance(p) \/ ReplaceHead(p)
             \/ ReloadHead(p) \/ CheckRestart(p, authority)
      PROVE  RestartInv'
  BY <1>5, AcquireKeeps, CheckAdvanceKeeps, ReplaceHeadKeeps, ReloadHeadKeeps, CheckRestartKeeps
<1> QED BY <1>1, <1>2, <1>3, <1>4, <1>5 DEF HeadNext

-----------------------------------------------------------------------------
LEMMA RequestClaimKeeps ==
    ASSUME RestartInv, NEW p \in Processes, NEW previous \in 0 .. authority, RequestClaim(p, previous)
    PROVE  RestartInv'
<1> DEFINE new == [Idle EXCEPT !.at = "claim", !.purpose = "fence", !.expected = head,
                               !.counter = previous + 1]
<1>1. previous + 1 \in 0 .. MaxFence
  <2>1. authority \in Nat /\ MaxFence \in Nat /\ previous < MaxFence
    BY OwnRecord, FencedRestartAssumption DEF RequestClaim
  <2> QED BY <2>1
<1>2. new \in TransferRecords /\ new.at = "claim" /\ new.purpose = "fence"
  BY <1>1, IdleRecord, RestartTypes DEF TransferRecords, TransferPlaces, Purposes
<1>3. /\ transfer' = [transfer EXCEPT ![p] = new]
      /\ UNCHANGED <<head, bundleFile, headLock, advances, fenceVars>>
  BY DEF RequestClaim, Files
<1> HIDE DEF new
<1>4. ReliesOn(new) /\ ~HasClaimed(new) /\ new.at \notin LockPlaces
  BY <1>2 DEF ReliesOn, HasClaimed, LockPlaces
<1> QED BY <1>2, <1>3, <1>4, RestartTypes, QuietMove

\* The generation that is claimed is above every other: the authority had the one
\* before it.  Any other answer is refused.
LEMMA ClaimGenerationKeeps ==
    ASSUME RestartInv, NEW p \in Processes, ClaimGeneration(p)
    PROVE  RestartInv'
<1> DEFINE counter == transfer[p].counter
<1>1. /\ UNCHANGED <<head, bundleFile, headLock, advances, receipt, highest, evidence>>
      /\ transfer[p].at = "claim" /\ counter \in 0 .. MaxFence /\ authority \in 0 .. MaxFence
  BY RestartTypes DEF ClaimGeneration, Files, TransferRecords
<1>2. AdvancesAreKept'
  BY <1>1 DEF RestartInv, AdvancesAreKept
<1>3. CASE authority = counter - 1 /\ authority' = counter
  <2>1. /\ authority < counter /\ authority <= authority' /\ 1 <= counter /\ counter <= authority'
        /\ authority' \in 0 .. MaxFence
    BY <1>1, <1>3, FencedRestartAssumption
  <2>2. CASE Stop(p)
    BY <1>1, <1>2, <2>1, <2>2, RestartTypes, StopStep
  <2>3. CASE ClaimAnswered(p, counter)
    <3> DEFINE given == [transfer[p] EXCEPT !.at = "lock", !.counter = counter]
    <3>1. transfer[p] \in TransferRecords
      BY RestartTypes
    <3>2. /\ given \in TransferRecords
          /\ given.at = "lock" /\ given.counter = counter /\ given.bundle = transfer[p].bundle
          /\ given.purpose = transfer[p].purpose
      BY <3>1 DEF TransferRecords, TransferPlaces
    <3>3. transfer' = [transfer EXCEPT ![p] = given]
      BY <2>3 DEF ClaimAnswered, AsRequested
    <3> HIDE DEF given
    <3>4. PICK new \in TransferRecords :
              /\ transfer' = [transfer EXCEPT ![p] = new]
              /\ new.at = "lock" /\ new.counter = counter /\ new.bundle = transfer[p].bundle
              /\ new.purpose = transfer[p].purpose
      BY <3>2, <3>3
    <3>5. ReliesOn(new)'
      BY <2>1, <3>4, OwnRecord DEF ReliesOn, HasClaimed
    <3>6. new.at \notin LockPlaces
      BY <3>4 DEF LockPlaces
    <3>7. HasClaimed(new) => authority < new.counter
      BY <2>1, <3>4
    <3> QED BY <1>1, <1>2, <2>1, <3>4, <3>5, <3>6, <3>7, RestartTypes, ProcessMoves
  <2> QED BY <1>3, <2>2, <2>3 DEF ClaimGeneration
<1>4. CASE authority # counter - 1
  <2>1. UNCHANGED authority /\ authority <= authority'
    BY <1>1, <1>4, FencedRestartAssumption DEF ClaimGeneration
  <2>2. Stop(p)
    BY <1>4 DEF ClaimGeneration, ClaimAnswered, AsRequested, Stop
  <2> QED BY <1>1, <1>2, <2>1, <2>2, RestartTypes, StopStep
<1> QED BY <1>3, <1>4 DEF ClaimGeneration

LEMMA FenceVerifiedKeeps ==
    ASSUME RestartInv, NEW p \in Processes, FenceVerified(p)
    PROVE  RestartInv'
<1> DEFINE own == [ process |-> p, counter |-> transfer[p].counter, head |-> transfer[p].expected ]
<1>1. /\ UNCHANGED <<head, bundleFile, headLock, advances, authority, receipt, highest>>
      /\ transfer[p].at = "verified" /\ transfer[p].purpose = "fence"
      /\ evidence' = evidence \cup {own} /\ Move(p, "persist")
  BY DEF FenceVerified, Files
<1>2. HasClaimed(transfer[p]) /\ 1 <= transfer[p].counter
  BY <1>1, OwnRecord DEF HasClaimed, ReliesOn
<1>3. own \in EvidenceRecords /\ own.counter = transfer[p].counter
  <2>1. transfer[p].counter \in 0 .. MaxFence /\ transfer[p].expected \in Chains
    BY RestartTypes DEF TransferRecords
  <2>2. transfer[p].counter \in ClaimCounters
    BY <1>2, <2>1, FencedRestartAssumption DEF ClaimCounters
  <2> QED BY <2>1, <2>2 DEF EvidenceRecords
<1> HIDE DEF own
<1>4. PICK new \in TransferRecords :
          /\ transfer' = [transfer EXCEPT ![p] = new]
          /\ new.at = "persist" /\ new.purpose = transfer[p].purpose
          /\ new.expected = transfer[p].expected /\ new.bundle = transfer[p].bundle
          /\ new.counter = transfer[p].counter /\ new.replayed = transfer[p].replayed
  BY <1>1, RecordMoves DEF TransferPlaces
<1>5. ReliesOn(new)' /\ ~HasClaimed(new) /\ new.at \notin LockPlaces
  BY <1>1, <1>2, <1>4 DEF ReliesOn, HasClaimed, LockPlaces
<1>6. AdvancesAreKept' /\ authority <= authority'
  BY <1>1, OwnRecord DEF RestartInv, AdvancesAreKept
<1> QED BY <1>1, <1>2, <1>3, <1>4, <1>5, <1>6, RestartTypes, ProcessMoves

LEMMA PersistReceiptKeeps ==
    ASSUME RestartInv, NEW p \in Processes, PersistReceipt(p)
    PROVE  RestartInv'
<1>1. /\ UNCHANGED <<head, bundleFile, headLock, advances, authority, highest, evidence>> /\ Stop(p)
      /\ transfer[p].at = "persist" /\ receipt' = OwnReceipt(p)
  BY DEF PersistReceipt, Files
<1>2. receipt' \in Receipts
  <2>1. transfer[p].counter \in 0 .. MaxFence /\ transfer[p].expected \in Chains
    BY RestartTypes DEF TransferRecords
  <2>2. transfer[p].counter \in ClaimCounters
    <3>1. 1 <= transfer[p].counter
      BY <1>1, OwnRecord DEF ReliesOn
    <3> QED BY <2>1, <3>1, FencedRestartAssumption DEF ClaimCounters
  <2> QED BY <1>1, <2>1, <2>2 DEF OwnReceipt, Receipts
<1>3. AdvancesAreKept' /\ authority <= authority'
  BY <1>1, OwnRecord DEF RestartInv, AdvancesAreKept
<1> QED BY <1>1, <1>2, <1>3, RestartTypes, StopStep

LEMMA ConsumeKeeps ==
    ASSUME RestartInv, NEW p \in Processes, Consume(p)
    PROVE  RestartInv'
<1>1. /\ UNCHANGED <<head, bundleFile, headLock, advances, authority, receipt, evidence>> /\ Stop(p)
      /\ highest' \in {highest, transfer[p].counter}
  BY DEF Consume, Files
<1>2. highest' \in 0 .. MaxFence
  BY <1>1, RestartTypes DEF TransferRecords
<1>3. AdvancesAreKept' /\ authority <= authority'
  BY <1>1, OwnRecord DEF RestartInv, AdvancesAreKept
<1> QED BY <1>1, <1>2, <1>3, RestartTypes, StopStep

-----------------------------------------------------------------------------
LEMMA LoadReceiptKeeps ==
    ASSUME RestartInv, NEW p \in Processes, NEW e \in evidence,
           NEW purpose \in {"current", "bracket", "token"}, LoadReceipt(p, purpose, e)
    PROVE  RestartInv'
<1>1. e.counter \in 0 .. MaxFence /\ e.head \in Chains
  <2>1. e \in EvidenceRecords
    BY RestartTypes
  <2>2. ClaimCounters \subseteq 0 .. MaxFence
    BY FencedRestartAssumption DEF ClaimCounters
  <2> QED BY <2>1, <2>2 DEF EvidenceRecords
<1> DEFINE place == IF purpose = "token" THEN "lock" ELSE "observe"
           new == [ Idle EXCEPT !.at = place, !.purpose = purpose, !.expected = e.head,
                                !.counter = e.counter ]
<1>2. /\ new \in TransferRecords
      /\ new.at \in {"lock", "observe"} /\ new.purpose = purpose
      /\ purpose = "bracket" => new.at = "observe"
      /\ new.at = "observe" => purpose \in {"current", "bracket"}
  <2>1. place \in {"lock", "observe"} /\ (place = "observe" <=> purpose \in {"current", "bracket"})
    OBVIOUS
  <2> HIDE DEF place
  <2>2. new \in TransferRecords /\ new.at = place /\ new.purpose = purpose
    BY <1>1, <2>1, IdleRecord DEF TransferRecords, TransferPlaces, Purposes
  <2> HIDE DEF new
  <2> QED BY <2>1, <2>2
<1>3. transfer' = [transfer EXCEPT ![p] = new] /\ UNCHANGED <<head, bundleFile, headLock, advances, fenceVars>>
  BY DEF LoadReceipt, Files
<1> HIDE DEF new
<1>4. ReliesOn(new) /\ ~HasClaimed(new) /\ new.at \notin LockPlaces
  BY <1>2 DEF ReliesOn, HasClaimed, LockPlaces
<1> QED BY <1>2, <1>3, <1>4, RestartTypes, QuietMove

\* The steps of a check between the files and its answer.
LEMMA CurrentnessKeeps ==
    ASSUME RestartInv, NEW p \in Processes, ObserveCounter(p) \/ Replayed(p) \/ ObserveAgain(p) \/ Reported(p)
    PROVE  RestartInv'
<1>1. /\ UNCHANGED <<head, bundleFile, headLock, advances, fenceVars>>
      /\ transfer[p].at \in {"observe", "verified", "observe again", "reported"}
  BY DEF ObserveCounter, Replayed, ObserveAgain, Reported, Files
<1>2. CASE Stop(p)
  BY <1>1, <1>2, RestartTypes, QuietStop
<1>3. ASSUME NEW place \in {"lock", "observe again", "consume", "reported"}, Move(p, place),
             transfer[p].purpose # "fence",
             \/ place = "lock" /\ transfer[p].at = "observe" /\ authority = transfer[p].counter
             \/ place = "observe again" /\ transfer[p].at = "verified" /\ transfer[p].purpose = "bracket"
             \/ place = "consume"
             \/ place = "reported" /\ transfer[p].at = "observe again" /\ authority = transfer[p].counter
      PROVE  RestartInv'
  <2>1. PICK new \in TransferRecords :
              /\ transfer' = [transfer EXCEPT ![p] = new]
              /\ new.at = place /\ new.purpose = transfer[p].purpose
              /\ new.expected = transfer[p].expected /\ new.bundle = transfer[p].bundle
              /\ new.counter = transfer[p].counter /\ new.replayed = transfer[p].replayed
    <3>1. place \in TransferPlaces /\ Move(p, place)
      BY <1>3 DEF TransferPlaces
    <3> QED BY <3>1, RecordMoves
  <2>2. ~HasClaimed(new) /\ new.at \notin LockPlaces
    BY <1>3, <2>1 DEF HasClaimed, LockPlaces
  <2>3. transfer[p].counter \in Nat /\ transfer[p].replayed \in Nat /\ authority \in Nat
    BY OwnRecord
  <2>4. transfer[p].purpose = "bracket" /\ transfer[p].at \in {"verified", "observe again"} =>
           transfer[p].counter <= transfer[p].replayed /\ transfer[p].replayed <= authority
    BY OwnRecord DEF ReliesOn
  <2>5. /\ transfer[p].purpose = "advance" => transfer[p].bundle \in Bundles
        /\ transfer[p].at = "observe again" => transfer[p].purpose = "bracket"
    BY OwnRecord DEF ReliesOn
  <2>6. CASE place = "lock" /\ authority = transfer[p].counter
    <3>1. new.counter <= authority
      BY <2>1, <2>3, <2>6
    <3> QED BY <1>1, <2>1, <2>2, <2>5, <2>6, <3>1, RestartTypes, QuietMove DEF ReliesOn
  <2>7. CASE place = "observe again" /\ transfer[p].at = "verified" /\ transfer[p].purpose = "bracket"
    BY <1>1, <2>1, <2>2, <2>4, <2>7, RestartTypes, QuietMove DEF ReliesOn
  <2>8. CASE place = "consume"
    BY <1>1, <2>1, <2>2, <2>5, <2>8, RestartTypes, QuietMove DEF ReliesOn
  <2>9. CASE place = "reported" /\ transfer[p].at = "observe again" /\ authority = transfer[p].counter
    <3>1. new.replayed = new.counter
      <4>1. transfer[p].counter <= transfer[p].replayed /\ transfer[p].replayed <= transfer[p].counter
        <5>1. transfer[p].purpose = "bracket" /\ transfer[p].at \in {"verified", "observe again"}
          BY <2>5, <2>9
        <5>2. transfer[p].counter <= transfer[p].replayed /\ transfer[p].replayed <= authority
          BY <2>4, <5>1
        <5> QED BY <2>3, <2>9, <5>2
      <4>2. transfer[p].counter = transfer[p].replayed
        BY <2>3, <4>1, AtMostEachOther
      <4> QED BY <2>1, <4>2
    <3> QED BY <1>1, <2>1, <2>2, <2>5, <2>9, <3>1, RestartTypes, QuietMove DEF ReliesOn
  <2> QED BY <1>3, <2>6, <2>7, <2>8, <2>9
<1>4. /\ transfer[p].at = "observe" => transfer[p].purpose # "fence"
      /\ transfer[p].at = "observe again" => transfer[p].purpose # "fence"
  BY OwnRecord DEF ReliesOn
<1>5. CASE ObserveCounter(p)
  BY <1>2, <1>3, <1>4, <1>5 DEF ObserveCounter
<1>6. CASE Replayed(p)
  BY <1>2, <1>3, <1>6 DEF Replayed
<1>7. CASE ObserveAgain(p)
  BY <1>2, <1>3, <1>4, <1>7 DEF ObserveAgain, StillCurrent
<1>8. CASE Reported(p)
  BY <1>2, <1>8 DEF Reported
<1> QED BY <1>5, <1>6, <1>7, <1>8

-----------------------------------------------------------------------------
LEMMA RestartStep == RestartInv /\ [RestartNext]_restartVars => RestartInv'
<1> SUFFICES ASSUME RestartInv, [RestartNext]_restartVars PROVE RestartInv'
  OBVIOUS
<1>1. CASE HeadNext(authority) /\ UNCHANGED fenceVars
  BY <1>1, HeadStep
<1>2. ASSUME NEW p \in Processes,
             \/ ClaimGeneration(p) \/ FenceVerified(p) \/ PersistReceipt(p)
             \/ ObserveCounter(p) \/ Replayed(p) \/ ObserveAgain(p) \/ Consume(p) \/ Reported(p)
      PROVE  RestartInv'
  BY <1>2, ClaimGenerationKeeps, FenceVerifiedKeeps, PersistReceiptKeeps, ConsumeKeeps, CurrentnessKeeps
<1>3. ASSUME NEW p \in Processes, NEW previous \in 0 .. authority, RequestClaim(p, previous)
      PROVE  RestartInv'
  BY <1>3, RequestClaimKeeps
<1>4. ASSUME NEW p \in Processes, NEW e \in evidence, NEW purpose \in {"current", "bracket", "token"},
             LoadReceipt(p, purpose, e)
      PROVE  RestartInv'
  BY <1>4, LoadReceiptKeeps
<1>5. CASE UNCHANGED restartVars
  <2>1. UNCHANGED <<head, bundleFile, headLock, transfer, advances, authority, receipt, highest, evidence>>
    BY <1>5 DEF restartVars, headVars, fenceVars
  <2>2. RestartTypeOK' /\ HeadLockExcludes'
    BY <2>1 DEF RestartInv, RestartTypeOK, HeadTypeOK, HeadLockExcludes, Locked
  <2> QED BY <2>1, <2>2 DEF RestartInv, ProcessesRely, ReliesOn, HasClaimed, ClaimsAreExclusive,
             AdvancesAreKept, OneRestartPerGeneration
<1> QED BY <1>1, <1>2, <1>3, <1>4, <1>5 DEF RestartNext

(***************************************************************************)
(* However the processes interleave, crash and leave their lock file, the  *)
(* files, the authority and the evidence are in a state of the inductive   *)
(* invariant: types, one process under the lock file, what every process   *)
(* still relies on, claims that nobody else has, and the properties below. *)
(***************************************************************************)
THEOREM RestartInvariant == RestartSpec => []RestartInv
<1> QED BY RestartStarts, RestartStep, PTL DEF RestartSpec

(***************************************************************************)
(* advance_process_transfer_head: an advance of which evidence was         *)
(* returned stays in the chain of every later head.                        *)
(***************************************************************************)
THEOREM AdvancesStay == RestartSpec => []AdvancesAreKept
<1>1. RestartInv => AdvancesAreKept
  BY DEF RestartInv
<1> QED BY <1>1, RestartInvariant, PTL

(***************************************************************************)
(* verify_fenced_authenticated_persisted_process_transfer_restart: no two  *)
(* verified restarts have the same fencing generation.                     *)
(***************************************************************************)
THEOREM GenerationsAreExclusive == RestartSpec => []OneRestartPerGeneration
<1>1. RestartInv => OneRestartPerGeneration
  BY DEF RestartInv
<1> QED BY <1>1, RestartInvariant, PTL

(***************************************************************************)
(* verify_persisted_fenced_restart_bracketed_currentness: a receipt that   *)
(* is reported as current was current while its files were replayed.       *)
(***************************************************************************)
THEOREM BracketIsExact == RestartSpec => []BracketWasCurrent
<1>1. RestartInv => BracketWasCurrent
  BY DEF RestartInv, ProcessesRely, ReliesOn, BracketWasCurrent
<1> QED BY <1>1, RestartInvariant, PTL

-----------------------------------------------------------------------------
(***************************************************************************)
(* The recovery anchor for any number of processes, checkpoints and        *)
(* lineages.  As long as nobody removes the lock of a running process, the *)
(* lock file names the only process between its recheck and its release;   *)
(* what that process has compared is then still there when it replaces it, *)
(* unless a publication, which takes no lock, came in between.             *)
(***************************************************************************)

\* A process that asks for the lock, or has it, extends what it has verified.
ExtendsPredecessor ==
    \A p \in Recoverers :
        recovery[p].at \in {"lock", "recheck", "replace"}
        => \E checkpoint \in Checkpoints : recovery[p].to = Append(recovery[p].from, checkpoint)

HolderOwnsLock == ~disturbed => \A p \in Recoverers : Holding(p) => anchorLock = p

ReplacesPredecessor ==
    ~disturbed => \A p \in Recoverers :
        recovery[p].at = "replace" => anchor = recovery[p].from \/ advanced = {}

OwnerHasNotShared == anchorLock \notin shared

RecoveryInv ==
    /\ RecoveryTypeOK
    /\ ExtendsPredecessor
    /\ HolderOwnsLock
    /\ ReplacesPredecessor
    /\ AdvancedHeadsAreKept
    /\ OwnerHasNotShared

-----------------------------------------------------------------------------
LEMMA LineagesAreSequences ==
    ASSUME NEW lineage \in Lineages
    PROVE  lineage \in Seq(Checkpoints) /\ Len(lineage) \in 0 .. MaxLineage
BY BoundedSequences, RecoveryAssumption DEF Lineages

LEMMA LongerLineage ==
    ASSUME NEW lineage \in Lineages, NEW checkpoint \in Checkpoints, Len(lineage) < MaxLineage
    PROVE  Append(lineage, checkpoint) \in Lineages
BY LongerSequence, RecoveryAssumption DEF Lineages

LEMMA LineageExtendsItself ==
    ASSUME NEW lineage \in Lineages
    PROVE  Len(lineage) <= Len(lineage) /\ SubSeq(lineage, 1, Len(lineage)) = lineage
BY LineagesAreSequences, LenProperties, SubSeqFull

-----------------------------------------------------------------------------
LEMMA RecoveryStarts == RecoveryInit => RecoveryInv
<1> SUFFICES ASSUME RecoveryInit PROVE RecoveryInv
  OBVIOUS
<1>1. NoAnchor \in Lineages
  <2>1. NoAnchor \in [1 .. 0 -> Checkpoints] /\ 0 \in 0 .. MaxLineage
    BY RecoveryAssumption DEF NoAnchor
  <2> QED BY <2>1 DEF Lineages
<1>2. RecoveryTypeOK
  BY <1>1 DEF RecoveryInit, RecoveryTypeOK, NoRecovery, RecoveryPlaces
<1>3. \A p \in Recoverers : recovery[p].at = "idle"
  BY DEF RecoveryInit, NoRecovery
<1> QED
  BY <1>2, <1>3 DEF RecoveryInit, RecoveryInv, ExtendsPredecessor, HolderOwnsLock, ReplacesPredecessor,
     AdvancedHeadsAreKept, OwnerHasNotShared, Holding

\* Only p moves, and it does not become the second process under the lock.
LEMMA MoveKeepsExclusion ==
    ASSUME RecoveryInv, NEW p \in Recoverers,
           \A q \in Recoverers \ {p} : recovery'[q] = recovery[q],
           disturbed' = disturbed, anchorLock' = anchorLock, shared' = shared,
           Holding(p)' => Holding(p)
    PROVE  HolderOwnsLock' /\ OwnerHasNotShared'
BY DEF RecoveryInv, HolderOwnsLock, OwnerHasNotShared, Holding

\* A place in which nothing is to be shown of what the process extends.
LEMMA MoveKeepsReplacement ==
    ASSUME RecoveryInv, NEW p \in Recoverers,
           \A q \in Recoverers \ {p} : recovery'[q] = recovery[q],
           disturbed' = disturbed, anchor' = anchor, advanced' = advanced,
           recovery'[p].at \notin {"lock", "recheck", "replace"}
    PROVE  ExtendsPredecessor' /\ ReplacesPredecessor' /\ AdvancedHeadsAreKept'
<1>1. ExtendsPredecessor'
  BY DEF RecoveryInv, ExtendsPredecessor
<1>2. ReplacesPredecessor'
  BY DEF RecoveryInv, ReplacesPredecessor
<1>3. AdvancedHeadsAreKept'
  BY DEF RecoveryInv, AdvancedHeadsAreKept
<1> QED BY <1>1, <1>2, <1>3

LEMMA NoRecoveryType == NoRecovery \in [ at : RecoveryPlaces, mode : {"serialized", "owned"},
                                         from : Lineages, to : Lineages ]
<1>1. NoAnchor \in [1 .. 0 -> Checkpoints] /\ 0 \in 0 .. MaxLineage
  BY RecoveryAssumption DEF NoAnchor
<1>2. NoAnchor \in Lineages
  BY <1>1 DEF Lineages
<1> QED BY <1>2 DEF NoRecovery, RecoveryPlaces

LEMMA PublishKeeps ==
    ASSUME RecoveryInv, NEW p \in Recoverers, NEW lineage \in Lineages, PublishAnchor(p, lineage)
    PROVE  RecoveryInv'
<1>1. /\ recovery[p].at = "idle"
      /\ anchor' = lineage /\ advanced' = {}
      /\ recovery'[p].at = "published"
      /\ \A q \in Recoverers \ {p} : recovery'[q] = recovery[q]
      /\ UNCHANGED <<anchorLock, published, disturbed, shared>>
  BY DEF PublishAnchor, NoRecovery, RecoveryInv, RecoveryTypeOK
<1>2. RecoveryTypeOK'
  <2>1. [NoRecovery EXCEPT !.at = "published", !.to = lineage]
           \in [ at : RecoveryPlaces, mode : {"serialized", "owned"}, from : Lineages, to : Lineages ]
    BY NoRecoveryType DEF RecoveryPlaces
  <2> QED BY <1>1, <2>1 DEF PublishAnchor, RecoveryInv, RecoveryTypeOK
<1>3. HolderOwnsLock' /\ OwnerHasNotShared'
  BY <1>1, MoveKeepsExclusion DEF Holding
<1>4. ExtendsPredecessor' /\ ReplacesPredecessor' /\ AdvancedHeadsAreKept'
  BY <1>1 DEF RecoveryInv, ExtendsPredecessor, ReplacesPredecessor, AdvancedHeadsAreKept
<1> QED BY <1>2, <1>3, <1>4 DEF RecoveryInv

\* The reading back of a publication, a release, and the end of a process.
LEMMA FinishKeeps ==
    ASSUME RecoveryInv, NEW p \in Recoverers,
           Finish(p), published' \subseteq Lineages,
           UNCHANGED <<anchor, anchorLock, advanced, disturbed, shared>>
    PROVE  RecoveryInv'
<1>1. /\ recovery'[p].at = "idle"
      /\ \A q \in Recoverers \ {p} : recovery'[q] = recovery[q]
  BY DEF Finish, NoRecovery, RecoveryInv, RecoveryTypeOK
<1>2. RecoveryTypeOK'
  BY NoRecoveryType DEF Finish, RecoveryInv, RecoveryTypeOK
<1>3. HolderOwnsLock' /\ OwnerHasNotShared'
  BY <1>1, MoveKeepsExclusion DEF Holding
<1>4. ExtendsPredecessor' /\ ReplacesPredecessor' /\ AdvancedHeadsAreKept'
  BY <1>1, MoveKeepsReplacement
<1> QED BY <1>2, <1>3, <1>4 DEF RecoveryInv

LEMMA VerifyKeeps ==
    ASSUME RecoveryInv, NEW p \in Recoverers, NEW mode \in {"serialized", "owned"},
           NEW checkpoint \in Checkpoints, VerifySuccessor(p, mode, checkpoint)
    PROVE  RecoveryInv'
<1> DEFINE asked == [ at |-> "lock", mode |-> mode, from |-> anchor, to |-> Append(anchor, checkpoint) ]
<1>1. /\ recovery[p].at = "idle"
      /\ recovery' = [recovery EXCEPT ![p] = asked]
      /\ recovery'[p] = asked
      /\ \A q \in Recoverers \ {p} : recovery'[q] = recovery[q]
      /\ UNCHANGED <<anchor, anchorLock, published, advanced, disturbed, shared>>
  BY DEF VerifySuccessor, RecoveryInv, RecoveryTypeOK
<1>2. Append(anchor, checkpoint) \in Lineages
  BY LongerLineage DEF VerifySuccessor, RecoveryInv, RecoveryTypeOK
<1>3. RecoveryTypeOK'
  <2>1. asked \in [ at : RecoveryPlaces, mode : {"serialized", "owned"}, from : Lineages, to : Lineages ]
    BY <1>2 DEF RecoveryInv, RecoveryTypeOK, RecoveryPlaces
  <2> HIDE DEF asked
  <2> QED BY <1>1, <2>1 DEF RecoveryInv, RecoveryTypeOK
<1>4. HolderOwnsLock' /\ OwnerHasNotShared'
  <2>1. recovery'[p].at = "lock"
    BY <1>1
  <2> HIDE DEF asked
  <2> QED BY <1>1, <2>1, MoveKeepsExclusion DEF Holding
<1>5. ExtendsPredecessor'
  BY <1>1 DEF RecoveryInv, ExtendsPredecessor
<1>6. ReplacesPredecessor' /\ AdvancedHeadsAreKept'
  BY <1>1 DEF RecoveryInv, ReplacesPredecessor, AdvancedHeadsAreKept
<1> QED BY <1>3, <1>4, <1>5, <1>6 DEF RecoveryInv

LEMMA LockKeeps ==
    ASSUME RecoveryInv, NEW p \in Recoverers, LockAnchor(p)
    PROVE  RecoveryInv'
<1>1. CASE LockExists
  BY <1>1, FinishKeeps DEF LockAnchor, RecoveryInv, RecoveryTypeOK
<1>2. CASE ~LockExists
  <2>1. /\ recovery[p].at = "lock"
        /\ anchorLock = NoRecoverer /\ anchorLock' = p
        /\ shared' = {q \in Recoverers \ {p} : Holding(q)} \cup (shared \ {p})
        /\ recovery' = [recovery EXCEPT ![p].at = "recheck"]
        /\ UNCHANGED <<anchor, published, advanced, disturbed>>
    BY <1>2 DEF LockAnchor, LockExists, GoOn
  <2>2. /\ recovery'[p] = [recovery[p] EXCEPT !.at = "recheck"]
        /\ \A q \in Recoverers \ {p} : recovery'[q] = recovery[q]
    BY <2>1 DEF RecoveryInv, RecoveryTypeOK
  <2>3. RecoveryTypeOK'
    BY <2>1 DEF RecoveryInv, RecoveryTypeOK, RecoveryPlaces
  <2>4. HolderOwnsLock'
    BY <2>1, <2>2, RecoveryAssumption DEF RecoveryInv, HolderOwnsLock, Holding
  <2>5. OwnerHasNotShared'
    BY <2>1 DEF OwnerHasNotShared
  <2>6. recovery'[p].from = recovery[p].from /\ recovery'[p].to = recovery[p].to
        /\ recovery'[p].at = "recheck"
    BY <2>2 DEF RecoveryInv, RecoveryTypeOK
  <2>7. ExtendsPredecessor'
    BY <2>1, <2>2, <2>6 DEF RecoveryInv, ExtendsPredecessor
  <2>8. ReplacesPredecessor' /\ AdvancedHeadsAreKept'
    BY <2>1, <2>2, <2>6 DEF RecoveryInv, ReplacesPredecessor, AdvancedHeadsAreKept
  <2> QED BY <2>3, <2>4, <2>5, <2>7, <2>8 DEF RecoveryInv
<1> QED BY <1>1, <1>2

\* To the release, or from the comparison of the lock to its unlink.
LEMMA GoOnKeeps ==
    ASSUME RecoveryInv, NEW p \in Recoverers, NEW place \in {"compare", "unlink"},
           Holding(p), GoOn(p, place),
           UNCHANGED <<anchor, anchorLock, published, advanced, disturbed, shared>>
    PROVE  RecoveryInv'
<1>1. /\ recovery'[p].at = place
      /\ \A q \in Recoverers \ {p} : recovery'[q] = recovery[q]
  BY DEF GoOn, RecoveryInv, RecoveryTypeOK
<1>2. RecoveryTypeOK'
  BY DEF GoOn, RecoveryInv, RecoveryTypeOK, RecoveryPlaces
<1>3. HolderOwnsLock' /\ OwnerHasNotShared'
  BY <1>1, MoveKeepsExclusion
<1>4. ExtendsPredecessor' /\ ReplacesPredecessor' /\ AdvancedHeadsAreKept'
  BY <1>1, MoveKeepsReplacement
<1> QED BY <1>2, <1>3, <1>4 DEF RecoveryInv

LEMMA ReleaseIsAPlace ==
    ASSUME NEW p PROVE ReleasePlace(p) \in {"compare", "unlink"}
BY DEF ReleasePlace

LEMMA RecheckKeeps ==
    ASSUME RecoveryInv, NEW p \in Recoverers, RecheckPredecessor(p)
    PROVE  RecoveryInv'
<1>1. Holding(p) /\ recovery[p].at = "recheck"
  BY DEF RecheckPredecessor, Holding
<1>2. CASE ~PredecessorUnchanged(p)
  BY <1>1, <1>2, ReleaseIsAPlace, GoOnKeeps DEF RecheckPredecessor
<1>3. CASE PredecessorUnchanged(p)
  <2>1. /\ recovery' = [recovery EXCEPT ![p].at = "replace"]
        /\ UNCHANGED <<anchor, anchorLock, published, advanced, disturbed, shared>>
    BY <1>3 DEF RecheckPredecessor, GoOn
  <2>2. /\ recovery'[p].at = "replace"
        /\ recovery'[p].from = recovery[p].from /\ recovery'[p].to = recovery[p].to
        /\ \A q \in Recoverers \ {p} : recovery'[q] = recovery[q]
    BY <2>1 DEF RecoveryInv, RecoveryTypeOK
  <2>3. RecoveryTypeOK'
    BY <2>1 DEF RecoveryInv, RecoveryTypeOK, RecoveryPlaces
  <2>4. HolderOwnsLock' /\ OwnerHasNotShared'
    BY <1>1, <2>1, <2>2, MoveKeepsExclusion
  <2>5. ExtendsPredecessor'
    BY <1>1, <2>2 DEF RecoveryInv, ExtendsPredecessor
  <2>6. ReplacesPredecessor'
    BY <1>3, <2>1, <2>2 DEF RecoveryInv, ReplacesPredecessor, PredecessorUnchanged
  <2>7. AdvancedHeadsAreKept'
    BY <2>1 DEF RecoveryInv, AdvancedHeadsAreKept
  <2> QED BY <2>3, <2>4, <2>5, <2>6, <2>7 DEF RecoveryInv
<1> QED BY <1>2, <1>3

\* Nobody else is under the lock, so that the head that is replaced is the one
\* that was compared, or one that was published without a lock.
LEMMA ReplaceKeeps ==
    ASSUME RecoveryInv, NEW p \in Recoverers, ReplaceAnchor(p)
    PROVE  RecoveryInv'
<1>1. /\ recovery[p].at = "replace"
      /\ anchor' = recovery[p].to
      /\ recovery' = [recovery EXCEPT ![p].at = "read back"]
      /\ UNCHANGED <<anchorLock, published, advanced, disturbed, shared>>
  BY DEF ReplaceAnchor, GoOn
<1>2. /\ recovery'[p].at = "read back"
      /\ \A q \in Recoverers \ {p} : recovery'[q] = recovery[q]
  BY <1>1 DEF RecoveryInv, RecoveryTypeOK
<1>3. RecoveryTypeOK'
  BY <1>1 DEF RecoveryInv, RecoveryTypeOK, RecoveryPlaces
<1>4. HolderOwnsLock' /\ OwnerHasNotShared'
  BY <1>1, <1>2, MoveKeepsExclusion DEF Holding
<1>5. ExtendsPredecessor'
  BY <1>2 DEF RecoveryInv, ExtendsPredecessor
<1>6. ReplacesPredecessor'
  <2> SUFFICES ASSUME ~disturbed', NEW q \in Recoverers, recovery'[q].at = "replace" PROVE FALSE
    BY DEF ReplacesPredecessor
  <2>1. q # p /\ recovery[q].at = "replace"
    BY <1>2
  <2>2. anchorLock = p /\ anchorLock = q
    BY <1>1, <2>1 DEF RecoveryInv, HolderOwnsLock, Holding
  <2> QED BY <2>1, <2>2
<1>7. AdvancedHeadsAreKept'
  <2> SUFFICES ASSUME ~disturbed', NEW lineage \in advanced'
               PROVE  /\ Len(lineage) <= Len(anchor')
                      /\ SubSeq(anchor', 1, Len(lineage)) = lineage
    BY DEF AdvancedHeadsAreKept
  <2>1. anchor = recovery[p].from /\ lineage \in advanced
    BY <1>1 DEF RecoveryInv, ReplacesPredecessor
  <2>2. Len(lineage) <= Len(anchor) /\ SubSeq(anchor, 1, Len(lineage)) = lineage
    BY <1>1, <2>1 DEF RecoveryInv, AdvancedHeadsAreKept
  <2>3. PICK checkpoint \in Checkpoints : anchor' = Append(anchor, checkpoint)
    BY <1>1, <2>1 DEF RecoveryInv, ExtendsPredecessor
  <2>4. anchor \in Seq(Checkpoints) /\ lineage \in Seq(Checkpoints)
    BY <2>1, LineagesAreSequences DEF RecoveryInv, RecoveryTypeOK
  <2> QED BY <2>2, <2>3, <2>4, PrefixOfLonger
<1> QED BY <1>3, <1>4, <1>5, <1>6, <1>7 DEF RecoveryInv

LEMMA ReadBackKeeps ==
    ASSUME RecoveryInv, NEW p \in Recoverers, ReadAnchorBack(p)
    PROVE  RecoveryInv'
<1>1. /\ recovery[p].at = "read back"
      /\ advanced' = advanced \/ advanced' = advanced \cup {anchor}
      /\ recovery' = [recovery EXCEPT ![p].at = ReleasePlace(p)]
      /\ UNCHANGED <<anchor, anchorLock, published, disturbed, shared>>
  BY DEF ReadAnchorBack, GoOn
<1>2. /\ recovery'[p].at \in {"compare", "unlink"}
      /\ \A q \in Recoverers \ {p} : recovery'[q] = recovery[q]
  BY <1>1, ReleaseIsAPlace DEF RecoveryInv, RecoveryTypeOK
<1>3. RecoveryTypeOK'
  BY <1>1, ReleaseIsAPlace DEF RecoveryInv, RecoveryTypeOK, RecoveryPlaces
<1>4. HolderOwnsLock' /\ OwnerHasNotShared'
  BY <1>1, <1>2, MoveKeepsExclusion DEF Holding
<1>5. ExtendsPredecessor'
  BY <1>2 DEF RecoveryInv, ExtendsPredecessor
<1>6. ReplacesPredecessor'
  <2> SUFFICES ASSUME ~disturbed', NEW q \in Recoverers, recovery'[q].at = "replace" PROVE FALSE
    BY DEF ReplacesPredecessor
  <2>1. q # p /\ recovery[q].at = "replace"
    BY <1>2
  <2>2. anchorLock = p /\ anchorLock = q
    BY <1>1, <2>1 DEF RecoveryInv, HolderOwnsLock, Holding
  <2> QED BY <2>1, <2>2
<1>7. AdvancedHeadsAreKept'
  BY <1>1, LineageExtendsItself DEF RecoveryInv, RecoveryTypeOK, AdvancedHeadsAreKept
<1> QED BY <1>3, <1>4, <1>5, <1>6, <1>7 DEF RecoveryInv

LEMMA UnlinkKeeps ==
    ASSUME RecoveryInv, NEW p \in Recoverers, UnlinkLock(p)
    PROVE  RecoveryInv'
<1>1. /\ recovery[p].at = "unlink"
      /\ anchorLock' = NoRecoverer
      /\ recovery' = [recovery EXCEPT ![p] = NoRecovery]
      /\ UNCHANGED <<anchor, published, advanced, disturbed, shared>>
  BY DEF UnlinkLock, Finish
<1>2. /\ recovery'[p].at = "idle"
      /\ \A q \in Recoverers \ {p} : recovery'[q] = recovery[q]
  BY <1>1 DEF NoRecovery, RecoveryInv, RecoveryTypeOK
<1>3. RecoveryTypeOK'
  BY <1>1, NoRecoveryType DEF RecoveryInv, RecoveryTypeOK
<1>4. HolderOwnsLock'
  <2> SUFFICES ASSUME ~disturbed', NEW q \in Recoverers, Holding(q)' PROVE FALSE
    BY DEF HolderOwnsLock
  <2>1. q # p /\ Holding(q)
    BY <1>2 DEF Holding
  <2>2. anchorLock = p /\ anchorLock = q
    BY <1>1, <2>1 DEF RecoveryInv, HolderOwnsLock, Holding
  <2> QED BY <2>1, <2>2
<1>5. OwnerHasNotShared'
  BY <1>1, RecoveryAssumption DEF RecoveryInv, RecoveryTypeOK, OwnerHasNotShared
<1>6. ExtendsPredecessor' /\ ReplacesPredecessor' /\ AdvancedHeadsAreKept'
  BY <1>1, <1>2, MoveKeepsReplacement
<1> QED BY <1>3, <1>4, <1>5, <1>6 DEF RecoveryInv

LEMMA RemoveLockKeeps ==
    ASSUME RecoveryInv, RemoveLock
    PROVE  RecoveryInv'
<1>1. /\ anchorLock' = NoRecoverer
      /\ disturbed' = (disturbed \/ \E p \in Recoverers : Holding(p))
      /\ UNCHANGED <<anchor, recovery, published, advanced, shared>>
  BY DEF RemoveLock
<1>2. disturbed' \in BOOLEAN /\ (~disturbed' => ~disturbed /\ \A p \in Recoverers : ~Holding(p))
  BY <1>1
<1>3. RecoveryTypeOK' /\ OwnerHasNotShared'
  BY <1>1, <1>2, RecoveryAssumption DEF RecoveryInv, RecoveryTypeOK, OwnerHasNotShared
<1>4. HolderOwnsLock'
  BY <1>1, <1>2 DEF HolderOwnsLock, Holding
<1>5. ExtendsPredecessor' /\ ReplacesPredecessor' /\ AdvancedHeadsAreKept'
  BY <1>1, <1>2 DEF RecoveryInv, ExtendsPredecessor, ReplacesPredecessor, AdvancedHeadsAreKept
<1> QED BY <1>3, <1>4, <1>5 DEF RecoveryInv

LEMMA RecoveryKeepsInvariant ==
    ASSUME RecoveryInv, [RecoveryNext]_recoveryVars
    PROVE  RecoveryInv'
<1>1. CASE UNCHANGED recoveryVars
  BY <1>1 DEF recoveryVars, RecoveryInv, RecoveryTypeOK, ExtendsPredecessor, HolderOwnsLock, Holding,
     ReplacesPredecessor, AdvancedHeadsAreKept, OwnerHasNotShared
<1>2. ASSUME NEW p \in Recoverers, ReadPublishedBack(p)
      PROVE  RecoveryInv'
  BY <1>2, FinishKeeps DEF ReadPublishedBack, RecoveryInv, RecoveryTypeOK
<1>3. ASSUME NEW p \in Recoverers, CompareLock(p)
      PROVE  RecoveryInv'
  <2>1. Holding(p)
    BY <1>3 DEF CompareLock, Holding
  <2> QED BY <1>3, <2>1, FinishKeeps, GoOnKeeps DEF CompareLock, RecoveryInv, RecoveryTypeOK
<1>4. ASSUME NEW p \in Recoverers, CrashRecoverer(p)
      PROVE  RecoveryInv'
  BY <1>4, FinishKeeps DEF CrashRecoverer, RecoveryInv, RecoveryTypeOK
<1>5. ASSUME NEW p \in Recoverers, NEW lineage \in Lineages \ {NoAnchor}, PublishAnchor(p, lineage)
      PROVE  RecoveryInv'
  BY <1>5, PublishKeeps
<1> QED
  BY <1>1, <1>2, <1>3, <1>4, <1>5, VerifyKeeps, LockKeeps, RecheckKeeps, ReplaceKeeps, ReadBackKeeps,
     UnlinkKeeps, RemoveLockKeeps DEF RecoveryNext

\* The lock file names the process under it, unless the operator interferes.
THEOREM RecoveryInvariant == RecoverySpec => []RecoveryInv
<1> QED BY RecoveryStarts, RecoveryKeepsInvariant, PTL DEF RecoverySpec

(***************************************************************************)
(* A head that was advanced under either lock stays in the lineage of the  *)
(* anchor, for any number of processes, crashes and lineages.              *)
(***************************************************************************)
THEOREM LockedAdvancesAreKept == RecoverySpec => []AdvancedHeadsAreKept
<1>1. RecoveryInv => AdvancedHeadsAreKept
  BY DEF RecoveryInv
<1> QED BY <1>1, RecoveryInvariant, PTL

-----------------------------------------------------------------------------
\* If the lock file of another process is there while p runs under the lock,
\* it was created since p created its own.
ForeignLockIsNoted ==
    \A p \in Recoverers : Holding(p) => anchorLock \in {p, NoRecoverer} \/ p \in shared

\* Nobody else gets a lock by the step, and nobody gets under it.
Releases ==
    /\ anchorLock' \in {anchorLock, NoRecoverer} /\ shared' = shared
    /\ \A p \in Recoverers : Holding(p)' => Holding(p)

\* Every step is one but the creation of a lock file.
LEMMA RecoveryMoves ==
    ASSUME RecoveryInv, RecoveryNext
    PROVE  Releases \/ \E q \in Recoverers : ~LockExists /\ LockAnchor(q)
<1>1. RecoveryTypeOK
  BY DEF RecoveryInv
<1>2. CASE RemoveLock
  BY <1>2 DEF RemoveLock, Releases, Holding
<1>3. ASSUME NEW q \in Recoverers, NEW lineage \in Lineages, PublishAnchor(q, lineage)
      PROVE  Releases
  BY <1>1, <1>3 DEF RecoveryTypeOK, PublishAnchor, NoRecovery, Releases, Holding
<1>4. ASSUME NEW q \in Recoverers, NEW mode \in {"serialized", "owned"},
             NEW checkpoint \in Checkpoints, VerifySuccessor(q, mode, checkpoint)
      PROVE  Releases
  BY <1>1, <1>4 DEF RecoveryTypeOK, VerifySuccessor, Releases, Holding
<1>5. ASSUME NEW q \in Recoverers, ReadPublishedBack(q) \/ CrashRecoverer(q) \/ UnlinkLock(q)
      PROVE  Releases
  <2>1. recovery' = [recovery EXCEPT ![q] = NoRecovery]
    BY <1>5 DEF ReadPublishedBack, CrashRecoverer, UnlinkLock, Finish
  <2>2. \A p \in Recoverers : Holding(p)' => Holding(p)
    BY <1>1, <2>1 DEF RecoveryTypeOK, NoRecovery, Holding
  <2> QED BY <1>5, <2>2 DEF ReadPublishedBack, CrashRecoverer, UnlinkLock, Releases
<1>6. ASSUME NEW q \in Recoverers,
             \/ RecheckPredecessor(q) \/ ReplaceAnchor(q) \/ ReadAnchorBack(q) \/ CompareLock(q)
      PROVE  Releases
  <2>1. Holding(q) /\ anchorLock' = anchorLock /\ shared' = shared
    BY <1>6 DEF RecheckPredecessor, ReplaceAnchor, ReadAnchorBack, CompareLock, Holding
  <2>2. \E new : recovery' = [recovery EXCEPT ![q] = new]
    BY <1>6 DEF RecheckPredecessor, ReplaceAnchor, ReadAnchorBack, CompareLock, GoOn, Finish
  <2>3. \A p \in Recoverers : Holding(p)' => Holding(p)
    BY <1>1, <2>1, <2>2 DEF RecoveryTypeOK, Holding
  <2> QED BY <2>1, <2>3 DEF Releases
<1>7. ASSUME NEW q \in Recoverers, LockAnchor(q), LockExists
      PROVE  Releases
  <2>1. recovery' = [recovery EXCEPT ![q] = NoRecovery] /\ UNCHANGED <<anchorLock, shared>>
    BY <1>7 DEF LockAnchor, Finish
  <2> QED BY <1>1, <2>1 DEF RecoveryTypeOK, NoRecovery, Holding, Releases
<1> QED BY <1>2, <1>3, <1>4, <1>5, <1>6, <1>7 DEF RecoveryNext

LEMMA ForeignLocksStayNoted ==
    ASSUME RecoveryInv, ForeignLockIsNoted, [RecoveryNext]_recoveryVars
    PROVE  ForeignLockIsNoted'
<1>1. CASE UNCHANGED recoveryVars
  BY <1>1 DEF recoveryVars, ForeignLockIsNoted, Holding
<1>2. CASE Releases
  BY <1>2 DEF Releases, ForeignLockIsNoted
<1>3. ASSUME NEW q \in Recoverers, ~LockExists, LockAnchor(q)
      PROVE  ForeignLockIsNoted'
  <2>1. /\ anchorLock' = q
        /\ shared' = {p \in Recoverers \ {q} : Holding(p)} \cup (shared \ {q})
        /\ recovery' = [recovery EXCEPT ![q].at = "recheck"]
    BY <1>3 DEF LockAnchor, GoOn
  <2> SUFFICES ASSUME NEW p \in Recoverers, Holding(p)', p # q
               PROVE  p \in shared'
    BY <2>1 DEF ForeignLockIsNoted
  <2>2. recovery'[p] = recovery[p]
    BY <2>1 DEF RecoveryInv, RecoveryTypeOK
  <2>3. Holding(p)
    BY <2>2 DEF Holding
  <2> QED BY <2>1, <2>3
<1> QED BY <1>1, <1>2, <1>3, RecoveryMoves

\* The only step from the comparison to the unlink is the comparison itself.
LEMMA ReachesUnlink ==
    ASSUME RecoveryInv, RecoveryNext, NEW p \in Recoverers,
           recovery[p].at = "compare", recovery'[p].at = "unlink"
    PROVE  CompareLock(p)
<1> SUFFICES ASSUME ~CompareLock(p) PROVE FALSE
  OBVIOUS
<1>1. ASSUME NEW q \in Recoverers,
             \/ ReadPublishedBack(q) \/ LockAnchor(q) \/ RecheckPredecessor(q) \/ ReplaceAnchor(q)
             \/ ReadAnchorBack(q) \/ CompareLock(q) \/ UnlinkLock(q)
             \/ CrashRecoverer(q)
             \/ \E lineage \in Lineages \ {NoAnchor} : PublishAnchor(q, lineage)
             \/ \E mode \in {"serialized", "owned"}, checkpoint \in Checkpoints :
                   VerifySuccessor(q, mode, checkpoint)
      PROVE  recovery'[p] = recovery[p] \/ recovery'[p].at = "idle"
  <2>1. \E new : recovery' = [recovery EXCEPT ![q] = new]
    BY <1>1 DEF PublishAnchor, ReadPublishedBack, VerifySuccessor, LockAnchor,
       RecheckPredecessor, ReplaceAnchor, ReadAnchorBack, CompareLock, UnlinkLock, CrashRecoverer,
       GoOn, Finish
  <2>2. CASE q # p
    BY <2>1, <2>2 DEF RecoveryInv, RecoveryTypeOK
  <2>3. CASE q = p
    <3>1. CrashRecoverer(p)
      BY <1>1, <2>3 DEF PublishAnchor, ReadPublishedBack, VerifySuccessor, LockAnchor,
         RecheckPredecessor, ReplaceAnchor, ReadAnchorBack, UnlinkLock
    <3> QED BY <3>1 DEF CrashRecoverer, Finish, NoRecovery, RecoveryInv, RecoveryTypeOK
  <2> QED BY <2>2, <2>3
<1>2. RemoveLock => recovery' = recovery
  BY DEF RemoveLock
<1> QED BY <1>1, <1>2 DEF RecoveryNext

(***************************************************************************)
(* Up to its comparison an owned release has held its lock unbroken, even  *)
(* if operators remove lock files under running processes; and whatever    *)
(* lock of another process it unlinks was created between its comparison   *)
(* and its unlink.  That window is open: OnlyOwnLockIsRemoved is violated. *)
(***************************************************************************)
THEOREM OwnersHaveNotShared == RecoverySpec => OwnershipIsContinuous
<1>1. RecoveryInit => ForeignLockIsNoted
  BY DEF RecoveryInit, NoRecovery, ForeignLockIsNoted, Holding
<1>2. RecoverySpec => [](RecoveryInv /\ ForeignLockIsNoted)
  BY <1>1, RecoveryStarts, RecoveryKeepsInvariant, ForeignLocksStayNoted, PTL DEF RecoverySpec
<1>3. ASSUME RecoveryInv, ForeignLockIsNoted, [RecoveryNext]_recoveryVars
      PROVE  [\A p \in Recoverers : recovery[p].mode = "owned" =>
                 /\ recovery[p].at = "compare" /\ recovery'[p].at = "unlink" => p \notin shared
                 /\ UnlinksForeignLock(p) => p \in shared]_recoveryVars
  <2> SUFFICES ASSUME RecoveryNext, NEW p \in Recoverers
               PROVE  /\ recovery[p].at = "compare" /\ recovery'[p].at = "unlink" => p \notin shared
                      /\ UnlinksForeignLock(p) => p \in shared
    BY <1>3
  <2>1. ASSUME recovery[p].at = "compare", recovery'[p].at = "unlink"
        PROVE  p \notin shared
    <3>1. CompareLock(p)
      BY <1>3, <2>1, ReachesUnlink
    <3>2. OwnLock(p)
      BY <1>3, <2>1, <3>1 DEF CompareLock, Finish, NoRecovery, RecoveryInv, RecoveryTypeOK
    <3> QED BY <1>3, <3>2 DEF OwnLock, RecoveryInv, OwnerHasNotShared
  <2>2. UnlinksForeignLock(p) => p \in shared
    BY <1>3 DEF UnlinksForeignLock, ForeignLockIsNoted, Holding
  <2> QED BY <2>1, <2>2
<1> QED BY <1>2, <1>3, PTL DEF RecoverySpec, OwnershipIsContinuous

-----------------------------------------------------------------------------
(***************************************************************************)
(* The fenced resource for any number of callers, readers, mutations and   *)
(* generations.  A commit always has a generation above all that were      *)
(* committed, since its caller has compared it with the row under the      *)
(* write lock; so generations are not applied twice, and versions count    *)
(* commits.  A pair is read while nothing can be committed.                *)
(***************************************************************************)

Newer(counter) == ~Stale(fencing, counter) /\ ~Equal(fencing, counter)

ResourceRow(c) == [ version |-> VersionOf(resource) + 1, mutation |-> request[c].mutation,
                    counter |-> request[c].counter ]

\* What the committed rows say of the commits.
RowsOfCommits ==
    /\ IsFiniteSet(committed)
    /\ VersionOf(resource) <= VersionOf(fencing)
    /\ fencing # NoRow => fencing.version <= fencing.counter + 1
    /\ \A p \in committed : fencing # NoRow /\ p[1] <= fencing.counter
    /\ resource # NoRow => <<resource.counter, resource.mutation>> \in committed

\* Where a caller is, and what it has written in its transaction.
InTransaction == {"decide", "resource", "commit"}

Ordered(c) ==
    /\ request[c].at \in InTransaction => writing.caller = c
    /\ request[c].at \in InTransaction \cup {"begin"} => request[c].mutation \in Mutations
    /\ request[c].at = "write" => request[c].mutation = FenceOnly
    /\ request[c].at \in {"resource", "commit"} =>
          Newer(request[c].counter) /\ writing.fencing = Advanced(fencing, request[c].counter)
    /\ request[c].at = "commit" => writing.resource = ResourceRow(c)

CallersAreOrdered == \A c \in Callers : Ordered(c)

\* A reader in its transaction keeps the rows as they are.
PairsAreSnapshots ==
    \A r \in PairReaders :
        /\ pair[r].open => pair[r].fencing = fencing /\ ~pair[r].returned
        /\ pair[r].returned => /\ pair[r].fencing # NoRow /\ fencing # NoRow
                               /\ pair[r].fencing.counter <= fencing.counter

FencedInv ==
    /\ FencedTypeOK
    /\ RowsOfCommits
    /\ CallersAreOrdered
    /\ PairsAreSnapshots
    /\ GenerationAppliedOnce
    /\ RowsMoveTogether

-----------------------------------------------------------------------------
LEMMA VersionsCount ==
    ASSUME FencedInv
    PROVE  /\ VersionOf(fencing) \in Nat /\ VersionOf(resource) \in Nat
           /\ VersionOf(resource) <= VersionOf(fencing)
           /\ fencing # NoRow => /\ fencing.counter \in Counters
                                 /\ VersionOf(fencing) = fencing.version
BY FencedResourceAssumption DEF FencedInv, FencedTypeOK, RowsOfCommits, VersionOf, FencingRows, ResourceRows,
   RowVersions, Counters

\* The row of an accepted newer generation.
LEMMA AdvancedRow ==
    ASSUME FencedInv, NEW counter \in Counters, Newer(counter)
    PROVE  /\ Advanced(fencing, counter) \in FencingRows
           /\ VersionOf(fencing) + 1 <= counter + 1
           /\ \A p \in committed : p[1] < counter
<1>1. counter \in Nat /\ counter <= MaxCounter /\ MaxCounter \in Nat
  BY FencedResourceAssumption DEF Counters
<1>2. CASE fencing = NoRow
  <2>1. VersionOf(fencing) = 0
    BY <1>2 DEF VersionOf
  <2>2. 0 + 1 \in RowVersions
    BY <1>1 DEF RowVersions
  <2> QED BY <1>1, <1>2, <2>1, <2>2 DEF Advanced, FencingRows, FencedInv, RowsOfCommits
<1>3. CASE fencing # NoRow
  <2>1. fencing.counter \in Nat /\ VersionOf(fencing) = fencing.version /\ VersionOf(fencing) \in Nat
    BY <1>3, VersionsCount, FencedResourceAssumption DEF Counters
  <2>2. fencing.counter < counter
    BY <1>1, <1>3, <2>1 DEF Newer, Stale, Equal
  <2>3. VersionOf(fencing) + 1 <= counter + 1
    BY <1>1, <1>3, <2>1, <2>2 DEF FencedInv, RowsOfCommits
  <2>4. VersionOf(fencing) + 1 \in RowVersions
    BY <1>1, <2>1, <2>3 DEF RowVersions
  <2>5. \A p \in committed : p[1] \in Nat /\ p[1] <= fencing.counter
    BY FencedResourceAssumption DEF FencedInv, RowsOfCommits, FencedTypeOK, Counters
  <2>6. \A p \in committed : p[1] < counter
    BY <1>1, <2>1, <2>2, <2>5
  <2> QED BY <2>3, <2>4, <2>6 DEF Advanced, FencingRows
<1> QED BY <1>2, <1>3

LEMMA NewResourceRow ==
    ASSUME FencedInv, NEW c \in Callers, Newer(request[c].counter), request[c].mutation \in Mutations
    PROVE  ResourceRow(c) \in ResourceRows
<1>1. request[c].counter \in Counters
  BY DEF FencedInv, FencedTypeOK, CallRecords
<1>2. request[c].counter \in Nat /\ request[c].counter <= MaxCounter /\ MaxCounter \in Nat
  BY <1>1, FencedResourceAssumption DEF Counters
<1>3. VersionOf(resource) + 1 \in RowVersions
  <2>1. VersionOf(fencing) + 1 <= request[c].counter + 1
    BY <1>1, AdvancedRow
  <2> QED BY <1>2, <2>1, VersionsCount DEF RowVersions
<1> QED BY <1>1, <1>3 DEF ResourceRow, ResourceRows

-----------------------------------------------------------------------------
LEMMA FencedStarts == FencedInit => FencedInv
<1> SUFFICES ASSUME FencedInit PROVE FencedInv
  OBVIOUS
<1>1. 0 \in Counters
  BY FencedResourceAssumption DEF Counters
<1>2. FencedTypeOK
  BY <1>1 DEF FencedInit, FencedTypeOK, NoRequest, CallRecords, NoPair, PairRecords
<1>3. IsFiniteSet({}) /\ Cardinality({}) = 0 /\ Mutating = {}
  BY FS_EmptySet DEF FencedInit, Mutating
<1>4. RowsOfCommits
  BY <1>3 DEF FencedInit, RowsOfCommits, VersionOf
<1>5. CallersAreOrdered /\ PairsAreSnapshots /\ GenerationAppliedOnce
  BY DEF FencedInit, CallersAreOrdered, Ordered, InTransaction, PairsAreSnapshots, GenerationAppliedOnce, Accepted, NoRequest, NoPair
<1>6. RowsMoveTogether
  BY <1>3 DEF FencedInit, RowsMoveTogether, VersionOf, NoPair
<1> QED BY <1>2, <1>4, <1>5, <1>6 DEF FencedInv

-----------------------------------------------------------------------------
\* A commit: the rows, the versions and the pairs.
LEMMA CommitKeepsRows ==
    ASSUME FencedInv, NEW counter \in Counters, NEW mutation \in Mutations \cup {FenceOnly},
           Newer(counter), ~ReaderOpen,
           fencing' = Advanced(fencing, counter),
           resource' = IF mutation = FenceOnly THEN resource
                       ELSE [ version |-> VersionOf(resource) + 1, mutation |-> mutation, counter |-> counter ],
           committed' = committed \cup {<<counter, mutation>>},
           pair' = pair
    PROVE  RowsOfCommits' /\ PairsAreSnapshots' /\ RowsMoveTogether'
           /\ \A p, q \in committed' : p[1] = q[1] => p = q
<1> DEFINE new == <<counter, mutation>>
<1>1. /\ fencing' \in FencingRows /\ fencing'.counter = counter
      /\ fencing'.version = VersionOf(fencing) + 1
      /\ fencing' # NoRow
  BY AdvancedRow, NoRowAssumption DEF Advanced
<1>2. /\ new \notin committed
      /\ new[1] = counter /\ new[2] = mutation
      /\ committed' = committed \cup {new}
      /\ \A p \in committed : p[1] \in Nat /\ p[1] < counter
      /\ counter \in Nat
  <2>1. counter \in Nat /\ new[1] = counter /\ new[2] = mutation
    BY FencedResourceAssumption DEF Counters
  <2>2. \A p \in committed : p[1] \in Nat /\ p[1] < counter
    BY AdvancedRow, FencedResourceAssumption DEF FencedInv, FencedTypeOK, Counters
  <2> QED BY <2>1, <2>2
<1>3. IsFiniteSet(committed) /\ IsFiniteSet(Mutating) /\ Mutating \subseteq committed
  <2>1. IsFiniteSet(committed) /\ Mutating \in SUBSET committed
    BY DEF FencedInv, RowsOfCommits, Mutating
  <2> QED BY <2>1, FS_Subset
<1>4. /\ IsFiniteSet(committed')
      /\ Cardinality(committed') = Cardinality(committed) + 1
  <2>1. committed' = committed \cup {new} /\ new \notin committed /\ IsFiniteSet(committed)
    BY <1>2, <1>3
  <2> HIDE DEF new
  <2> QED BY <2>1, FS_AddElement
<1>5. Cardinality(committed) = VersionOf(fencing) /\ Cardinality(Mutating) = VersionOf(resource)
  BY DEF FencedInv, RowsMoveTogether
<1>6. VersionOf(fencing)' = VersionOf(fencing) + 1
  BY <1>1 DEF VersionOf
<1>7. /\ VersionOf(resource)' = Cardinality(Mutating')
      /\ VersionOf(resource)' <= VersionOf(resource) + 1
  <2>1. CASE mutation = FenceOnly
    <3>1. Mutating' = Mutating
      BY <1>2, <2>1 DEF Mutating
    <3> QED BY <2>1, <3>1, <1>5, VersionsCount DEF VersionOf
  <2>2. CASE mutation # FenceOnly
    <3>1. Mutating' = Mutating \cup {new} /\ new \notin Mutating
      BY <1>2, <2>2 DEF Mutating
    <3>2. Cardinality(Mutating') = VersionOf(resource) + 1
      BY <3>1, <1>3, <1>5, FS_AddElement
    <3>3. resource' \in ResourceRows
      <4>1. VersionOf(resource) + 1 \in RowVersions
        <5>1. VersionOf(fencing) + 1 <= counter + 1 /\ counter <= MaxCounter /\ MaxCounter \in Nat
          BY AdvancedRow, FencedResourceAssumption DEF Counters
        <5> QED BY <5>1, <1>2, VersionsCount DEF RowVersions
      <4> QED BY <4>1, <2>2 DEF ResourceRows
    <3>4. resource' # NoRow /\ resource'.version = VersionOf(resource) + 1
      BY <3>3, <2>2, NoRowAssumption
    <3> QED BY <3>2, <3>4, VersionsCount DEF VersionOf
  <2> QED BY <2>1, <2>2
<1>8. RowsOfCommits'
  <2>1. VersionOf(resource)' <= VersionOf(fencing)'
    <3>1. VersionOf(resource)' \in Nat
      <4>1. Mutating' \in SUBSET committed'
        BY DEF Mutating
      <4>2. IsFiniteSet(Mutating')
        BY <4>1, <1>4, FS_Subset
      <4> QED BY <4>2, <1>7, FS_CardinalityType
    <3>2. VersionOf(fencing) \in Nat /\ VersionOf(resource) \in Nat /\ VersionOf(resource) <= VersionOf(fencing)
      BY VersionsCount
    <3> QED BY <1>6, <1>7, <3>1, <3>2
  <2>2. fencing'.version <= fencing'.counter + 1
    BY <1>1, AdvancedRow
  <2>3. \A p \in committed' : fencing' # NoRow /\ p[1] <= fencing'.counter
    BY <1>1, <1>2
  <2>4. resource' # NoRow => <<resource'.counter, resource'.mutation>> \in committed'
    BY DEF FencedInv, RowsOfCommits
  <2> QED BY <1>4, <2>1, <2>2, <2>3, <2>4 DEF RowsOfCommits
<1>9. ASSUME NEW r \in PairReaders
      PROVE  /\ ~pair[r].open
             /\ pair[r].returned => pair[r].fencing # NoRow /\ pair[r].fencing.counter < counter
                                    /\ pair[r].fencing.counter \in Nat
  <2>1. ~pair[r].open
    BY DEF ReaderOpen
  <2>2. ASSUME pair[r].returned
        PROVE  /\ pair[r].fencing # NoRow /\ pair[r].fencing.counter < counter
               /\ pair[r].fencing.counter \in Nat
    <3>1. /\ pair[r].fencing \in FencingRows /\ fencing \in FencingRows
          /\ pair[r].fencing.counter <= fencing.counter
          /\ fencing # NoRow
      BY <2>2 DEF FencedInv, PairsAreSnapshots, FencedTypeOK, PairRecords
    <3>2. pair[r].fencing.counter \in Nat /\ fencing.counter \in Nat
      BY <3>1, FencedResourceAssumption DEF FencingRows, Counters
    <3>3. fencing.counter < counter
      BY <3>1, <3>2, <1>2 DEF Newer, Stale, Equal
    <3> QED BY <2>2, <3>1, <3>2, <3>3, <1>2 DEF FencedInv, PairsAreSnapshots
  <2> QED BY <2>1, <2>2
<1>10. PairsAreSnapshots'
  <2> SUFFICES ASSUME NEW r \in PairReaders, pair[r].returned
               PROVE  /\ pair[r].fencing # NoRow
                      /\ pair[r].fencing.counter <= fencing'.counter
    BY <1>1, <1>9 DEF PairsAreSnapshots
  <2> QED BY <1>1, <1>2, <1>9
<1>11. RowsMoveTogether'
  <2>1. VersionOf(fencing)' = Cardinality(committed')
    BY <1>4, <1>5, <1>6
  <2>2. Mutating \subseteq Mutating'
    BY DEF Mutating
  <2>3. ASSUME NEW r \in PairReaders, pair[r].returned
        PROVE  /\ <<pair[r].fencing.counter, pair[r].resource.mutation>> \in Mutating'
               /\ \A p \in committed' : p[1] <= pair[r].fencing.counter => p \in Mutating'
    <3>1. ~(new[1] <= pair[r].fencing.counter)
      BY <1>2, <1>9, <2>3
    <3>2. committed' = committed \cup {new}
      BY <1>2
    <3> HIDE DEF new
    <3>3. /\ <<pair[r].fencing.counter, pair[r].resource.mutation>> \in Mutating
          /\ \A p \in committed : p[1] <= pair[r].fencing.counter => p \in Mutating
      BY <2>3 DEF FencedInv, RowsMoveTogether
    <3> QED BY <2>2, <3>1, <3>2, <3>3
  <2> QED BY <1>7, <2>1, <2>3 DEF RowsMoveTogether
<1>12. \A p, q \in committed' : p[1] = q[1] => p = q
  <2>1. committed' = committed \cup {new} /\ \A p \in committed : p[1] # new[1]
    BY <1>2
  <2> HIDE DEF new
  <2> QED BY <2>1 DEF FencedInv, GenerationAppliedOnce
<1> QED BY <1>8, <1>10, <1>11, <1>12

\* A step that leaves the rows and the pairs alone.
LEMMA QuietStep ==
    ASSUME FencedInv, UNCHANGED <<fencing, resource, committed, pair>>
    PROVE  RowsOfCommits' /\ PairsAreSnapshots' /\ RowsMoveTogether'
           /\ \A p, q \in committed' : p[1] = q[1] => p = q
BY DEF FencedInv, RowsOfCommits, PairsAreSnapshots, RowsMoveTogether, GenerationAppliedOnce,
   VersionOf, Mutating

-----------------------------------------------------------------------------
WritingRecords == [ caller : Callers \cup {NoCaller}, fencing : FencingRows \cup {NoRow},
                    resource : ResourceRows \cup {NoRow} ]

AcceptedWereApplied ==
    \A c \in Callers : Accepted(c) /\ request[c].mutation # FenceOnly
                       => <<request[c].counter, request[c].mutation>> \in committed

\* A step of one caller does not disturb the others: it leaves the database
\* alone, or nobody else is in a transaction.
LEMMA CallerStep ==
    ASSUME FencedInv, NEW c \in Callers, NEW new \in CallRecords,
           request' = [request EXCEPT ![c] = new],
           fencing' \in FencingRows \cup {NoRow},
           resource' \in ResourceRows \cup {NoRow},
           writing' \in WritingRecords,
           pair' = pair,
           committed' \subseteq Counters \X (Mutations \cup {FenceOnly}),
           committed \subseteq committed',
           \/ /\ UNCHANGED <<fencing, resource, writing>>
              /\ request[c].at \notin InTransaction /\ new.at \notin InTransaction
           \/ /\ writing.caller \in {c, NoCaller}
              /\ writing'.caller = IF new.at \in InTransaction THEN c ELSE NoCaller,
           Ordered(c)',
           new.at = "answered" /\ new.outcome \in {"idempotent", "applied"} /\ new.mutation # FenceOnly
              => <<new.counter, new.mutation>> \in committed'
    PROVE  FencedTypeOK' /\ CallersAreOrdered' /\ AcceptedWereApplied'
<1>1. request \in [Callers -> CallRecords] /\ request' \in [Callers -> CallRecords] /\ request'[c] = new
  BY DEF FencedInv, FencedTypeOK
<1>2. \A d \in Callers : d # c => request'[d] = request[d]
  BY <1>1
<1>3. c # NoCaller
  BY FencedResourceAssumption
<1>4. ASSUME NEW d \in Callers, d # c PROVE Ordered(d)'
  <2>1. CASE UNCHANGED <<fencing, resource, writing>>
    BY <1>2, <1>4, <2>1 DEF FencedInv, CallersAreOrdered, Ordered, Newer, Stale, Equal, Advanced,
       VersionOf, ResourceRow
  <2>2. CASE writing.caller \in {c, NoCaller}
    <3>1. request[d].at \notin InTransaction
      BY <1>4, <2>2, FencedResourceAssumption DEF FencedInv, CallersAreOrdered, Ordered
    <3> QED BY <1>2, <1>4, <3>1 DEF FencedInv, CallersAreOrdered, Ordered, InTransaction
  <2> QED BY <2>1, <2>2
<1>5. CallersAreOrdered'
  BY <1>4 DEF CallersAreOrdered
<1>6. writing'.caller = NoCaller <=> \A d \in Callers : request'[d].at \notin InTransaction
  <2>1. CASE UNCHANGED writing /\ request[c].at \notin InTransaction /\ new.at \notin InTransaction
    BY <1>1, <1>2, <2>1 DEF FencedInv, FencedTypeOK, InTransaction
  <2>2. CASE /\ writing.caller \in {c, NoCaller}
             /\ writing'.caller = IF new.at \in InTransaction THEN c ELSE NoCaller
    <3>1. \A d \in Callers : d # c => request[d].at \notin InTransaction
      BY <2>2, FencedResourceAssumption DEF FencedInv, CallersAreOrdered, Ordered
    <3> QED BY <1>1, <1>2, <1>3, <2>2, <3>1
  <2> QED BY <2>1, <2>2
<1>7. FencedTypeOK'
  BY <1>1, <1>6 DEF FencedInv, FencedTypeOK, WritingRecords, InTransaction
<1>8. AcceptedWereApplied'
  <2> SUFFICES ASSUME NEW d \in Callers, Accepted(d)', request'[d].mutation # FenceOnly
               PROVE  <<request'[d].counter, request'[d].mutation>> \in committed'
    BY DEF AcceptedWereApplied
  <2>1. CASE d = c
    BY <1>1, <2>1 DEF Accepted
  <2>2. CASE d # c
    BY <1>2, <2>2 DEF Accepted, FencedInv, GenerationAppliedOnce
  <2> QED BY <2>1, <2>2
<1> QED BY <1>5, <1>7, <1>8

\* The record of a caller that moves, that answers and that gives up.
LEMMA CallerGoes ==
    ASSUME FencedInv, NEW c \in Callers,
           NEW place \in {"idle", "begin", "decide", "resource", "commit", "write", "answered"}, Go(c, place)
    PROVE  \E new \in CallRecords :
              /\ request' = [request EXCEPT ![c] = new]
              /\ new.at = place /\ new.counter = request[c].counter /\ new.mutation = request[c].mutation
<1>1. request[c] \in CallRecords
  BY DEF FencedInv, FencedTypeOK
<1>2. [request[c] EXCEPT !.at = place] \in CallRecords
  BY <1>1 DEF CallRecords
<1>3. /\ [request[c] EXCEPT !.at = place].at = place
      /\ [request[c] EXCEPT !.at = place].counter = request[c].counter
      /\ [request[c] EXCEPT !.at = place].mutation = request[c].mutation
  BY <1>1 DEF CallRecords
<1>4. request' = [request EXCEPT ![c] = [request[c] EXCEPT !.at = place]]
  BY DEF Go
<1> QED BY <1>2, <1>3, <1>4

LEMMA CallerAnswers ==
    ASSUME FencedInv, NEW c \in Callers,
           NEW outcome \in {"stale", "idempotent", "reused", "conflict", "applied"}, Conclude(c, outcome)
    PROVE  \E new \in CallRecords :
              /\ request' = [request EXCEPT ![c] = new]
              /\ new.at = "answered" /\ new.outcome = outcome
              /\ new.counter = request[c].counter /\ new.mutation = request[c].mutation
<1> DEFINE ends == [request[c] EXCEPT !.at = "answered", !.outcome = outcome]
<1>1. request[c] \in CallRecords
  BY DEF FencedInv, FencedTypeOK
<1>2. ends \in CallRecords
  BY <1>1 DEF CallRecords
<1>3. /\ ends.at = "answered" /\ ends.outcome = outcome
      /\ ends.counter = request[c].counter /\ ends.mutation = request[c].mutation
  BY <1>1 DEF CallRecords
<1>4. request' = [request EXCEPT ![c] = ends]
  BY DEF Conclude
<1> HIDE DEF ends
<1> QED BY <1>2, <1>3, <1>4

LEMMA CallerEnds == NoRequest \in CallRecords /\ NoRequest.at = "idle"
<1>1. 0 \in Counters
  BY FencedResourceAssumption DEF Counters
<1> QED BY <1>1 DEF NoRequest, CallRecords

\* Ending a transaction.
LEMMA WritingEnds == EndWriting => writing' \in WritingRecords /\ writing'.caller = NoCaller
BY DEF EndWriting, WritingRecords

\* The facts of the type invariant that the steps of a caller use.
LEMMA CallerTypes ==
    ASSUME FencedInv, NEW c \in Callers
    PROVE  /\ request[c] \in CallRecords /\ request[c].counter \in Counters
           /\ fencing \in FencingRows \cup {NoRow} /\ resource \in ResourceRows \cup {NoRow}
           /\ writing \in WritingRecords
           /\ committed \subseteq Counters \X (Mutations \cup {FenceOnly})
           /\ Ordered(c)
BY DEF FencedInv, FencedTypeOK, WritingRecords, CallRecords, CallersAreOrdered

LEMMA InvariantOfParts ==
    ASSUME FencedTypeOK', CallersAreOrdered', AcceptedWereApplied',
           RowsOfCommits', PairsAreSnapshots', RowsMoveTogether',
           \A p, q \in committed' : p[1] = q[1] => p = q
    PROVE  FencedInv'
BY DEF FencedInv, GenerationAppliedOnce, AcceptedWereApplied

-----------------------------------------------------------------------------
LEMMA RequestKeeps ==
    ASSUME FencedInv, NEW c \in Callers, NEW counter \in Counters, NEW mutation \in Mutations,
           Request(c, counter, mutation)
    PROVE  FencedInv'
<1> DEFINE new == [ at |-> "begin", counter |-> counter, mutation |-> mutation, expected |-> 0,
                    outcome |-> "none" ]
<1>1. new \in CallRecords /\ new.at = "begin" /\ new.mutation = mutation
  BY DEF CallRecords
<1>2. /\ request' = [request EXCEPT ![c] = new]
      /\ UNCHANGED <<fencing, resource, writing, pair, committed>>
      /\ request[c].at \notin InTransaction
  BY DEF Request, InTransaction
<1> HIDE DEF new
<1>3. request'[c] = new
  BY <1>2 DEF FencedInv, FencedTypeOK
<1>4. Ordered(c)'
  BY <1>1, <1>3 DEF Ordered, InTransaction
<1>5. FencedTypeOK' /\ CallersAreOrdered' /\ AcceptedWereApplied'
  BY <1>1, <1>2, <1>4, CallerTypes, CallerStep DEF InTransaction
<1> QED BY <1>2, <1>5, QuietStep, InvariantOfParts

LEMMA SnapshotVersionKeeps ==
    ASSUME FencedInv, NEW c \in Callers, NEW counter \in Counters, SnapshotVersion(c, counter)
    PROVE  FencedInv'
<1> DEFINE new == [ at |-> "write", counter |-> counter, mutation |-> FenceOnly,
                    expected |-> VersionOf(fencing), outcome |-> "none" ]
<1>1. VersionOf(fencing) \in RowVersions \cup {0}
  BY CallerTypes DEF VersionOf, FencingRows
<1>2. new \in CallRecords /\ new.at = "write" /\ new.mutation = FenceOnly
  BY <1>1 DEF CallRecords
<1>3. /\ request' = [request EXCEPT ![c] = new]
      /\ UNCHANGED <<fencing, resource, writing, pair, committed>>
      /\ request[c].at \notin InTransaction
  BY DEF SnapshotVersion, InTransaction
<1> HIDE DEF new
<1>4. request'[c] = new
  BY <1>3 DEF FencedInv, FencedTypeOK
<1>5. Ordered(c)'
  BY <1>2, <1>4 DEF Ordered, InTransaction
<1>6. FencedTypeOK' /\ CallersAreOrdered' /\ AcceptedWereApplied'
  BY <1>2, <1>3, <1>5, CallerTypes, CallerStep DEF InTransaction
<1> QED BY <1>3, <1>6, QuietStep, InvariantOfParts

\* A caller that gives up, with its transaction undone if it has one.
LEMMA EndCallKeeps ==
    ASSUME FencedInv, NEW c \in Callers, EndCall(c),
           UNCHANGED <<fencing, resource, pair, committed>>,
           \/ writing' = writing /\ request[c].at \notin InTransaction
           \/ writing.caller = c /\ EndWriting
    PROVE  FencedInv'
<1>1. request' = [request EXCEPT ![c] = NoRequest] /\ NoRequest \in CallRecords /\ NoRequest.at = "idle"
  BY CallerEnds DEF EndCall
<1>2. request'[c] = NoRequest
  BY <1>1 DEF FencedInv, FencedTypeOK
<1>3. Ordered(c)'
  BY <1>1, <1>2 DEF Ordered, InTransaction
<1>4. writing' \in WritingRecords
  BY CallerTypes, WritingEnds
<1>5. FencedTypeOK' /\ CallersAreOrdered' /\ AcceptedWereApplied'
  BY <1>1, <1>3, <1>4, CallerTypes, CallerStep, WritingEnds DEF InTransaction
<1> QED BY <1>5, QuietStep, InvariantOfParts

LEMMA BeginKeeps ==
    ASSUME FencedInv, NEW c \in Callers, Begin(c)
    PROVE  FencedInv'
<1>1. request[c].at = "begin" /\ UNCHANGED <<fencing, resource, pair, committed>>
  BY DEF Begin
<1>2. CASE /\ Free
           /\ writing' = [caller |-> c, fencing |-> fencing, resource |-> resource]
           /\ Go(c, "decide")
  <2>1. PICK new \in CallRecords :
              /\ request' = [request EXCEPT ![c] = new]
              /\ new.at = "decide" /\ new.counter = request[c].counter /\ new.mutation = request[c].mutation
    BY <1>2, CallerGoes
  <2>2. request'[c] = new
    BY <2>1 DEF FencedInv, FencedTypeOK
  <2>3. writing' \in WritingRecords /\ writing'.caller = c /\ writing.caller = NoCaller
    BY <1>2, CallerTypes DEF WritingRecords, Free
  <2>4. Ordered(c)'
    BY <1>1, <2>1, <2>2, <2>3, CallerTypes DEF Ordered, InTransaction
  <2>5. FencedTypeOK' /\ CallersAreOrdered' /\ AcceptedWereApplied'
    BY <1>1, <2>1, <2>3, <2>4, CallerTypes, CallerStep DEF InTransaction
  <2> QED BY <1>1, <2>5, QuietStep, InvariantOfParts
<1>3. CASE ~Free /\ EndCall(c) /\ UNCHANGED writing
  <2>1. request[c].at \notin InTransaction
    BY <1>1 DEF InTransaction
  <2> QED BY <1>1, <1>3, <2>1, EndCallKeeps
<1> QED BY <1>2, <1>3 DEF Begin

LEMMA TerminatedKeeps ==
    ASSUME FencedInv, NEW c \in Callers, Terminated(c)
    PROVE  FencedInv'
<1>1. EndCall(c) /\ UNCHANGED <<fencing, resource, pair, committed>>
  BY DEF Terminated
<1>2. CASE writing.caller = c /\ EndWriting
  BY <1>1, <1>2, EndCallKeeps
<1>3. CASE writing.caller # c /\ UNCHANGED writing
  <2>1. request[c].at \notin InTransaction
    BY <1>3, CallerTypes DEF Ordered
  <2> QED BY <1>1, <1>3, <2>1, EndCallKeeps
<1> QED BY <1>2, <1>3 DEF Terminated

-----------------------------------------------------------------------------
\* An answer that leaves the rows alone, in or out of a transaction.
LEMMA AnswerKeeps ==
    ASSUME FencedInv, NEW c \in Callers,
           NEW outcome \in {"stale", "idempotent", "reused", "conflict"}, Conclude(c, outcome),
           UNCHANGED <<fencing, resource, pair, committed>>,
           \/ writing' = writing /\ request[c].at \notin InTransaction
           \/ writing.caller = c /\ EndWriting,
           outcome = "idempotent" /\ request[c].mutation # FenceOnly
              => <<request[c].counter, request[c].mutation>> \in committed
    PROVE  FencedInv'
<1>1. PICK new \in CallRecords :
          /\ request' = [request EXCEPT ![c] = new]
          /\ new.at = "answered" /\ new.outcome = outcome
          /\ new.counter = request[c].counter /\ new.mutation = request[c].mutation
  BY CallerAnswers
<1>2. request'[c] = new
  BY <1>1 DEF FencedInv, FencedTypeOK
<1>3. Ordered(c)'
  BY <1>1, <1>2 DEF Ordered, InTransaction
<1>4. writing' \in WritingRecords
  BY CallerTypes, WritingEnds
<1>5. new.at \notin InTransaction
  BY <1>1 DEF InTransaction
<1>6. FencedTypeOK' /\ CallersAreOrdered' /\ AcceptedWereApplied'
  BY <1>1, <1>3, <1>4, <1>5, CallerTypes, CallerStep, WritingEnds
<1> QED BY <1>6, QuietStep, InvariantOfParts

LEMMA DecideKeeps ==
    ASSUME FencedInv, NEW c \in Callers, Decide(c)
    PROVE  FencedInv'
<1> DEFINE counter == request[c].counter
<1>1. /\ request[c].at = "decide" /\ UNCHANGED <<fencing, resource, pair, committed>>
      /\ writing.caller = c
  BY CallerTypes DEF Decide, Ordered, InTransaction
<1>2. CASE Conclude(c, "stale") /\ EndWriting
  BY <1>1, <1>2, AnswerKeeps
<1>3. CASE Conclude(c, IF Replays(c) THEN "idempotent" ELSE "reused") /\ EndWriting
  <2>1. CASE Replays(c)
    <3>1. <<request[c].counter, request[c].mutation>> \in committed
      BY <2>1 DEF Replays, FencedInv, RowsOfCommits
    <3> QED BY <1>1, <1>3, <2>1, <3>1, AnswerKeeps
  <2>2. CASE ~Replays(c)
    BY <1>1, <1>3, <2>2, AnswerKeeps
  <2> QED BY <2>1, <2>2
<1>4. CASE /\ ~Stale(fencing, counter) /\ ~Equal(fencing, counter)
           /\ writing' = [writing EXCEPT !.fencing = Advanced(fencing, counter)]
           /\ Go(c, "resource")
  <2>1. PICK new \in CallRecords :
              /\ request' = [request EXCEPT ![c] = new]
              /\ new.at = "resource" /\ new.counter = counter /\ new.mutation = request[c].mutation
    BY <1>4, CallerGoes
  <2>2. request'[c] = new
    BY <2>1 DEF FencedInv, FencedTypeOK
  <2>3. Newer(counter) /\ Advanced(fencing, counter) \in FencingRows
    BY <1>4, CallerTypes, AdvancedRow DEF Newer
  <2>4. writing' \in WritingRecords /\ writing'.caller = c /\ writing'.fencing = Advanced(fencing, counter)
    BY <1>1, <1>4, <2>3, CallerTypes DEF WritingRecords
  <2>5. Newer(request[c].counter)' /\ writing'.fencing = Advanced(fencing, request[c].counter)'
    BY <1>1, <2>1, <2>2, <2>3, <2>4 DEF Newer, Stale, Equal, Advanced, VersionOf
  <2>6. Ordered(c)'
    BY <1>1, <2>1, <2>2, <2>4, <2>5, CallerTypes DEF Ordered, InTransaction
  <2>7. FencedTypeOK' /\ CallersAreOrdered' /\ AcceptedWereApplied'
    BY <1>1, <2>1, <2>4, <2>6, CallerTypes, CallerStep DEF InTransaction
  <2> QED BY <1>1, <2>7, QuietStep, InvariantOfParts
<1> QED BY <1>2, <1>3, <1>4 DEF Decide

LEMMA WriteResourceKeeps ==
    ASSUME FencedInv, NEW c \in Callers, WriteResource(c)
    PROVE  FencedInv'
<1>1. /\ request[c].at = "resource" /\ UNCHANGED <<fencing, resource, pair, committed>>
      /\ writing' = [writing EXCEPT !.resource = ResourceRow(c)] /\ Go(c, "commit")
  BY DEF WriteResource, ResourceRow
<1>2. /\ writing.caller = c /\ request[c].mutation \in Mutations /\ Newer(request[c].counter)
      /\ writing.fencing = Advanced(fencing, request[c].counter)
  BY <1>1, CallerTypes DEF Ordered, InTransaction
<1>3. PICK new \in CallRecords :
          /\ request' = [request EXCEPT ![c] = new]
          /\ new.at = "commit" /\ new.counter = request[c].counter /\ new.mutation = request[c].mutation
  BY <1>1, CallerGoes
<1>4. request'[c] = new
  BY <1>3 DEF FencedInv, FencedTypeOK
<1>5. /\ writing' \in WritingRecords /\ writing'.caller = c
      /\ writing'.fencing = writing.fencing /\ writing'.resource = ResourceRow(c)
  BY <1>1, <1>2, CallerTypes, NewResourceRow DEF WritingRecords
<1>6. ResourceRow(c)' = ResourceRow(c)
  BY <1>1, <1>3, <1>4 DEF ResourceRow, VersionOf
<1>7. Newer(request[c].counter)' /\ writing'.fencing = Advanced(fencing, request[c].counter)'
  BY <1>1, <1>2, <1>3, <1>4, <1>5 DEF Newer, Stale, Equal, Advanced, VersionOf
<1>8. Ordered(c)'
  BY <1>2, <1>3, <1>4, <1>5, <1>6, <1>7 DEF Ordered, InTransaction
<1>9. FencedTypeOK' /\ CallersAreOrdered' /\ AcceptedWereApplied'
  BY <1>1, <1>2, <1>3, <1>5, <1>8, CallerTypes, CallerStep DEF InTransaction
<1> QED BY <1>1, <1>9, QuietStep, InvariantOfParts

\* An answer of a commit, of both rows or of the fence alone.
LEMMA AppliedKeeps ==
    ASSUME FencedInv, NEW c \in Callers, Conclude(c, "applied"), ~ReaderOpen,
           Newer(request[c].counter),
           fencing' = Advanced(fencing, request[c].counter),
           \/ request[c].mutation \in Mutations /\ resource' = ResourceRow(c)
           \/ request[c].mutation = FenceOnly /\ resource' = resource,
           committed' = committed \cup {<<request[c].counter, request[c].mutation>>},
           pair' = pair,
           writing.caller \in {c, NoCaller},
           writing' \in WritingRecords /\ writing'.caller = NoCaller
    PROVE  FencedInv'
<1>1. PICK new \in CallRecords :
          /\ request' = [request EXCEPT ![c] = new]
          /\ new.at = "answered"
          /\ new.counter = request[c].counter /\ new.mutation = request[c].mutation
  BY CallerAnswers
<1>2. request'[c] = new
  BY <1>1 DEF FencedInv, FencedTypeOK
<1>3. Ordered(c)'
  BY <1>1, <1>2 DEF Ordered, InTransaction
<1>4. request[c].counter \in Counters /\ request[c].mutation \in Mutations \cup {FenceOnly}
  BY CallerTypes DEF CallRecords
<1>5. RowsOfCommits' /\ PairsAreSnapshots' /\ RowsMoveTogether'
      /\ \A p, q \in committed' : p[1] = q[1] => p = q
  <2>1. resource' = IF request[c].mutation = FenceOnly THEN resource
                    ELSE [ version |-> VersionOf(resource) + 1, mutation |-> request[c].mutation,
                           counter |-> request[c].counter ]
    BY FencedResourceAssumption DEF ResourceRow
  <2> QED BY <1>4, <2>1, CommitKeepsRows
<1>6. /\ fencing' \in FencingRows \cup {NoRow} /\ resource' \in ResourceRows \cup {NoRow}
      /\ committed' \subseteq Counters \X (Mutations \cup {FenceOnly})
  BY <1>4, CallerTypes, AdvancedRow, NewResourceRow
<1>7. new.at \notin InTransaction /\ <<new.counter, new.mutation>> \in committed'
  BY <1>1 DEF InTransaction
<1>8. FencedTypeOK' /\ CallersAreOrdered' /\ AcceptedWereApplied'
  BY <1>1, <1>3, <1>6, <1>7, CallerStep
<1> QED BY <1>5, <1>8, InvariantOfParts

LEMMA CommitKeeps ==
    ASSUME FencedInv, NEW c \in Callers, Commit(c)
    PROVE  FencedInv'
<1>1. request[c].at = "commit" /\ EndWriting /\ pair' = pair
  BY DEF Commit
<1>2. /\ writing.caller = c /\ request[c].mutation \in Mutations /\ Newer(request[c].counter)
      /\ writing.fencing = Advanced(fencing, request[c].counter) /\ writing.resource = ResourceRow(c)
  BY <1>1, CallerTypes DEF Ordered, InTransaction
<1>3. CASE /\ ~ReaderOpen
           /\ fencing' = writing.fencing
           /\ resource' = writing.resource
           /\ committed' = committed \cup {<<request[c].counter, request[c].mutation>>}
           /\ Conclude(c, "applied")
  BY <1>1, <1>2, <1>3, WritingEnds, AppliedKeeps
<1>4. CASE ReaderOpen /\ EndCall(c) /\ UNCHANGED <<fencing, resource, committed>>
  BY <1>1, <1>2, <1>4, EndCallKeeps
<1> QED BY <1>3, <1>4 DEF Commit

LEMMA ConditionalWriteKeeps ==
    ASSUME FencedInv, NEW c \in Callers, ConditionalWrite(c)
    PROVE  FencedInv'
<1> DEFINE counter == request[c].counter
<1>1. /\ request[c].at = "write" /\ UNCHANGED <<resource, writing, pair>>
      /\ request[c].at \notin InTransaction /\ request[c].mutation = FenceOnly
  BY CallerTypes DEF ConditionalWrite, Ordered, InTransaction
<1>2. CASE /\ UNCHANGED <<fencing, committed>>
           /\ Conclude(c, "stale") \/ Conclude(c, "idempotent") \/ Conclude(c, "conflict")
  BY <1>1, <1>2, AnswerKeeps
<1>3. CASE /\ Free /\ ~Stale(fencing, counter) /\ ~Equal(fencing, counter) /\ ~ReaderOpen
           /\ fencing' = Advanced(fencing, counter)
           /\ committed' = committed \cup {<<counter, FenceOnly>>}
           /\ Conclude(c, "applied")
  BY <1>1, <1>3, CallerTypes, AppliedKeeps DEF Newer, Free
<1>4. CASE EndCall(c) /\ UNCHANGED <<fencing, committed>>
  BY <1>1, <1>4, EndCallKeeps
<1> QED BY <1>2, <1>3, <1>4 DEF ConditionalWrite

-----------------------------------------------------------------------------
\* The steps of a reader: what its pair must be.
LEMMA ReaderStep ==
    ASSUME FencedInv, NEW r \in PairReaders, NEW new \in PairRecords,
           pair' = [pair EXCEPT ![r] = new],
           UNCHANGED <<fencing, resource, writing, request, committed>>,
           new.open => new.fencing = fencing /\ ~new.returned,
           new.returned =>
              /\ new.fencing # NoRow /\ fencing # NoRow /\ new.fencing.counter <= fencing.counter
              /\ <<new.fencing.counter, new.resource.mutation>> \in Mutating
              /\ \A p \in committed : p[1] <= new.fencing.counter => p \in Mutating
    PROVE  FencedInv'
<1>1. pair \in [PairReaders -> PairRecords] /\ pair' \in [PairReaders -> PairRecords]
  BY DEF FencedInv, FencedTypeOK
<1>2. pair'[r] = new /\ \A o \in PairReaders : o # r => pair'[o] = pair[o]
  BY <1>1
<1>3. FencedTypeOK' /\ CallersAreOrdered' /\ AcceptedWereApplied'
  <2>1. FencedTypeOK'
    BY <1>1 DEF FencedInv, FencedTypeOK
  <2> QED BY <2>1 DEF FencedInv, CallersAreOrdered, Ordered, Newer, Stale, Equal, Advanced, VersionOf,
              ResourceRow, AcceptedWereApplied, GenerationAppliedOnce, Accepted
<1>4. RowsOfCommits' /\ \A p, q \in committed' : p[1] = q[1] => p = q
  BY DEF FencedInv, RowsOfCommits, GenerationAppliedOnce, VersionOf
<1>5. PairsAreSnapshots'
  BY <1>1, <1>2 DEF FencedInv, PairsAreSnapshots
<1>6. Mutating' = Mutating
  BY DEF Mutating
<1>7. RowsMoveTogether'
  <2>1. VersionOf(fencing)' = Cardinality(committed') /\ VersionOf(resource)' = Cardinality(Mutating')
    BY <1>6 DEF FencedInv, RowsMoveTogether, VersionOf
  <2>2. ASSUME NEW o \in PairReaders, pair'[o].returned
        PROVE  /\ <<pair'[o].fencing.counter, pair'[o].resource.mutation>> \in Mutating'
               /\ \A p \in committed' : p[1] <= pair'[o].fencing.counter => p \in Mutating'
    BY <1>2, <1>6, <2>2 DEF FencedInv, RowsMoveTogether
  <2> QED BY <2>1, <2>2 DEF RowsMoveTogether
<1> QED BY <1>3, <1>4, <1>5, <1>7, InvariantOfParts

LEMMA OpenPairKeeps ==
    ASSUME FencedInv, NEW r \in PairReaders, OpenPair(r)
    PROVE  FencedInv'
<1> DEFINE new == [open |-> TRUE, fencing |-> fencing, resource |-> NoRow, returned |-> FALSE]
<1>1. new \in PairRecords /\ new.fencing = fencing /\ ~new.returned
  BY DEF FencedInv, FencedTypeOK, PairRecords
<1>2. pair' = [pair EXCEPT ![r] = new] /\ UNCHANGED <<fencing, resource, writing, request, committed>>
  BY DEF OpenPair
<1> HIDE DEF new
<1> QED BY <1>1, <1>2, ReaderStep

\* Equal versions: as many commits wrote one row as the other, so each wrote both.
LEMMA ReturnPairKeeps ==
    ASSUME FencedInv, NEW r \in PairReaders, ReturnPair(r)
    PROVE  FencedInv'
<1>1. /\ pair[r].open /\ pair[r].fencing = fencing /\ pair[r] \in PairRecords
      /\ UNCHANGED <<fencing, resource, writing, request, committed>>
  BY DEF ReturnPair, FencedInv, PairsAreSnapshots, FencedTypeOK
<1>2. CASE PairAgrees(fencing, resource)
  <2> DEFINE new == [open |-> FALSE, fencing |-> fencing, resource |-> resource, returned |-> TRUE]
  <2>1. new \in PairRecords /\ ~new.open /\ new.fencing = fencing /\ new.resource = resource
    BY <1>1 DEF FencedInv, FencedTypeOK, PairRecords
  <2>2. pair' = [pair EXCEPT ![r] = new]
    BY <1>1, <1>2 DEF ReturnPair
  <2>3. /\ fencing # NoRow /\ resource # NoRow
        /\ fencing.counter = resource.counter /\ VersionOf(fencing) = VersionOf(resource)
    BY <1>2 DEF PairAgrees, VersionOf
  <2>4. Mutating = committed
    <3>1. IsFiniteSet(committed) /\ Mutating \in SUBSET committed
      BY DEF FencedInv, RowsOfCommits, Mutating
    <3>2. Cardinality(Mutating) = Cardinality(committed)
      BY <2>3 DEF FencedInv, RowsMoveTogether
    <3> QED BY <3>1, <3>2, FS_Subset
  <2>5. <<fencing.counter, resource.mutation>> \in Mutating
    BY <2>3, <2>4 DEF FencedInv, RowsOfCommits
  <2>6. fencing.counter <= fencing.counter
    <3>1. fencing.counter \in Nat
      BY <2>3, VersionsCount, FencedResourceAssumption DEF Counters
    <3> QED BY <3>1
  <2> HIDE DEF new
  <2> QED BY <1>1, <2>1, <2>2, <2>3, <2>4, <2>5, <2>6, ReaderStep
<1>3. CASE ~PairAgrees(fencing, resource)
  <2>1. pair' = [pair EXCEPT ![r] = NoPair]
    BY <1>1, <1>3 DEF ReturnPair
  <2>2. NoPair \in PairRecords /\ ~NoPair.open /\ ~NoPair.returned
    BY DEF NoPair, PairRecords
  <2> QED BY <1>1, <2>1, <2>2, ReaderStep
<1> QED BY <1>2, <1>3

-----------------------------------------------------------------------------
\* Every step of the resource keeps its invariant.
LEMMA FencedStep == FencedInv /\ [FencedNext]_fencedVars => FencedInv'
<1> SUFFICES ASSUME FencedInv, [FencedNext]_fencedVars PROVE FencedInv'
  OBVIOUS
<1>1. ASSUME NEW c \in Callers,
             \/ Begin(c) \/ Decide(c) \/ WriteResource(c) \/ Commit(c) \/ Terminated(c) \/ ConditionalWrite(c)
      PROVE  FencedInv'
  BY <1>1, BeginKeeps, DecideKeeps, WriteResourceKeeps, CommitKeeps, TerminatedKeeps, ConditionalWriteKeeps
<1>2. ASSUME NEW c \in Callers, NEW counter \in Counters, SnapshotVersion(c, counter)
      PROVE  FencedInv'
  BY <1>2, SnapshotVersionKeeps
<1>3. ASSUME NEW c \in Callers, NEW counter \in Counters, NEW mutation \in Mutations,
             Request(c, counter, mutation)
      PROVE  FencedInv'
  BY <1>3, RequestKeeps
<1>4. ASSUME NEW r \in PairReaders, OpenPair(r) \/ ReturnPair(r)
      PROVE  FencedInv'
  BY <1>4, OpenPairKeeps, ReturnPairKeeps
<1>5. CASE UNCHANGED fencedVars
  <2>1. FencedTypeOK' /\ CallersAreOrdered' /\ AcceptedWereApplied'
    <3>1. UNCHANGED <<fencing, resource, writing, request, pair, committed>>
      BY <1>5 DEF fencedVars
    <3>2. FencedTypeOK'
      BY <3>1 DEF FencedInv, FencedTypeOK
    <3> QED BY <3>1, <3>2 DEF FencedInv, CallersAreOrdered, Ordered, Newer, Stale, Equal, Advanced,
                VersionOf, ResourceRow, AcceptedWereApplied, GenerationAppliedOnce, Accepted
  <2> QED BY <1>5, <2>1, QuietStep, InvariantOfParts DEF fencedVars
<1> QED BY <1>1, <1>2, <1>3, <1>4, <1>5 DEF FencedNext

(***************************************************************************)
(* Whatever the callers ask, repeat or leave unfinished, the database is   *)
(* in a state of the inductive invariant: its types, what the rows say of  *)
(* the commits, the order of each transaction and of each pair that is     *)
(* read, and the two properties below.                                     *)
(***************************************************************************)
THEOREM FencedInvariant == FencedSpec => []FencedInv
<1> QED BY FencedStarts, FencedStep, PTL DEF FencedSpec

(***************************************************************************)
(* mutate and apply_fencing_token: of any number of racing and repeated    *)
(* requests for a generation one is applied, and an accepted mutation is   *)
(* that of its generation.                                                 *)
(***************************************************************************)
THEOREM GenerationsAreAppliedOnce == FencedSpec => []GenerationAppliedOnce
<1>1. FencedInv => GenerationAppliedOnce
  BY DEF FencedInv
<1> QED BY <1>1, FencedInvariant, PTL

(***************************************************************************)
(* snapshot_pair: the versions count the commits, and a returned pair is   *)
(* the fence and the value of one mutation, behind which nothing advanced  *)
(* the fence alone.                                                        *)
(***************************************************************************)
THEOREM PairsAreOfOneMutation == FencedSpec => []RowsMoveTogether
<1>1. FencedInv => RowsMoveTogether
  BY DEF FencedInv
<1> QED BY <1>1, FencedInvariant, PTL

-----------------------------------------------------------------------------
(***************************************************************************)
(* The three side by side, as the run composes them: each is of its type   *)
(* whichever of them runs.                                                 *)
(***************************************************************************)
THEOREM HandoverTypeCorrect == HandoverSpec => []HandoverTypeOK
<1> DEFINE Inv == RestartInv /\ FencedInv /\ RecoveryInv
<1>1. HandoverInit => Inv
  BY RestartStarts, FencedStarts, RecoveryStarts DEF HandoverInit
<1>2. Inv /\ [HandoverNext]_handoverVars => Inv'
  <2> SUFFICES ASSUME Inv, [HandoverNext]_handoverVars PROVE Inv'
    OBVIOUS
  <2>1. [RestartNext]_restartVars /\ [FencedNext]_fencedVars /\ [RecoveryNext]_recoveryVars
    BY DEF HandoverNext, handoverVars
  <2> QED BY <2>1, RestartStep, FencedStep, RecoveryKeepsInvariant
<1>3. Inv => HandoverTypeOK
  BY DEF HandoverTypeOK, RestartInv, FencedInv, RecoveryInv
<1> QED BY <1>1, <1>2, <1>3, PTL DEF HandoverSpec
=============================================================================
