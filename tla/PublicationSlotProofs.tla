------------------------ MODULE PublicationSlotProofs ------------------------
(***************************************************************************)
(* The publication slot for any number of threads, candidates, layouts and *)
(* generations.  The generation that every transition increases does the   *)
(* work: a lease with the generation of the current version is that        *)
(* version, so what its holder saw is what it replaces.                    *)
(***************************************************************************)
EXTENDS PublicationSlot, SequenceTheorems, TLAPS

LeasesAreOfTheirGeneration ==
    \A t \in Writers :
        /\ writer[t].held.generation <= current.generation
        /\ writer[t].held.generation = current.generation => writer[t].held = current

\* What a migration has published, and leased again, is its own version.
OwnPublication ==
    \A t \in Writers :
        /\ WriterAt(t, "published") =>
              /\ writer[t].own \in 1 .. current.generation
              /\ writer[t].own = current.generation =>
                    current.payload = writer[t].own /\ current.source # NoSource
        /\ writer[t].at \in {"checked", "probed", "rejected"} =>
              writer[t].held.payload = writer[t].own /\ writer[t].held.source # NoSource

SlotInv == /\ SlotTypeOK
           /\ DerivedFromPredecessor
           /\ LeasesAreOfTheirGeneration
           /\ OwnPublication

-----------------------------------------------------------------------------
\* A prefix of a sequence.
LEMMA HistoryPrefix ==
    ASSUME NEW S, NEW seq \in Seq(S), NEW n \in Nat, n <= Len(seq)
    PROVE  /\ SubSeq(seq, 1, n) \in Seq(S)
           /\ Len(SubSeq(seq, 1, n)) = n
           /\ \A i \in 1 .. n : SubSeq(seq, 1, n)[i] = seq[i]
<1>1. \A i \in 1 .. n : i \in 1 .. Len(seq) /\ seq[i] \in S
  BY LenProperties, ElementOfSeq
<1>2. /\ SubSeq(seq, 1, n) \in Seq(S)
      /\ Len(SubSeq(seq, 1, n)) = IF 1 <= n THEN n - 1 + 1 ELSE 0
      /\ \A i \in 1 .. n - 1 + 1 : SubSeq(seq, 1, n)[i] = seq[1 + i - 1]
  BY <1>1, SubSeqProperties
<1> QED BY <1>2

\* The history, by position.
LEMMA HistoryByPosition ==
    ASSUME SlotTypeOK
    PROVE  /\ Len(history) \in Nat
           /\ Len(Lineage) = Len(history) + 1
           /\ Lineage[Len(history) + 1] = current
           /\ \A i \in 1 .. Len(history) : Lineage[i] = history[i]
BY DEF SlotTypeOK, Lineage

\* Publication: the new version is derived from the one it displaces.
LEMMA PushKeepsHistory ==
    ASSUME SlotTypeOK, DerivedFromPredecessor,
           NEW candidate \in CandidateIds, NEW layout \in Layouts,
           NEW source \in {NoSource, current.payload},
           Push(candidate, layout, source)
    PROVE  /\ kind' = kind
           /\ current' \in SlotVersions
           /\ history' \in Seq(SlotVersions)
           /\ current'.generation = current.generation + 1
           /\ current'.payload = current.generation + 1
           /\ current'.source = source
           /\ DerivedFromPredecessor'
<1>1. current \in SlotVersions /\ history \in Seq(SlotVersions)
  BY DEF SlotTypeOK
<1>2. current' \in SlotVersions /\ history' \in Seq(SlotVersions)
  BY <1>1, MaxGenerationAssumption DEF Push, SlotVersions, NoSource
<1>3. history' = Lineage /\ current'.source = source
  BY DEF Push, Lineage
<1>4. /\ Len(history) \in Nat
      /\ Len(Lineage) = Len(history) + 1
      /\ Lineage[Len(history) + 1] = current
  BY HistoryByPosition
<1>5. /\ Len(Lineage') = Len(history') + 1
      /\ Lineage'[Len(history') + 1] = current'
      /\ \A i \in 1 .. Len(history') : Lineage'[i] = history'[i]
  BY <1>2 DEF Lineage
<1>6. ASSUME NEW i \in 2 .. Len(Lineage')
      PROVE  Lineage'[i].source \in {NoSource, Lineage'[i - 1].payload}
  <2>1. CASE i = Len(history') + 1
    BY <2>1, <1>3, <1>4, <1>5
  <2>2. CASE i # Len(history') + 1
    <3>1. i \in 2 .. Len(Lineage) /\ i - 1 \in 1 .. Len(history') /\ i \in 1 .. Len(history')
      BY <2>2, <1>3, <1>4, <1>5
    <3> QED BY <3>1, <1>3, <1>5 DEF DerivedFromPredecessor
  <2> QED BY <2>1, <2>2
<1>7. DerivedFromPredecessor'
  BY <1>6 DEF DerivedFromPredecessor
<1> QED BY <1>2, <1>3, <1>7 DEF Push

\* Rollback: what the current version was derived from comes back.
LEMMA PopKeepsHistory ==
    ASSUME SlotTypeOK, DerivedFromPredecessor, Pop
    PROVE  /\ kind' = kind
           /\ current' \in SlotVersions
           /\ history' \in Seq(SlotVersions)
           /\ current'.generation = current.generation + 1
           /\ current.source \in {NoSource, current'.payload}
           /\ DerivedFromPredecessor'
<1> DEFINE n == Len(history)
<1>1. current \in SlotVersions /\ history \in Seq(SlotVersions)
  BY DEF SlotTypeOK
<1>2. n \in Nat /\ n >= 1 /\ history[n] \in SlotVersions
  BY <1>1 DEF Pop
<1> PICK previous \in SlotVersions : previous = history[n]
  BY <1>2
<1>3. /\ current' = [previous EXCEPT !.generation = current.generation + 1]
      /\ history' = SubSeq(history, 1, n - 1)
      /\ current.generation < MaxGeneration
  BY DEF Pop
<1>4. current.generation + 1 \in 1 .. MaxGeneration
  BY <1>1, <1>3, MaxGenerationAssumption DEF SlotVersions
<1>5. /\ current' \in SlotVersions /\ current'.generation = current.generation + 1
      /\ current'.source = previous.source /\ current'.payload = previous.payload
  BY <1>3, <1>4 DEF SlotVersions
<1>6. /\ history' \in Seq(SlotVersions)
      /\ Len(history') = n - 1
      /\ \A i \in 1 .. n - 1 : history'[i] = history[i]
  <2>1. n - 1 \in Nat /\ n - 1 <= Len(history)
    BY <1>2
  <2> QED BY <1>1, <1>3, <2>1, HistoryPrefix
<1>7. /\ Len(Lineage) = n + 1
      /\ Lineage[n + 1] = current
      /\ \A i \in 1 .. n : Lineage[i] = history[i]
  BY HistoryByPosition
<1>8. /\ Len(Lineage') = n
      /\ Lineage'[n] = current'
      /\ \A i \in 1 .. n - 1 : Lineage'[i] = history[i]
  BY <1>2, <1>5, <1>6 DEF Lineage
<1>9. current.source \in {NoSource, current'.payload}
  <2>1. n + 1 \in 2 .. Len(Lineage) /\ (n + 1) - 1 = n /\ n \in 1 .. n
    BY <1>2, <1>7
  <2> QED BY <2>1, <1>5, <1>7 DEF DerivedFromPredecessor
<1>10. ASSUME NEW i \in 2 .. Len(Lineage')
       PROVE  Lineage'[i].source \in {NoSource, Lineage'[i - 1].payload}
  <2>1. i \in 2 .. Len(Lineage) /\ i \in 1 .. n /\ i - 1 \in 1 .. n - 1
    BY <1>2, <1>7, <1>8
  <2>2. /\ Lineage[i].source \in {NoSource, Lineage[i - 1].payload}
        /\ Lineage[i] = history[i]
        /\ Lineage'[i - 1] = Lineage[i - 1]
    <3>1. i - 1 \in 1 .. n
      BY <2>1, <1>2
    <3> QED BY <2>1, <3>1, <1>7, <1>8 DEF DerivedFromPredecessor
  <2>3. Lineage'[i].source = history[i].source
    BY <2>1, <1>2, <1>5, <1>8
  <2> QED BY <2>2, <2>3
<1>11. DerivedFromPredecessor'
  BY <1>10 DEF DerivedFromPredecessor
<1> QED BY <1>5, <1>6, <1>9, <1>11 DEF Pop

\* What each action does to the writer that takes it, and to the slot.
OtherThreadsKeep(t) == \A u \in Writers : u # t => writer'[u] = writer[u]
SlotUnchanged == UNCHANGED <<kind, current, history>>

\* A generation later, the leases of the other threads are old ones.
LEMMA OthersAfterTransition ==
    ASSUME SlotInv, NEW t \in Writers, OtherThreadsKeep(t),
           current' \in SlotVersions, current'.generation = current.generation + 1,
           NEW u \in Writers, u # t
    PROVE  /\ writer'[u] = writer[u]
           /\ writer'[u].held.generation < current'.generation
           /\ WriterAt(u, "published")' => /\ writer'[u].own \in 1 .. current'.generation
                                     /\ writer'[u].own # current'.generation
           /\ writer'[u].at \in {"checked", "probed", "rejected"} =>
                 writer'[u].held.payload = writer'[u].own /\ writer'[u].held.source # NoSource
<1>1. writer[u] \in WriterStates /\ current \in SlotVersions
  BY DEF SlotInv, SlotTypeOK
<1>2. writer'[u] = writer[u]
  BY DEF OtherThreadsKeep
<1>3. writer[u].held.generation \in Int /\ current.generation \in Int /\ writer[u].own \in Int
  BY <1>1 DEF WriterStates, SlotVersions
<1>4. /\ writer[u].held.generation <= current.generation
      /\ WriterAt(u, "published") => writer[u].own \in 1 .. current.generation
      /\ writer[u].at \in {"checked", "probed", "rejected"} =>
            writer[u].held.payload = writer[u].own /\ writer[u].held.source # NoSource
  BY DEF SlotInv, LeasesAreOfTheirGeneration, OwnPublication
<1> QED BY <1>2, <1>3, <1>4 DEF WriterAt

\* A transition by a writer that ends its call, or that has just published.
LEMMA TransitionKeepsInv ==
    ASSUME SlotInv, NEW t \in Writers, OtherThreadsKeep(t),
           kind' = kind, current' \in SlotVersions, history' \in Seq(SlotVersions),
           current'.generation = current.generation + 1,
           DerivedFromPredecessor',
           writer' \in [Writers -> WriterStates],
           writer'[t].held = writer[t].held,
           \/ writer'[t].at \in {"idle", "holding"}
           \/ /\ writer'[t].at = "published"
              /\ writer'[t].own = current'.generation
              /\ current'.payload = current'.generation
              /\ current'.source # NoSource
    PROVE  SlotInv'
<1>1. SlotTypeOK'
  BY DEF SlotInv, SlotTypeOK
<1>2. writer[t].held \in SlotVersions /\ current \in SlotVersions
  BY DEF SlotInv, SlotTypeOK, WriterStates
<1>3. writer'[t].held.generation < current'.generation
  BY <1>2 DEF SlotInv, LeasesAreOfTheirGeneration, SlotVersions
<1>4. LeasesAreOfTheirGeneration'
  <2>1. ASSUME NEW u \in Writers
        PROVE  writer'[u].held.generation < current'.generation
    BY <1>3, OthersAfterTransition
  <2>2. ASSUME NEW u \in Writers
        PROVE  writer'[u].held.generation \in Int /\ current'.generation \in Int
    BY DEF WriterStates, SlotVersions
  <2> QED BY <2>1, <2>2 DEF LeasesAreOfTheirGeneration
<1>5. OwnPublication'
  <2>1. ASSUME NEW u \in Writers, u # t
        PROVE  /\ WriterAt(u, "published")' =>
                     /\ writer'[u].own \in 1 .. current'.generation
                     /\ writer'[u].own = current'.generation =>
                           current'.payload = writer'[u].own /\ current'.source # NoSource
               /\ writer'[u].at \in {"checked", "probed", "rejected"} =>
                     writer'[u].held.payload = writer'[u].own /\ writer'[u].held.source # NoSource
    BY <2>1, OthersAfterTransition
  <2>2. current'.generation \in 1 .. current'.generation
    BY DEF SlotVersions
  <2> QED BY <2>1, <2>2 DEF OwnPublication, WriterAt
<1> QED BY <1>1, <1>4, <1>5 DEF SlotInv

\* A step that leaves the slot alone, by a writer whose new lease, if any, is
\* of the current version.
LEMMA ObservationKeepsInv ==
    ASSUME SlotInv, NEW t \in Writers, OtherThreadsKeep(t), SlotUnchanged,
           writer' \in [Writers -> WriterStates],
           writer'[t].held \in {writer[t].held, current},
           writer'[t].at # "published",
           writer'[t].at \in {"checked", "probed", "rejected"} =>
               writer'[t].held.payload = writer'[t].own /\ writer'[t].held.source # NoSource
    PROVE  SlotInv'
<1>1. SlotTypeOK' /\ DerivedFromPredecessor'
  BY DEF SlotInv, SlotTypeOK, SlotUnchanged, DerivedFromPredecessor, Lineage
<1>2. LeasesAreOfTheirGeneration'
  <2>1. current.generation <= current.generation
    BY DEF SlotInv, SlotTypeOK, SlotVersions
  <2> QED BY <2>1 DEF SlotInv, LeasesAreOfTheirGeneration, SlotUnchanged, OtherThreadsKeep
<1>3. OwnPublication'
  BY DEF SlotInv, OwnPublication, SlotUnchanged, OtherThreadsKeep, WriterAt
<1> QED BY <1>1, <1>2, <1>3 DEF SlotInv

-----------------------------------------------------------------------------
LEMMA InitEstablishesInv == SlotInit => SlotInv
<1> SUFFICES ASSUME SlotInit PROVE SlotInv
  OBVIOUS
<1>1. current \in SlotVersions /\ current.generation = 1 /\ history = <<>>
  BY MaxGenerationAssumption DEF SlotInit, SlotVersions, NoSource
<1>2. writer = [t \in Writers |-> [ at |-> "idle", held |-> current, own |-> 0, probed |-> 0 ]]
  BY DEF SlotInit, Locals, NoSource
<1>3. SlotTypeOK
  BY <1>1, <1>2, MaxGenerationAssumption DEF SlotTypeOK, SlotInit, WriterStates, WriterPlaces
<1>4. DerivedFromPredecessor
  BY <1>1 DEF DerivedFromPredecessor, Lineage
<1>5. LeasesAreOfTheirGeneration
  <2>1. \A t \in Writers : writer[t].held = current
    BY <1>2
  <2>2. current.generation <= current.generation
    BY <1>1
  <2> QED BY <2>1, <2>2 DEF LeasesAreOfTheirGeneration
<1>6. OwnPublication
  BY <1>2 DEF OwnPublication, WriterAt
<1> QED BY <1>3, <1>4, <1>5, <1>6 DEF SlotInv

LEMMA NextPreservesInv == SlotInv /\ [SlotNext]_slotVars => SlotInv'
<1> SUFFICES ASSUME SlotInv, [SlotNext]_slotVars PROVE SlotInv'
  OBVIOUS
<1> USE DEF NoSource
<1>0. /\ SlotTypeOK /\ DerivedFromPredecessor
      /\ current \in SlotVersions /\ writer \in [Writers -> WriterStates]
      /\ 0 \in 0 .. MaxGeneration
      /\ \A n \in 1 .. MaxGeneration : n \in 0 .. MaxGeneration
      /\ current.generation \in 1 .. MaxGeneration /\ current.payload \in 1 .. MaxGeneration
  BY MaxGenerationAssumption DEF SlotInv, SlotTypeOK, SlotVersions
<1>1. CASE UNCHANGED slotVars
  BY <1>1 DEF slotVars, SlotInv, SlotTypeOK, DerivedFromPredecessor, Lineage,
              LeasesAreOfTheirGeneration, OwnPublication, WriterAt
<1>2. ASSUME NEW t \in Writers, RefuseCall(t)
      PROVE  SlotInv'
  <2>1. /\ writer' = [writer EXCEPT ![t] = [ at |-> "idle", held |-> writer[t].held,
                                             own |-> 0, probed |-> 0 ]]
        /\ SlotUnchanged
    BY <1>2, <1>0 DEF RefuseCall, ReturnFrom, Locals, SlotUnchanged
  <2>2. /\ writer' \in [Writers -> WriterStates] /\ OtherThreadsKeep(t)
        /\ writer'[t].held = writer[t].held /\ writer'[t].at = "idle"
    BY <2>1, <1>0 DEF WriterStates, WriterPlaces, OtherThreadsKeep
  <2> QED BY <2>1, <2>2, ObservationKeepsInv
<1>3. ASSUME NEW t \in Writers, LeaseActive(t)
      PROVE  SlotInv'
  <2>1. /\ writer' = [writer EXCEPT ![t] = [ at |-> "holding", held |-> current,
                                             own |-> 0, probed |-> 0 ]]
        /\ SlotUnchanged
    BY <1>3, <1>0 DEF LeaseActive, Locals, SlotUnchanged
  <2>2. /\ writer' \in [Writers -> WriterStates] /\ OtherThreadsKeep(t)
        /\ writer'[t].held = current /\ writer'[t].at = "holding"
    BY <2>1, <1>0 DEF WriterStates, WriterPlaces, OtherThreadsKeep
  <2> QED BY <2>1, <2>2, ObservationKeepsInv
<1>4. ASSUME NEW t \in Writers, CheckPublished(t), current.generation = writer[t].own
      PROVE  SlotInv'
  <2>1. /\ writer' = [writer EXCEPT ![t].at = "checked", ![t].held = current]
        /\ SlotUnchanged
    BY <1>4, <1>0 DEF CheckPublished, SlotUnchanged
  <2>2. /\ writer' \in [Writers -> WriterStates] /\ OtherThreadsKeep(t)
        /\ writer'[t].held = current /\ writer'[t].at = "checked"
        /\ writer'[t].own = writer[t].own
    BY <2>1, <1>0 DEF WriterStates, WriterPlaces, OtherThreadsKeep
  <2>3. current.payload = writer[t].own /\ current.source # 0
    BY <1>4 DEF CheckPublished, SlotInv, OwnPublication
  <2> QED BY <2>1, <2>2, <2>3, ObservationKeepsInv
<1>5. ASSUME NEW t \in Writers, LeaseTarget(t), current.layout = writer[t].held.layout
      PROVE  SlotInv'
  <2>1. /\ writer' = [writer EXCEPT ![t].at = "probed", ![t].probed = current.payload]
        /\ SlotUnchanged
        /\ writer[t].at = "checked"
    BY <1>5, <1>0 DEF LeaseTarget, SlotUnchanged, WriterAt
  <2>2. /\ writer' \in [Writers -> WriterStates] /\ OtherThreadsKeep(t)
        /\ writer'[t].held = writer[t].held /\ writer'[t].at = "probed"
        /\ writer'[t].own = writer[t].own
    BY <2>1, <1>0 DEF WriterStates, WriterPlaces, OtherThreadsKeep
  <2> QED BY <2>1, <2>2, ObservationKeepsInv DEF SlotInv, OwnPublication
<1>6. ASSUME NEW t \in Writers, NEW verdict \in {"accepted", "rejected"},
             WriterAt(t, "probed"), MoveTo(t, verdict), SlotUnchanged
      PROVE  SlotInv'
  <2>1. /\ writer' \in [Writers -> WriterStates] /\ OtherThreadsKeep(t)
        /\ writer'[t].held = writer[t].held /\ writer'[t].at = verdict
        /\ writer'[t].own = writer[t].own
    BY <1>6, <1>0 DEF MoveTo, WriterStates, WriterPlaces, OtherThreadsKeep
  <2> QED BY <1>6, <2>1, ObservationKeepsInv DEF SlotInv, OwnPublication, WriterAt
<1>7. ASSUME NEW t \in Writers, ReturnFrom(t)
      PROVE  /\ writer' \in [Writers -> WriterStates] /\ OtherThreadsKeep(t)
             /\ writer'[t].held = writer[t].held /\ writer'[t].at = "idle"
  <2>1. writer' = [writer EXCEPT ![t] = [ at |-> "idle", held |-> writer[t].held,
                                          own |-> 0, probed |-> 0 ]]
    BY <1>7, <1>0 DEF ReturnFrom, Locals
  <2> QED BY <2>1, <1>0 DEF WriterStates, WriterPlaces, OtherThreadsKeep
<1>8. ASSUME NEW t \in Writers, NEW candidate \in CandidateIds, NEW layout \in Layouts,
             NEW source \in {0, current.payload}, Push(candidate, layout, source),
             OtherThreadsKeep(t), writer' \in [Writers -> WriterStates],
             writer'[t].held = writer[t].held,
             \/ writer'[t].at = "idle"
             \/ writer'[t].at = "published" /\ writer'[t].own = current'.generation
                /\ source # 0
      PROVE  SlotInv'
  <2>1. /\ kind' = kind /\ current' \in SlotVersions /\ history' \in Seq(SlotVersions)
        /\ current'.generation = current.generation + 1
        /\ current'.payload = current.generation + 1
        /\ current'.source = source
        /\ DerivedFromPredecessor'
    BY <1>8, <1>0, PushKeepsHistory
  <2> QED BY <1>8, <2>1, TransitionKeepsInv
<1>9. ASSUME NEW t \in Writers, Pop, OtherThreadsKeep(t), writer' \in [Writers -> WriterStates],
             writer'[t].held = writer[t].held, writer'[t].at \in {"idle", "holding"}
      PROVE  SlotInv'
  BY <1>9, <1>0, PopKeepsHistory, TransitionKeepsInv
<1>10. ASSUME NEW t \in Writers, IsActive(writer[t].held)
       PROVE  writer[t].held = current
  BY <1>10 DEF IsActive, SlotInv, LeasesAreOfTheirGeneration
<1>11. ASSUME NEW t \in Writers, NEW from \in CandidateIds, NEW to \in CandidateIds,
              ReplaceCandidate(t, from, to)
       PROVE  SlotInv'
  <2>1. current.layout \in Layouts
    BY <1>0 DEF SlotVersions
  <2> QED BY <2>1, <1>0, <1>8, <1>11 DEF ReplaceCandidate, WriterAt, OtherThreadsKeep
<1>12. ASSUME NEW t \in Writers, NEW to \in CandidateIds, NEW layout \in Layouts,
              ActivateValidated(t, to, layout)
       PROVE  SlotInv'
  BY <1>7, <1>8, <1>10, <1>12 DEF ActivateValidated, MayReplace
<1>13. ASSUME NEW t \in Writers, NEW to \in CandidateIds, NEW layout \in Layouts,
              MigrateAndPublish(t, to, layout)
       PROVE  SlotInv'
  <2>1. /\ Push(to, layout, current.payload)
        /\ writer' = [writer EXCEPT ![t].at = "published", ![t].own = current'.generation]
    BY <1>10, <1>13 DEF MigrateAndPublish, MayReplace
  <2>2. current'.generation \in 0 .. MaxGeneration
    <3>1. current' \in SlotVersions
      BY <2>1, <1>0, PushKeepsHistory
    <3> QED BY <3>1 DEF SlotVersions
  <2>3. /\ writer' \in [Writers -> WriterStates] /\ OtherThreadsKeep(t)
        /\ writer'[t].held = writer[t].held /\ writer'[t].at = "published"
        /\ writer'[t].own = current'.generation
    BY <2>1, <2>2, <1>0 DEF WriterStates, WriterPlaces, OtherThreadsKeep
  <2>4. current.payload # 0
    BY <1>0 DEF SlotVersions
  <2> QED BY <2>1, <2>3, <2>4, <1>8
<1>14. ASSUME NEW t \in Writers, UndoPublication(t)
       PROVE  SlotInv'
  BY <1>2, <1>7, <1>9, <1>14 DEF UndoPublication
<1>15. ASSUME NEW t \in Writers, RollbackVersion(t)
       PROVE  SlotInv'
  BY <1>7, <1>9, <1>15 DEF RollbackVersion
<1>16. ASSUME NEW t \in Writers, NEW candidate \in CandidateIds, RollbackCandidate(t, candidate)
       PROVE  SlotInv'
  BY <1>0, <1>9, <1>16 DEF RollbackCandidate, OtherThreadsKeep
<1>17. ASSUME NEW t \in Writers, Retire(t)
       PROVE  SlotInv'
  <2>1. /\ writer' \in [Writers -> WriterStates] /\ OtherThreadsKeep(t)
        /\ writer'[t].held = writer[t].held /\ writer'[t].at = "idle"
        /\ history' = <<>> /\ UNCHANGED <<kind, current>>
    BY <1>7, <1>17 DEF Retire
  <2>2. SlotTypeOK'
    BY <2>1 DEF SlotInv, SlotTypeOK
  <2>3. DerivedFromPredecessor'
    BY <2>1 DEF DerivedFromPredecessor, Lineage
  <2>4. LeasesAreOfTheirGeneration' /\ OwnPublication'
    BY <2>1 DEF SlotInv, LeasesAreOfTheirGeneration, OwnPublication, OtherThreadsKeep, WriterAt
  <2> QED BY <2>2, <2>3, <2>4 DEF SlotInv
<1>18. CASE SlotNext
  <2>1. PICK t \in Writers :
            \/ LeaseActive(t) \/ GiveUp(t) \/ CheckPublished(t) \/ LeaseTarget(t)
            \/ Healthy(t) \/ Unhealthy(t) \/ UndoPublication(t)
            \/ RollbackVersion(t) \/ Retire(t)
            \/ \E from, to \in CandidateIds : ReplaceCandidate(t, from, to)
            \/ \E candidate \in CandidateIds : RollbackCandidate(t, candidate)
            \/ \E to \in CandidateIds, layout \in Layouts :
                  ActivateValidated(t, to, layout) \/ MigrateAndPublish(t, to, layout)
    BY <1>18 DEF SlotNext
  <2>2. CASE GiveUp(t) \/ CheckPublished(t) \/ LeaseTarget(t)
    BY <2>2, <1>2, <1>4, <1>5 DEF GiveUp, CheckPublished, LeaseTarget
  <2>3. CASE Healthy(t) \/ Unhealthy(t)
    BY <2>3, <1>6 DEF Healthy, Unhealthy, SlotUnchanged
  <2> QED BY <2>1, <2>2, <2>3, <1>3, <1>11, <1>12, <1>13, <1>14, <1>15, <1>16, <1>17
<1> QED BY <1>1, <1>18

\* Every reachable state of every instance satisfies the inductive invariant.
LEMMA InvHolds == SlotSpec => []SlotInv
BY InitEstablishesInv, NextPreservesInv, PTL DEF SlotSpec

\* The slot's type correctness.
THEOREM SlotTypeCorrect == SlotSpec => []SlotTypeOK
BY InvHolds, PTL DEF SlotInv

\* No publication over a version that its validator has not seen (the ABA
\* window of activate_validated is closed), for any number of threads.
THEOREM PublicationsAreDerived == SlotSpec => []DerivedFromPredecessor
BY InvHolds, PTL DEF SlotInv

\* A failed health check undoes its own publication and nothing else.
LEMMA UndoStep ==
    ASSUME SlotInv, [SlotNext]_slotVars, NEW t \in Writers,
           WriterAt(t, "rejected"), writer'[t].at = "idle", current' # current
    PROVE  current.payload = writer[t].own /\ current'.payload = current.source
<1>1. UndoPublication(t)
  <2>1. writer \in [Writers -> WriterStates]
    BY DEF SlotInv, SlotTypeOK
  <2>2. PICK u \in Writers :
            \/ UndoPublication(u)
            \/ RollbackVersion(u)
            \/ \E from, to \in CandidateIds : ReplaceCandidate(u, from, to)
            \/ \E candidate \in CandidateIds : RollbackCandidate(u, candidate)
            \/ \E to \in CandidateIds, layout \in Layouts :
                  ActivateValidated(u, to, layout) \/ MigrateAndPublish(u, to, layout)
    BY DEF SlotNext, slotVars, LeaseActive, GiveUp, CheckPublished, LeaseTarget, Healthy,
           Unhealthy, Retire, RefuseCall
  <2>3. CASE UndoPublication(u) \/ RollbackVersion(u)
    BY <2>1, <2>3 DEF UndoPublication, RollbackVersion, ReturnFrom, RefuseCall, WriterAt
  <2>4. CASE \/ \E from, to \in CandidateIds : ReplaceCandidate(u, from, to)
             \/ \E candidate \in CandidateIds : RollbackCandidate(u, candidate)
    BY <2>4 DEF ReplaceCandidate, RollbackCandidate, WriterAt
  <2>5. ASSUME NEW to \in CandidateIds, NEW layout \in Layouts,
               ActivateValidated(u, to, layout) \/ MigrateAndPublish(u, to, layout)
        PROVE  FALSE
    BY <2>1, <2>5 DEF ActivateValidated, MigrateAndPublish, ReturnFrom, WriterAt
  <2> QED BY <2>2, <2>3, <2>4, <2>5
<1>2. IsActive(writer[t].held) /\ Pop
  BY <1>1 DEF UndoPublication, MayUndo, RefuseCall
<1>3. writer[t].held = current
  BY <1>2 DEF IsActive, SlotInv, LeasesAreOfTheirGeneration
<1>4. current.payload = writer[t].own /\ current.source # NoSource
  BY <1>3 DEF SlotInv, OwnPublication, WriterAt
<1>5. current.source \in {NoSource, current'.payload}
  BY <1>2, PopKeepsHistory DEF SlotInv
<1> QED BY <1>4, <1>5

\* The rollback after a rejected health check, in every instance.
THEOREM HealthRollbackIsExact == SlotSpec => UndoesOwnPublication
<1>1. SlotInv /\ [SlotNext]_slotVars =>
          [ \A t \in Writers :
              (WriterAt(t, "rejected") /\ writer'[t].at = "idle" /\ current' # current)
              => /\ current.payload = writer[t].own
                 /\ current'.payload = current.source ]_slotVars
  BY UndoStep
<1> QED BY <1>1, InvHolds, PTL DEF SlotSpec, UndoesOwnPublication
=============================================================================
