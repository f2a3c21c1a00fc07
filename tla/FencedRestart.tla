---------------------------- MODULE FencedRestart ----------------------------
(***************************************************************************)
(* backend/app/process_transfer_fencing*.py and the protected resource:    *)
(* the restarts of TransferHead under an external fencing authority.  A    *)
(* restart claims the next generation first and verifies the files after   *)
(* it, so that a generation may be consumed for nothing; what it proves is *)
(* persisted as a receipt, and a receipt is checked again before it is     *)
(* used.  The receipt file is replaced without a lock.  The authority is a *)
(* service outside this code, supplied by the caller: here an honest one,  *)
(* a counter that only compare-and-advance moves, and only forward.        *)
(***************************************************************************)
EXTENDS TransferHead

CONSTANTS
    MaxFence,       \* bound: generations claimed
    NoReceipt

VARIABLES
    authority,      \* the counter of the external fencing authority
    receipt,        \* the receipt file
    highest,        \* the highest generation that the protected resource has accepted
    evidence        \* history: the fenced restarts that were verified

fenceVars == <<authority, receipt, highest, evidence>>
restartVars == <<headVars, fenceVars>>

ClaimCounters == 1 .. MaxFence
Receipts == [counter : ClaimCounters, head : Chains]

ASSUME FencedRestartAssumption == MaxFence \in Nat /\ NoReceipt \notin Receipts

RestartTypeOK ==
    /\ HeadTypeOK
    /\ authority \in 0 .. MaxFence
    /\ receipt \in Receipts \cup {NoReceipt}
    /\ highest \in 0 .. MaxFence
    /\ evidence \subseteq [process : Processes, counter : ClaimCounters, head : Chains]
    /\ \A p \in Processes : /\ transfer[p].counter \in 0 .. MaxFence
                            /\ transfer[p].replayed \in 0 .. MaxFence

Files == <<head, bundleFile, headLock, advances>>

-----------------------------------------------------------------------------
\* verify_fenced_authenticated_persisted_process_transfer_restart: the caller
\* expects a previous counter that the authority has, or has had.
RequestClaim(p, previous) ==
    /\ transfer[p].at = "idle"
    /\ previous < MaxFence
    /\ transfer' = [transfer EXCEPT ![p] = [Idle EXCEPT !.at = "claim", !.purpose = "fence",
                                                !.expected = head, !.counter = previous + 1]]
    /\ UNCHANGED <<Files, fenceVars>>

\* Seeded fault: whatever the authority answers is taken.
AsRequested_Any(p, answer) == TRUE

\* The authority's answers: it advances and returns the counter, or its answer
\* is lost; or it has moved on, and fails or returns another value.
AsRequested(p, answer) == answer = transfer[p].counter

ClaimAnswered(p, answer) ==
    transfer' = [transfer EXCEPT ![p] = IF AsRequested(p, answer)
                                           THEN [@ EXCEPT !.at = "lock", !.counter = answer]
                                           ELSE Idle]

ClaimGeneration(p) ==
    /\ transfer[p].at = "claim"
    /\ \/ /\ authority = transfer[p].counter - 1
          /\ authority' = transfer[p].counter
          /\ ClaimAnswered(p, transfer[p].counter) \/ Stop(p)
       \/ /\ authority # transfer[p].counter - 1
          /\ \/ \E answer \in ClaimCounters \ {transfer[p].counter} : ClaimAnswered(p, answer)
             \/ Stop(p)
          /\ UNCHANGED authority
    /\ UNCHANGED <<Files, receipt, highest, evidence>>

\* The claim and the files hold: evidence of the generation.
FenceVerified(p) ==
    /\ transfer[p].at = "verified" /\ transfer[p].purpose = "fence"
    /\ evidence' = evidence \cup {[ process |-> p, counter |-> transfer[p].counter,
                                    head |-> transfer[p].expected ]}
    /\ Move(p, "persist")
    /\ UNCHANGED <<Files, authority, receipt, highest>>

OwnReceipt(p) == [counter |-> transfer[p].counter, head |-> transfer[p].expected]

\* persist_fenced_restart_evidence_receipt: replace, then a read back that raises
\* or not.
PersistReceipt(p) ==
    /\ transfer[p].at = "persist"
    /\ receipt' = OwnReceipt(p)
    /\ Stop(p)
    /\ UNCHANGED <<Files, authority, highest, evidence>>

\* verify_persisted_fenced_restart_currentness, _bracketed_currentness and
\* _protected_resource_token: the caller expects the receipt of some evidence,
\* and the receipt file must be exactly that.
LoadReceipt(p, purpose, expected) ==
    /\ transfer[p].at = "idle"
    /\ receipt = [counter |-> expected.counter, head |-> expected.head]
    /\ transfer' = [transfer EXCEPT ![p] =
                       [ Idle EXCEPT !.at = IF purpose = "token" THEN "lock" ELSE "observe",
                                     !.purpose = purpose, !.expected = expected.head,
                                     !.counter = expected.counter ]]
    /\ UNCHANGED <<Files, fenceVars>>

\* _read_external_counter, which may fail.
ObserveCounter(p) ==
    /\ transfer[p].at = "observe"
    /\ \/ authority = transfer[p].counter /\ Move(p, "lock")
       \/ Stop(p)
    /\ UNCHANGED <<Files, fenceVars>>

Replayed(p) ==
    /\ transfer[p].at = "verified"
    /\ \/ transfer[p].purpose = "current" /\ Stop(p)
       \/ transfer[p].purpose = "bracket" /\ Move(p, "observe again")
       \/ transfer[p].purpose = "token" /\ Move(p, "consume")
    /\ UNCHANGED <<Files, fenceVars>>

\* Seeded fault: only the first observation counts.
StillCurrent_Once(p) == TRUE

\* The second observation of the bracket.
StillCurrent(p) == authority = transfer[p].counter

ObserveAgain(p) ==
    /\ transfer[p].at = "observe again"
    /\ \/ StillCurrent(p) /\ Move(p, "reported")
       \/ Stop(p)
    /\ UNCHANGED <<Files, fenceVars>>

\* validate_fencing_token of the durable adapter, under its three locks: a
\* generation that is not behind the highest is accepted, and recorded before
\* the answer; the answer may still be lost.
NotBehind(p) == transfer[p].counter >= highest

Consume(p) ==
    /\ transfer[p].at = "consume"
    /\ highest' = IF NotBehind(p) THEN transfer[p].counter ELSE highest
    /\ Stop(p)
    /\ UNCHANGED <<Files, authority, receipt, evidence>>

Reported(p) ==
    /\ transfer[p].at = "reported"
    /\ Stop(p)
    /\ UNCHANGED <<Files, fenceVars>>

RestartInit ==
    /\ HeadInit
    /\ authority = 0
    /\ receipt = NoReceipt
    /\ highest = 0
    /\ evidence = {}

RestartNext ==
    \/ HeadNext(authority) /\ UNCHANGED fenceVars
    \/ \E p \in Processes :
          \/ ClaimGeneration(p) \/ FenceVerified(p) \/ PersistReceipt(p)
          \/ ObserveCounter(p) \/ Replayed(p) \/ ObserveAgain(p) \/ Consume(p) \/ Reported(p)
          \/ \E previous \in 0 .. authority : RequestClaim(p, previous)
          \/ \E e \in evidence : \E purpose \in {"current", "bracket", "token"} :
                LoadReceipt(p, purpose, e)

RestartSpec == RestartInit /\ [][RestartNext]_restartVars

-----------------------------------------------------------------------------
(***************************************************************************)
(* A fencing generation is evidence of one restart: two processes, or two  *)
(* attempts, never hold verified evidence of the same generation, however  *)
(* claims race or are repeated and answers are lost.  This takes an honest *)
(* authority: one that answers a claim with the expected value only when   *)
(* it has just advanced its counter to it.  Its other answers may be any.  *)
(***************************************************************************)
OneRestartPerGeneration ==
    \A e, f \in evidence : e.counter = f.counter => e = f

(***************************************************************************)
(* The bracketed check reports a receipt only if its generation was the    *)
(* authority's at the moment the local files were replayed, however the    *)
(* authority has moved before and after it.  That the two equal readings   *)
(* say so much is due to an authority whose counter never goes back, as    *)
(* the one of this model; the code observes the two readings alone, and    *)
(* its TRUTH_BOUNDARY does not claim that the counter stood still between  *)
(* them.                                                                   *)
(***************************************************************************)
BracketWasCurrent ==
    \A p \in Processes :
        transfer[p].at = "reported" /\ transfer[p].purpose = "bracket"
        => transfer[p].replayed = transfer[p].counter
=============================================================================
