---------------------------- MODULE MCHandover ----------------------------
(***************************************************************************)
(* What processes of one host do to files and databases that they share:   *)
(* three protocols, each in a state space of its own.  protocol, chosen    *)
(* once, says which of them runs; the others stay as they start.           *)
(*   restart: two processes, two bundles, two heads and two generations,   *)
(*     three of these together.                                            *)
(*   resource: two callers, a reader of pairs, two mutations and           *)
(*     generations to 2.                                                   *)
(*   anchor: two processes, two checkpoints, lineages to 2.                *)
(***************************************************************************)
EXTENDS FencedRestart, FencedResource, RecoveryAnchor

VARIABLE protocol

MaxTogether == 3    \* bound: heads advanced to and generations claimed

handoverVars == <<protocol, restartVars, fencedVars, recoveryVars>>

HandoverInit ==
    /\ protocol \in {"restart", "resource", "anchor"}
    /\ RestartInit /\ FencedInit /\ RecoveryInit

HandoverNext ==
    /\ UNCHANGED protocol
    /\ \/ /\ protocol = "restart" /\ RestartNext
          /\ Len(head') + authority' <= MaxTogether
          /\ UNCHANGED <<fencedVars, recoveryVars>>
       \/ /\ protocol = "resource" /\ FencedNext
          /\ UNCHANGED <<restartVars, recoveryVars>>
       \/ /\ protocol = "anchor" /\ RecoveryNext
          /\ UNCHANGED <<restartVars, fencedVars>>

HandoverSpec == HandoverInit /\ [][HandoverNext]_handoverVars

\* The type invariants of the three, together.
HandoverTypeOK == RestartTypeOK /\ FencedTypeOK /\ RecoveryTypeOK
=============================================================================
