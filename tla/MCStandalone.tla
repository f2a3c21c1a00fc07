---------------------------- MODULE MCStandalone ----------------------------
(***************************************************************************)
(* The components of MCComponents, the protocols of MCHandover and the     *)
(* pilot endpoint, which share nothing: group, chosen once, says which of  *)
(* the three runs.  All of them use the same two actors and the same two   *)
(* payloads, so that one small symmetry group serves them all.             *)
(*   pilot: two request threads, one key, two requests for it, two runs,   *)
(*     an operator; four ledger entries.                                   *)
(***************************************************************************)
EXTENDS MCComponents, MCHandover, MCPilotSynthesis

VARIABLE group

standaloneVars == <<group, componentsVars, handoverVars, pilotVars>>

\* Of the groups that do not run, one initial state is enough.
StandaloneInit ==
    /\ group \in {"components", "handover", "pilot"}
    /\ ComponentsInit /\ HandoverInit /\ PilotInit
    /\ group # "components" => focus = "metrics"
    /\ group # "handover" => protocol = "anchor"

StandaloneNext ==
    /\ UNCHANGED group
    /\ \/ group = "components" /\ ComponentsNext /\ UNCHANGED <<handoverVars, pilotVars>>
       \/ group = "handover" /\ HandoverNext /\ UNCHANGED <<componentsVars, pilotVars>>
       \/ group = "pilot" /\ PilotNext /\ UNCHANGED <<componentsVars, handoverVars>>

StandaloneSpec == StandaloneInit /\ [][StandaloneNext]_standaloneVars
=============================================================================
