---------------------------- MODULE MCComponents ----------------------------
(***************************************************************************)
(* The components whose operations are one critical section or one atomic  *)
(* access each and that share nothing with each other, each in a state     *)
(* space of its own: focus, chosen once, says which of them runs; the      *)
(* others stay as they start.                                              *)
(*   runtime: one session, three candidates and two mixes; sequence        *)
(*     numbers to 6 leave room for a switch, its cooldown, a second switch *)
(*     and its rollback.                                                   *)
(*   router: one deployment, five generations: two activations on the      *)
(*     stack, their rollbacks, and a re-activation; two old leases.        *)
(*   slot: two writers, two candidates, two payload types, generations to  *)
(*     5: a migration, its rollback, and publications of the other writer  *)
(*     between them.                                                       *)
(*   metrics: two requests at a time, two methods, two paths and the path  *)
(*     of the overflow, a table for two keys.                              *)
(***************************************************************************)
EXTENDS RuntimeController, ArtifactRouter, PublicationSlot, OperationalMetrics

CONSTANTS calm, busy

MCMixes == {calm, busy}
MCDriftPairs == {<<calm, busy>>, <<busy, calm>>}
MCSequenceNumbers == 0 .. 6
MCCooldowns == {0, 2}
MCGenerations == 1 .. 5

VARIABLE focus

componentsVars == <<focus, runtimeVars, routerVars, slotVars, metricsVars>>

ComponentsInit ==
    /\ focus \in {"runtime", "router", "slot", "metrics"}
    /\ RuntimeInit /\ RouterInit /\ MetricsInit
    /\ SlotInit
    /\ focus # "slot" =>
          /\ kind = "typed"
          /\ current.candidate = CHOOSE candidate \in CandidateIds : TRUE
          /\ current.layout = CHOOSE layout \in Layouts : TRUE

ComponentsNext ==
    /\ UNCHANGED focus
    /\ \/ /\ focus = "runtime" /\ RuntimeNext
          /\ UNCHANGED <<routerVars, slotVars, metricsVars>>
       \/ /\ focus = "router" /\ RouterNext
          /\ UNCHANGED <<runtimeVars, slotVars, metricsVars>>
       \/ /\ focus = "slot" /\ SlotNext
          /\ UNCHANGED <<runtimeVars, routerVars, metricsVars>>
       \/ /\ focus = "metrics" /\ MetricsNext
          /\ UNCHANGED <<runtimeVars, routerVars, slotVars>>

ComponentsSpec == ComponentsInit /\ [][ComponentsNext]_componentsVars

\* The type invariants of the four, together.
ComponentsTypeOK == RuntimeTypeOK /\ RouterTypeOK /\ SlotTypeOK /\ MetricsTypeOK
=============================================================================
