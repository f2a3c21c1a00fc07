-------------------------- MODULE MCPilotSynthesis --------------------------
(* One key, two requests that use it: keys do not interact, requests for   *)
(* one key do.                                                             *)
EXTENDS PilotSynthesis, TLC

MCOwners == Requests
MCSubjects == Runs \cup Requests
MCFacts == {"certificate", "applied"} \cup Outcomes
MCResponses == {Rejected, Infeasible} \cup {Success(r) : r \in Runs}
MCSymmetry == Permutations(Threads) \cup Permutations(Runs) \cup Permutations(Digests)
=============================================================================
