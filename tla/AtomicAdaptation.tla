-------------------------- MODULE AtomicAdaptation --------------------------
(***************************************************************************)
(* What SafeAdaptationOrchestrator promises its callers for commits: the   *)
(* migration ledger, the runtime session and the routed deployment change  *)
(* in one step, or a failed commit changes none of them, or - when the     *)
(* compensation itself fails - the session is known to be inconsistent.    *)
(***************************************************************************)
CONSTANTS Sessions, Deployments, Candidates, Migrations,
          NoCandidate, NoMigration, NoDeployment,
          Split     \* a session whose failed compensation was reported

VARIABLES
    current,        \* session -> the candidate it runs, or Split, or NoCandidate
    routed,         \* deployment -> the candidate its readers get, or NoCandidate
    home,           \* session -> its deployment
    ledger          \* migration -> NoMigration or a record

vars == <<current, routed, home, ledger>>

InLedger(m, state) == ledger[m] # NoMigration /\ ledger[m].state = state
Move(m, state) == ledger' = [ledger EXCEPT ![m].state = state]

\* A session is started, a deployment bootstrapped; neither has a home yet.
Begin(s, candidate) ==
    /\ current[s] = NoCandidate
    /\ current' = [current EXCEPT ![s] = candidate]
    /\ UNCHANGED <<routed, home, ledger>>

Deploy(d, candidate) ==
    /\ routed[d] = NoCandidate
    /\ routed' = [routed EXCEPT ![d] = candidate]
    /\ UNCHANGED <<current, home, ledger>>

Open(m, s, from, to) ==
    /\ ledger[m] = NoMigration
    /\ from # to
    /\ ledger' = [ledger EXCEPT ![m] =
                      [session |-> s, from |-> from, to |-> to, state |-> "open"]]
    /\ UNCHANGED <<current, routed, home>>

\* An aborted migration, or one whose commit was compensated.
Close(m, state) ==
    /\ InLedger(m, "open")
    /\ state \in {"aborted", "rolledBack"}
    /\ Move(m, state)
    /\ UNCHANGED <<current, routed, home>>

\* The commit: all three at once, from the source and to the target.
Switch(m) ==
    /\ InLedger(m, "open")
    /\ LET s == ledger[m].session IN
       /\ current[s] = ledger[m].from
       /\ current' = [current EXCEPT ![s] = ledger[m].to]
       /\ IF home[s] = NoDeployment
          THEN UNCHANGED routed
          ELSE /\ routed[home[s]] = ledger[m].from
               /\ routed' = [routed EXCEPT ![home[s]] = ledger[m].to]
    /\ Move(m, "committed")
    /\ UNCHANGED home

\* The caller is told that compensation did not restore the source; until
\* an operator repairs it, nothing is promised of the session and its route.
Lose(s) ==
    /\ current' = [current EXCEPT ![s] = Split]
    /\ \E candidate \in Candidates :
           routed' = [d \in Deployments |-> IF d = home[s] THEN candidate ELSE routed[d]]
    /\ \/ UNCHANGED ledger
       \/ \E m \in Migrations, state \in {"committed", "rolledBack"} :
              InLedger(m, "open") /\ ledger[m].session = s /\ Move(m, state)
    /\ UNCHANGED home

Next ==
    \/ \E s \in Sessions, candidate \in Candidates : Begin(s, candidate)
    \/ \E d \in Deployments, candidate \in Candidates : Deploy(d, candidate)
    \/ \E m \in Migrations, s \in Sessions, from, to \in Candidates : Open(m, s, from, to)
    \/ \E m \in Migrations, state \in {"aborted", "rolledBack"} : Close(m, state)
    \/ \E m \in Migrations : Switch(m)
    \/ \E s \in Sessions : Lose(s)

Init ==
    /\ current \in [Sessions -> Candidates \cup {NoCandidate}]
    /\ routed \in [Deployments -> Candidates \cup {NoCandidate}]
    /\ home \in [Sessions -> Deployments \cup {NoDeployment}]
    /\ \A s \in Sessions : home[s] # NoDeployment =>
           routed[home[s]] = current[s] /\ current[s] # NoCandidate
    /\ ledger = [m \in Migrations |-> NoMigration]

Spec == Init /\ [][Next]_vars
=============================================================================
