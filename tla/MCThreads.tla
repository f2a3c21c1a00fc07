------------------------------ MODULE MCThreads ------------------------------
(***************************************************************************)
(* What threads of one process have to finish: the request threads inside  *)
(* an orchestrator, and the runner threads of the job worker.  The two     *)
(* share nothing, and each has a state space of its own: focus, chosen     *)
(* once, says which of them runs; the other stays as it starts.            *)
(*   orchestrator: two request threads, the v2 orchestrator with all its   *)
(*     operations but abort, two migrations; mutations may raise after     *)
(*     they took effect.                                                   *)
(*   jobs: two jobs for one worker thread, two clients that cancel either. *)
(***************************************************************************)
EXTENDS MCAdaptationOrchestrator, JobWorker

\* A runner thread is named by its job; here, as the request threads are.
ASSUME RunnersAssumption == Jobs = Threads

VARIABLE focus

threadsVars == <<focus, orchestratorVars, jobVars>>

ThreadsInit ==
    /\ focus \in {"orchestrator", "jobs"}
    /\ BoundInit /\ JobInit

ThreadsNext ==
    /\ UNCHANGED focus
    /\ \/ focus = "orchestrator" /\ OrchestratorNext /\ UNCHANGED jobVars
       \/ focus = "jobs" /\ JobNext /\ UNCHANGED orchestratorVars

\* A step of the code that a thread is in, and not of what clients ask for.
GoesOn(t) ==
    /\ UNCHANGED focus
    /\ \/ focus = "orchestrator" /\ Step(t) /\ UNCHANGED jobVars
       \/ focus = "jobs" /\ Run(t) /\ UNCHANGED orchestratorVars

\* A thread that can go on does, whatever the others do.
ThreadsSpec ==
    /\ ThreadsInit
    /\ [][ThreadsNext]_threadsVars
    /\ \A t \in Threads : WF_threadsVars(GoesOn(t))
=============================================================================
