------------------------------ MODULE JobWorker ------------------------------
(***************************************************************************)
(* backend/app/job_worker.py, LocalBoundedJobWorker.  Each job is run by a *)
(* thread of a bounded executor that drives one child process; clients     *)
(* submit, cancel and shut down from other threads.  A step is a block     *)
(* under the worker's lock, or a call that blocks or may raise outside it. *)
(* Commands, files, output and times are left out: a deadline may pass at  *)
(* any moment while the child is alive.                                    *)
(***************************************************************************)
EXTENDS Integers, FiniteSets

CONSTANTS
    Jobs,           \* job ids, each submitted once
    Clients,        \* threads inside cancel
    MaxWorkers,
    NoJob

ASSUME MaxWorkersAssumption == MaxWorkers \in 1 .. 32

VARIABLES
    job,            \* _jobs
    runner,         \* where _run of each job is, and its terminal_state
    process,        \* the child process of each job, as the operating system has it
    client,         \* the job whose child a cancel is about to terminate
    open,           \* the executor accepts work
    wanted          \* history: cancelled before its child had ended

jobVars == <<job, runner, process, client, open, wanted>>

Terminal == {"SUCCEEDED", "FAILED", "TIMED_OUT", "CANCELLED"}

JobRecords ==
    [ state            : {"QUEUED", "RUNNING"} \cup Terminal,
      cancelled        : BOOLEAN,      \* cancel_event
      visible          : BOOLEAN,      \* process is not None
      workspaceDeleted : BOOLEAN ]

Places == {"none", "submit", "queued", "workspace", "spawn", "publish", "communicate",
           "terminate", "drain", "finish", "fail", "flag", "done", "dropped", "lost"}

Runners == [at : Places, verdict : Terminal \cup {"none"}]

ASSUME NoJobAssumption == NoJob \notin Jobs \cup JobRecords

JobAt(j, label) == runner[j].at = label
Known(j) == job[j] # NoJob
Ended(j) == Known(j) /\ job[j].state \in Terminal
Alive(j) == process[j] = "alive"

\* The threads of the executor that are inside _run.
Working == {j \in Jobs : runner[j].at \notin {"none", "submit", "queued", "done", "dropped", "lost"}}

(***************************************************************************)
(* Types; a visible child exists and its job has not ended, and a job that *)
(* has not begun has no child.                                             *)
(***************************************************************************)
JobTypeOK ==
    /\ job \in [Jobs -> JobRecords \cup {NoJob}]
    /\ runner \in [Jobs -> Runners]
    /\ process \in [Jobs -> {"none", "alive", "zero", "nonzero"}]
    /\ client \in [Clients -> Jobs \cup {NoJob}]
    /\ open \in BOOLEAN
    /\ wanted \subseteq Jobs
    /\ \A j \in Jobs : Known(j) => /\ job[j].visible => process[j] # "none" /\ ~Ended(j)
                                   /\ job[j].state = "QUEUED" => process[j] = "none"

-----------------------------------------------------------------------------
\* submit: the table first, then the executor, which refuses after shutdown.
Submit(j) ==
    /\ ~Known(j)
    /\ job' = [job EXCEPT ![j] = [ state |-> "QUEUED", cancelled |-> FALSE, visible |-> FALSE,
                                   workspaceDeleted |-> FALSE ]]
    /\ runner' = [runner EXCEPT ![j].at = "submit"]
    /\ UNCHANGED <<process, client, open, wanted>>

Enqueue(j) ==
    /\ JobAt(j, "submit")
    /\ runner' = [runner EXCEPT ![j].at = IF open THEN "queued" ELSE "dropped"]
    /\ UNCHANGED <<job, process, client, open, wanted>>

\* shutdown: the futures that no thread has taken are cancelled.
Shutdown ==
    /\ open
    /\ open' = FALSE
    /\ runner' = [j \in Jobs |->
           IF JobAt(j, "queued") THEN [runner[j] EXCEPT !.at = "dropped"] ELSE runner[j]]
    /\ UNCHANGED <<job, process, client, wanted>>

\* Seeded fault: cancel ends the job itself.
Cancel_EndsJob(c, j) ==
    /\ client[c] = NoJob
    /\ Known(j) /\ ~Ended(j)
    /\ job' = [job EXCEPT ![j].cancelled = TRUE, ![j].state = "CANCELLED", ![j].visible = FALSE]
    /\ wanted' = IF process[j] \in {"none", "alive"} THEN wanted \cup {j} ELSE wanted
    /\ client' = [client EXCEPT ![c] = IF job[j].visible THEN j ELSE NoJob]
    /\ UNCHANGED <<runner, process, open>>

\* cancel, its block under the lock; nothing happens to a job that has ended.
Cancel(c, j) ==
    /\ client[c] = NoJob
    /\ Known(j) /\ ~Ended(j)
    /\ job' = [job EXCEPT ![j].cancelled = TRUE]
    /\ wanted' = IF process[j] \in {"none", "alive"} THEN wanted \cup {j} ELSE wanted
    /\ client' = [client EXCEPT ![c] = IF job[j].visible THEN j ELSE NoJob]
    /\ UNCHANGED <<runner, process, open>>

\* _terminate: SIGTERM, then SIGKILL; the child may have a handler that exits
\* 0.  A child that outlives SIGKILL by a second is not modelled.
Kill(j) == \E code \in {"zero", "nonzero"} :
    process' = IF Alive(j) THEN [process EXCEPT ![j] = code] ELSE process

CancelKills(c) ==
    /\ client[c] # NoJob
    /\ Kill(client[c])
    /\ client' = [client EXCEPT ![c] = NoJob]
    /\ UNCHANGED <<job, runner, open, wanted>>

\* The child ends by itself.
Exit(j) ==
    /\ Alive(j)
    /\ Kill(j)
    /\ UNCHANGED <<job, runner, client, open, wanted>>

-----------------------------------------------------------------------------
(* _run *)

Begin(j) ==
    /\ JobAt(j, "queued")
    /\ Cardinality(Working) < MaxWorkers
    /\ IF job[j].cancelled
       THEN /\ job' = [job EXCEPT ![j].state = "CANCELLED"]
            /\ runner' = [runner EXCEPT ![j].at = "done"]
       ELSE /\ job' = [job EXCEPT ![j].state = "RUNNING"]
            /\ runner' = [runner EXCEPT ![j].at = "workspace"]
    /\ UNCHANGED <<process, client, open, wanted>>

\* TemporaryDirectory is created outside the try: if it raises, the future
\* keeps the exception and the job stays RUNNING.
MakeWorkspace(j) ==
    /\ JobAt(j, "workspace")
    /\ \E label \in {"spawn", "lost"} : runner' = [runner EXCEPT ![j].at = label]
    /\ UNCHANGED <<job, process, client, open, wanted>>

Spawn(j) ==
    /\ JobAt(j, "spawn")
    /\ \/ /\ process' = [process EXCEPT ![j] = "alive"]
          /\ runner' = [runner EXCEPT ![j].at = "publish"]
       \/ /\ runner' = [runner EXCEPT ![j].at = "fail"]
          /\ UNCHANGED process
    /\ UNCHANGED <<job, client, open, wanted>>

\* Seeded fault: cancel_event is not read again after the spawn.
Publish_NoRecheck(j) ==
    /\ JobAt(j, "publish")
    /\ job' = [job EXCEPT ![j].visible = TRUE]
    /\ runner' = [runner EXCEPT ![j].at = "communicate"]
    /\ UNCHANGED <<process, client, open, wanted>>

Publish(j) ==
    /\ JobAt(j, "publish")
    /\ job' = [job EXCEPT ![j].visible = TRUE]
    /\ runner' = [runner EXCEPT ![j].at = IF job[j].cancelled THEN "terminate" ELSE "communicate"]
    /\ UNCHANGED <<process, client, open, wanted>>

Judged(j, otherwise) == IF job[j].cancelled THEN "CANCELLED" ELSE otherwise

\* The child has ended, and its output can be decoded or it cannot.
Ends(j) ==
    /\ ~Alive(j)
    /\ \/ runner' = [runner EXCEPT ![j] = [at |-> "finish", verdict |->
              Judged(j, IF process[j] = "zero" THEN "SUCCEEDED" ELSE "FAILED")]]
       \/ runner' = [runner EXCEPT ![j].at = "fail"]

\* Seeded fault: a child past its deadline is left to itself.
Communicate_LeavesChild(j) ==
    /\ JobAt(j, "communicate")
    /\ Ends(j) \/ runner' = [runner EXCEPT ![j].at = "drain"]
    /\ UNCHANGED <<job, process, client, open, wanted>>

\* Seeded fault: the child is waited for without a deadline.
Communicate_NoDeadline(j) ==
    /\ JobAt(j, "communicate")
    /\ Ends(j)
    /\ UNCHANGED <<job, process, client, open, wanted>>

\* communicate(timeout): the child ends, or the deadline passes.  A descendant
\* that holds the pipes can keep it waiting for a child that has ended.
Communicate(j) ==
    /\ JobAt(j, "communicate")
    /\ Ends(j) \/ runner' = [runner EXCEPT ![j].at = "terminate"]
    /\ UNCHANGED <<job, process, client, open, wanted>>

Terminate(j) ==
    /\ JobAt(j, "terminate")
    /\ Kill(j)
    /\ runner' = [runner EXCEPT ![j].at = "drain"]
    /\ UNCHANGED <<job, client, open, wanted>>

\* Seeded fault: whoever passes the deadline has timed out.
Drain_TimedOut(j) ==
    /\ JobAt(j, "drain")
    /\ runner' = [runner EXCEPT ![j] = [at |-> "finish", verdict |-> "TIMED_OUT"]]
    /\ UNCHANGED <<job, process, client, open, wanted>>

\* communicate(timeout=2) raises when a descendant still holds the pipes.
Drain(j) ==
    /\ JobAt(j, "drain")
    /\ \/ runner' = [runner EXCEPT ![j] = [at |-> "finish", verdict |-> Judged(j, "TIMED_OUT")]]
       \/ runner' = [runner EXCEPT ![j].at = "fail"]
    /\ UNCHANGED <<job, process, client, open, wanted>>

\* Seeded fault: the handle of the child outlives the job.
End_KeepsProcess(j, state) ==
    /\ job' = [job EXCEPT ![j].state = state]
    /\ runner' = [runner EXCEPT ![j].at = "flag"]
    /\ UNCHANGED <<process, client, open, wanted>>

End(j, state) ==
    /\ job' = [job EXCEPT ![j].state = state, ![j].visible = FALSE]
    /\ runner' = [runner EXCEPT ![j].at = "flag"]
    /\ UNCHANGED <<process, client, open, wanted>>

Finish(j) == JobAt(j, "finish") /\ End(j, runner[j].verdict)
Fail(j) == JobAt(j, "fail") /\ End(j, Judged(j, "FAILED"))

\* The finally clause, still inside the TemporaryDirectory block.
FlagWorkspace(j) ==
    /\ JobAt(j, "flag")
    /\ job' = [job EXCEPT ![j].workspaceDeleted = TRUE]
    /\ runner' = [runner EXCEPT ![j].at = "done"]
    /\ UNCHANGED <<process, client, open, wanted>>

Run(j) ==
    \/ Begin(j) \/ MakeWorkspace(j) \/ Spawn(j) \/ Publish(j) \/ Communicate(j)
    \/ Terminate(j) \/ Drain(j) \/ Finish(j) \/ Fail(j) \/ FlagWorkspace(j)

-----------------------------------------------------------------------------
JobInit ==
    /\ job = [j \in Jobs |-> NoJob]
    /\ runner = [j \in Jobs |-> [at |-> "none", verdict |-> "none"]]
    /\ process = [j \in Jobs |-> "none"]
    /\ client = [c \in Clients |-> NoJob]
    /\ open = TRUE
    /\ wanted = {}

JobNext ==
    \/ \E j \in Jobs : Submit(j) \/ Enqueue(j) \/ Exit(j) \/ Run(j)
    \/ \E c \in Clients : CancelKills(c) \/ \E j \in Jobs : Cancel(c, j)
    \/ Shutdown

\* The executor's threads run; clients, children and shutdown owe nothing.
JobSpec == JobInit /\ [][JobNext]_jobVars /\ \A j \in Jobs : WF_jobVars(Run(j))

-----------------------------------------------------------------------------
(***************************************************************************)
(* Where cancel and the publication of the child meet: while the runner    *)
(* waits for a live child of a cancelled job, a client is about to kill    *)
(* it.  Otherwise the cancellation would be lost until the deadline.       *)
(***************************************************************************)
CancelReachesChild ==
    \A j \in Jobs :
        JobAt(j, "communicate") /\ job[j].cancelled /\ Alive(j) => \E c \in Clients : client[c] = j

(***************************************************************************)
(* A job that was cancelled before its child ended is reported CANCELLED,  *)
(* whichever of exit, deadline, kill and failure the runner sees first.    *)
(***************************************************************************)
CancelDecides == \A j \in wanted : Ended(j) => job[j].state = "CANCELLED"

\* No child outlives the end of its job that clients see.
NoChildLeft == \A j \in Jobs : Ended(j) => ~Alive(j)

\* What a client has seen of an ended job stays so.
EndIsFinal ==
    [][\A j \in Jobs : Ended(j) => Ended(j)' /\ job'[j].state = job[j].state]_jobVars

\* The executor has taken the job in, and clients do not see its end yet.
UnderWay(j) == ~Ended(j) /\ runner[j].at \notin {"none", "submit", "dropped", "lost"}

(***************************************************************************)
(* A job that the executor has taken in ends, even if its child never      *)
(* does, unless the worker is shut down before it begins or its workspace  *)
(* cannot be created.  (No job is taken in twice.)                         *)
(***************************************************************************)
JobsEnd == \A j \in Jobs : []<>~UnderWay(j)

=============================================================================
