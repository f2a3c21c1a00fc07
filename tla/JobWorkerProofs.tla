--------------------------- MODULE JobWorkerProofs ---------------------------
(***************************************************************************)
(* What LocalBoundedJobWorker (backend/app/job_worker.py) promises of a    *)
(* cancelled and of an ended job, for any number of jobs, clients and      *)
(* workers.                                                                *)
(***************************************************************************)
EXTENDS JobWorker, TLAPS

(***************************************************************************)
(* The inductive invariant.  The runner's place determines the state that  *)
(* clients see and how far the child is; from finish on the child has      *)
(* ended, so nobody joins wanted any more and the verdict stands.          *)
(***************************************************************************)
QueuedOK(j) ==
    runner[j].at \in {"submit", "queued", "dropped"} =>
        job[j].state = "QUEUED" /\ process[j] = "none" /\ ~job[j].visible

BegunOK(j) ==
    runner[j].at \in {"workspace", "spawn", "publish", "communicate", "terminate",
                      "drain", "finish", "fail", "lost"} => job[j].state = "RUNNING"

ChildOK(j) ==
    /\ runner[j].at \in {"workspace", "spawn", "lost"} => process[j] = "none"
    /\ runner[j].at \in {"publish", "communicate", "terminate", "drain", "finish"} =>
           process[j] # "none"
    /\ runner[j].at \in {"drain", "finish", "fail", "flag", "done"} => process[j] # "alive"
    /\ job[j].visible => process[j] # "none" /\ job[j].state \notin Terminal
    /\ runner[j].at = "communicate" => job[j].visible

VerdictOK(j) ==
    runner[j].at = "finish" =>
        /\ runner[j].verdict \in Terminal
        /\ j \in wanted => runner[j].verdict = "CANCELLED"

EndOK(j) ==
    /\ runner[j].at \in {"flag", "done"} => job[j].state \in Terminal
    /\ job[j].state \in Terminal => runner[j].at \in {"flag", "done"}
    /\ j \in wanted => job[j].cancelled
    /\ j \in wanted /\ job[j].state \in Terminal => job[j].state = "CANCELLED"

JobOK(j) ==
    /\ runner[j].at = "none" => ~Known(j) /\ process[j] = "none" /\ j \notin wanted
    /\ runner[j].at # "none" =>
           Known(j) /\ QueuedOK(j) /\ BegunOK(j) /\ ChildOK(j) /\ VerdictOK(j) /\ EndOK(j)

JobTypes ==
    /\ job \in [Jobs -> JobRecords \cup {NoJob}]
    /\ runner \in [Jobs -> Runners]
    /\ process \in [Jobs -> {"none", "alive", "zero", "nonzero"}]
    /\ client \in [Clients -> Jobs \cup {NoJob}]
    /\ open \in BOOLEAN
    /\ wanted \subseteq Jobs

JobInv ==
    /\ JobTypes
    /\ CancelReachesChild
    /\ \A j \in Jobs : JobOK(j)

-----------------------------------------------------------------------------
\* The invariant gives what the runs check.
LEMMA JobInvGives == JobInv => JobTypeOK /\ CancelDecides /\ NoChildLeft
<1> SUFFICES ASSUME JobInv PROVE JobTypeOK /\ CancelDecides /\ NoChildLeft
  OBVIOUS
<1>1. \A j \in Jobs : Known(j) => ChildOK(j) /\ EndOK(j) /\ QueuedOK(j) /\ BegunOK(j)
                                  /\ runner[j].at # "none"
  BY DEF JobInv, JobOK
<1>2. \A j \in Jobs : runner[j] \in Runners /\ process[j] \in {"none", "alive", "zero", "nonzero"}
                      /\ (Known(j) => job[j] \in JobRecords)
  BY DEF JobInv, JobTypes, Known
<1>3. ASSUME NEW j \in Jobs, Known(j)
      PROVE  /\ job[j].visible => process[j] # "none" /\ ~Ended(j)
             /\ job[j].state = "QUEUED" => process[j] = "none"
  BY <1>1, <1>2, <1>3
     DEF ChildOK, EndOK, QueuedOK, BegunOK, Ended, Terminal, Runners, Places, JobRecords
<1>4. JobTypeOK
  BY <1>3 DEF JobInv, JobTypes, JobTypeOK
<1>5. CancelDecides
  BY <1>1 DEF CancelDecides, Ended, EndOK, JobInv, JobTypes
<1>6. NoChildLeft
  BY <1>1 DEF NoChildLeft, Ended, EndOK, ChildOK, Alive
<1> QED BY <1>4, <1>5, <1>6

\* No job, no runner, no child.
LEMMA JobInvInit == JobInit => JobInv
<1> SUFFICES ASSUME JobInit PROVE JobInv
  OBVIOUS
<1>1. JobTypes
  BY DEF JobInit, JobTypes, Runners, Places
<1>2. CancelReachesChild
  BY DEF JobInit, CancelReachesChild, JobAt
<1>3. \A j \in Jobs : JobOK(j)
  BY DEF JobInit, JobOK, Known
<1> QED BY <1>1, <1>2, <1>3 DEF JobInv

(***************************************************************************)
(* A step of one job's runner, child or record: it is enough that the job  *)
(* itself stays in order and does not begin to wait for a child that a     *)
(* cancel has missed.                                                      *)
(***************************************************************************)
LEMMA OneJob ==
    ASSUME JobInv, NEW j \in Jobs, JobTypes', JobOK(j)', UNCHANGED client,
           \A k \in Jobs \ {j} :
               /\ job'[k] = job[k] /\ runner'[k] = runner[k] /\ process'[k] = process[k]
               /\ k \in wanted' <=> k \in wanted,
           (JobAt(j, "communicate") /\ job[j].cancelled /\ Alive(j))' =>
               JobAt(j, "communicate") /\ job[j].cancelled /\ Alive(j)
    PROVE  JobInv'
<1>1. ASSUME NEW k \in Jobs PROVE JobOK(k)'
  <2>1. CASE k = j
    BY <2>1
  <2>2. CASE k # j
    <3>1. JobOK(k)
      BY DEF JobInv
    <3> QED BY <2>2, <3>1
            DEF JobOK, Known, QueuedOK, BegunOK, ChildOK, VerdictOK, EndOK
  <2> QED BY <2>1, <2>2
<1>2. CancelReachesChild'
  BY DEF JobInv, CancelReachesChild, JobAt, Alive
<1> QED BY <1>1, <1>2 DEF JobInv

\* What the invariant says of one job, in the form the steps below use.
LEMMA JobFacts ==
    ASSUME JobInv, NEW j \in Jobs
    PROVE  /\ JobTypes
           /\ JobOK(j)
           /\ runner[j] \in Runners
           /\ runner[j].at # "none" => Known(j)
           /\ Known(j) => runner[j].at # "none"
           /\ Known(j) => job[j] \in JobRecords
BY DEF JobInv, JobTypes, JobOK, Known

(***************************************************************************)
(* A record that is written for one job, and a runner that moves: the      *)
(* other jobs and the types stay.                                          *)
(***************************************************************************)
LEMMA Recorded ==
    ASSUME JobInv, NEW j \in Jobs, NEW r \in JobRecords, job' = [job EXCEPT ![j] = r]
    PROVE  /\ job' \in [Jobs -> JobRecords \cup {NoJob}]
           /\ job'[j] = r /\ r # NoJob
           /\ \A k \in Jobs \ {j} : job'[k] = job[k]
BY NoJobAssumption DEF JobInv, JobTypes

LEMMA Stepped ==
    ASSUME JobInv, NEW j \in Jobs, NEW q \in Runners, runner' = [runner EXCEPT ![j] = q]
    PROVE  /\ runner' \in [Jobs -> Runners]
           /\ runner'[j] = q
           /\ \A k \in Jobs \ {j} : runner'[k] = runner[k]
BY DEF JobInv, JobTypes

LEMMA Moved ==
    ASSUME JobInv, NEW j \in Jobs, NEW p \in Places, runner' = [runner EXCEPT ![j].at = p]
    PROVE  /\ runner' \in [Jobs -> Runners]
           /\ runner'[j].at = p /\ runner'[j].verdict = runner[j].verdict
           /\ \A k \in Jobs \ {j} : runner'[k] = runner[k]
<1> DEFINE q == [runner[j] EXCEPT !.at = p]
<1>1. q \in Runners /\ q.at = p /\ q.verdict = runner[j].verdict
  BY DEF JobInv, JobTypes, Runners
<1>2. runner' = [runner EXCEPT ![j] = q]
  OBVIOUS
<1> HIDE DEF q
<1> QED BY <1>1, <1>2, Stepped

LEMMA Child ==
    ASSUME JobInv, NEW j \in Jobs, NEW p \in {"alive", "zero", "nonzero"},
           process' = [process EXCEPT ![j] = p]
    PROVE  /\ process' \in [Jobs -> {"none", "alive", "zero", "nonzero"}]
           /\ process'[j] = p
           /\ \A k \in Jobs \ {j} : process'[k] = process[k]
BY DEF JobInv, JobTypes

-----------------------------------------------------------------------------
\* submit and its second half.
LEMMA SubmitInv == ASSUME JobInv, NEW j \in Jobs, Submit(j) PROVE JobInv'
<1> DEFINE new == [ state |-> "QUEUED", cancelled |-> FALSE, visible |-> FALSE,
                    workspaceDeleted |-> FALSE ]
<1>1. new \in JobRecords /\ new.state = "QUEUED" /\ new.visible = FALSE
  BY DEF JobRecords
<1>2. runner[j].at = "none" /\ process[j] = "none" /\ j \notin wanted
  BY JobFacts DEF Submit, JobOK
<1>3. job' = [job EXCEPT ![j] = new] /\ runner' = [runner EXCEPT ![j].at = "submit"]
      /\ UNCHANGED <<process, client, open, wanted>>
  BY DEF Submit
<1> HIDE DEF new
<1>4. /\ job'[j] = new /\ job'[j] # NoJob /\ runner'[j].at = "submit"
      /\ \A k \in Jobs \ {j} : job'[k] = job[k] /\ runner'[k] = runner[k]
      /\ job' \in [Jobs -> JobRecords \cup {NoJob}] /\ runner' \in [Jobs -> Runners]
  <2>1. "submit" \in Places
    BY DEF Places
  <2> QED BY <1>1, <1>3, <2>1, Recorded, Moved
<1>5. JobTypes'
  BY <1>3, <1>4, JobFacts DEF JobTypes
<1>6. JobOK(j)'
  BY <1>1, <1>2, <1>3, <1>4
     DEF JobOK, Known, QueuedOK, BegunOK, ChildOK, VerdictOK, EndOK, Terminal
<1> QED BY <1>3, <1>4, <1>5, <1>6, OneJob DEF JobAt

LEMMA EnqueueInv == ASSUME JobInv, NEW j \in Jobs, Enqueue(j) PROVE JobInv'
<1>1. /\ runner'[j].at \in {"queued", "dropped"} /\ runner' \in [Jobs -> Runners]
      /\ \A k \in Jobs \ {j} : runner'[k] = runner[k]
      /\ UNCHANGED <<job, process, client, open, wanted>>
  BY Moved DEF Enqueue, Places
<1>2. JobTypes'
  BY <1>1, JobFacts DEF JobTypes
<1>3. JobOK(j)'
  BY <1>1, JobFacts
     DEF Enqueue, JobAt, JobOK, Known, QueuedOK, BegunOK, ChildOK, VerdictOK, EndOK, Terminal
<1> QED BY <1>1, <1>2, <1>3, OneJob DEF JobAt

-----------------------------------------------------------------------------
(* The steps of the runner.  In each lemma a first step says what the      *)
(* action does to job j, and the others follow from it.                    *)

\* A job is begun, or it was cancelled in the queue.
LEMMA BeginInv == ASSUME JobInv, NEW j \in Jobs, Begin(j) PROVE JobInv'
<1>1. /\ runner' \in [Jobs -> Runners]
      /\ \A k \in Jobs \ {j} : runner'[k] = runner[k]
      /\ job' \in [Jobs -> JobRecords \cup {NoJob}]
      /\ \A k \in Jobs \ {j} : job'[k] = job[k]
      /\ Known(j)'
      /\ job'[j].cancelled = job[j].cancelled /\ job'[j].visible = job[j].visible
      /\ \/ job[j].cancelled /\ job'[j].state = "CANCELLED" /\ runner'[j].at = "done"
         \/ job'[j].state = "RUNNING" /\ runner'[j].at = "workspace"
      /\ UNCHANGED <<process, client, open, wanted>>
  <2> DEFINE state == IF job[j].cancelled THEN "CANCELLED" ELSE "RUNNING"
             next  == IF job[j].cancelled THEN "done" ELSE "workspace"
             new   == [job[j] EXCEPT !.state = state]
  <2>1. job[j] \in JobRecords
    BY JobFacts DEF Begin, JobAt
  <2>2. new \in JobRecords /\ new.cancelled = job[j].cancelled /\ new.visible = job[j].visible
        /\ new.state = state
    BY <2>1 DEF JobRecords, Terminal
  <2>3. job' = [job EXCEPT ![j] = new] /\ runner' = [runner EXCEPT ![j].at = next]
        /\ UNCHANGED <<process, client, open, wanted>>
    BY DEF Begin
  <2>4. next \in Places
    BY DEF Places
  <2>5. \/ job[j].cancelled /\ state = "CANCELLED" /\ next = "done"
        \/ state = "RUNNING" /\ next = "workspace"
    OBVIOUS
  <2> HIDE DEF new, next, state
  <2> QED BY <2>2, <2>3, <2>4, <2>5, Recorded, Moved DEF Known
<1>2. JobTypes'
  BY <1>1, JobFacts DEF JobTypes
<1>3. JobOK(j)'
  BY <1>1, JobFacts
     DEF Begin, JobAt, Alive, JobOK, Known, QueuedOK, BegunOK, ChildOK, VerdictOK, EndOK, Terminal
<1> QED BY <1>1, <1>2, <1>3, OneJob DEF JobAt, Alive

\* The workspace is there, or the runner is gone and its job RUNNING for good.
LEMMA MakeWorkspaceInv == ASSUME JobInv, NEW j \in Jobs, MakeWorkspace(j) PROVE JobInv'
<1>1. /\ runner' \in [Jobs -> Runners]
      /\ \A k \in Jobs \ {j} : runner'[k] = runner[k]
      /\ runner'[j].at \in {"spawn", "lost"}
      /\ UNCHANGED <<job, process, client, open, wanted>>
  BY Moved DEF MakeWorkspace, Places
<1>2. JobTypes'
  BY <1>1, JobFacts DEF JobTypes
<1>3. JobOK(j)'
  BY <1>1, JobFacts
     DEF MakeWorkspace, JobAt, Alive, JobOK, Known, QueuedOK, BegunOK, ChildOK, VerdictOK, EndOK,
         Terminal
<1> QED BY <1>1, <1>2, <1>3, OneJob DEF JobAt, Alive

\* The child exists from here on.
LEMMA SpawnInv == ASSUME JobInv, NEW j \in Jobs, Spawn(j) PROVE JobInv'
<1>1. /\ runner' \in [Jobs -> Runners]
      /\ \A k \in Jobs \ {j} : runner'[k] = runner[k]
      /\ process' \in [Jobs -> {"none", "alive", "zero", "nonzero"}]
      /\ \A k \in Jobs \ {j} : process'[k] = process[k]
      /\ \/ process'[j] = "alive" /\ runner'[j].at = "publish"
         \/ process'[j] = process[j] /\ runner'[j].at = "fail"
      /\ UNCHANGED <<job, client, open, wanted>>
  <2>1. CASE process' = [process EXCEPT ![j] = "alive"]
             /\ runner' = [runner EXCEPT ![j].at = "publish"]
    BY <2>1, Moved, Child DEF Spawn, Places
  <2>2. CASE UNCHANGED process /\ runner' = [runner EXCEPT ![j].at = "fail"]
    BY <2>2, Moved, JobFacts DEF Spawn, Places, JobTypes
  <2> QED BY <2>1, <2>2 DEF Spawn
<1>2. JobTypes'
  BY <1>1, JobFacts DEF JobTypes
<1>3. JobOK(j)'
  BY <1>1, JobFacts
     DEF Spawn, JobAt, Alive, JobOK, Known, QueuedOK, BegunOK, ChildOK, VerdictOK, EndOK, Terminal
<1> QED BY <1>1, <1>2, <1>3, OneJob DEF JobAt, Alive

\* The child is dead from here on.
LEMMA TerminateInv == ASSUME JobInv, NEW j \in Jobs, Terminate(j) PROVE JobInv'
<1>1. /\ runner' \in [Jobs -> Runners]
      /\ \A k \in Jobs \ {j} : runner'[k] = runner[k]
      /\ process' \in [Jobs -> {"none", "alive", "zero", "nonzero"}]
      /\ \A k \in Jobs \ {j} : process'[k] = process[k]
      /\ runner'[j].at = "drain" /\ process'[j] \in {"zero", "nonzero"}
      /\ UNCHANGED <<job, client, open, wanted>>
  <2>1. CASE Alive(j)
    BY <2>1, Moved, Child DEF Terminate, Kill, Places
  <2>2. CASE ~Alive(j)
    <3>1. process[j] \in {"zero", "nonzero"}
      BY <2>2, JobFacts DEF Terminate, JobAt, Alive, JobTypes, JobOK, ChildOK
    <3> QED BY <2>2, <3>1, Moved, JobFacts DEF Terminate, Kill, Places, JobTypes
  <2> QED BY <2>1, <2>2
<1>2. JobTypes'
  BY <1>1, JobFacts DEF JobTypes
<1>3. JobOK(j)'
  BY <1>1, JobFacts
     DEF Terminate, JobAt, Alive, JobOK, Known, QueuedOK, BegunOK, ChildOK, VerdictOK, EndOK, Terminal
<1> QED BY <1>1, <1>2, <1>3, OneJob DEF JobAt, Alive

\* The verdict on a child that was killed.
LEMMA DrainInv == ASSUME JobInv, NEW j \in Jobs, Drain(j) PROVE JobInv'
<1>1. /\ runner' \in [Jobs -> Runners]
      /\ \A k \in Jobs \ {j} : runner'[k] = runner[k]
      /\ \/ runner'[j].at = "fail"
         \/ /\ runner'[j].at = "finish"
            /\ runner'[j].verdict = IF job[j].cancelled THEN "CANCELLED" ELSE "TIMED_OUT"
      /\ UNCHANGED <<job, process, client, open, wanted>>
  <2> DEFINE q == [at |-> "finish", verdict |-> Judged(j, "TIMED_OUT")]
  <2>1. q \in Runners /\ q.at = "finish"
        /\ q.verdict = IF job[j].cancelled THEN "CANCELLED" ELSE "TIMED_OUT"
    BY DEF Runners, Places, Terminal, Judged
  <2>2. \/ runner' = [runner EXCEPT ![j] = q]
        \/ runner' = [runner EXCEPT ![j].at = "fail"]
    BY DEF Drain
  <2> HIDE DEF q
  <2> QED BY <2>1, <2>2, Stepped, Moved DEF Drain, Places
<1>2. JobTypes'
  BY <1>1, JobFacts DEF JobTypes
<1>3. JobOK(j)'
  BY <1>1, JobFacts
     DEF Drain, JobAt, Alive, JobOK, Known, QueuedOK, BegunOK, ChildOK, VerdictOK, EndOK, Terminal
<1> QED BY <1>1, <1>2, <1>3, OneJob DEF JobAt, Alive

\* The verdict on a child that has ended, or the end of the wait.
LEMMA CommunicateInv == ASSUME JobInv, NEW j \in Jobs, Communicate(j) PROVE JobInv'
<1>1. /\ runner' \in [Jobs -> Runners]
      /\ \A k \in Jobs \ {j} : runner'[k] = runner[k]
      /\ \/ runner'[j].at = "terminate"
         \/ runner'[j].at = "fail" /\ ~Alive(j)
         \/ /\ runner'[j].at = "finish" /\ ~Alive(j)
            /\ runner'[j].verdict \in Terminal
            /\ job[j].cancelled => runner'[j].verdict = "CANCELLED"
      /\ UNCHANGED <<job, process, client, open, wanted>>
  <2> DEFINE q == [at |-> "finish", verdict |->
                     Judged(j, IF process[j] = "zero" THEN "SUCCEEDED" ELSE "FAILED")]
  <2>1. q \in Runners /\ q.at = "finish" /\ q.verdict \in Terminal
        /\ (job[j].cancelled => q.verdict = "CANCELLED")
    BY DEF Runners, Places, Terminal, Judged
  <2>2. \/ runner' = [runner EXCEPT ![j] = q] /\ ~Alive(j)
        \/ runner' = [runner EXCEPT ![j].at = "fail"] /\ ~Alive(j)
        \/ runner' = [runner EXCEPT ![j].at = "terminate"]
    BY DEF Communicate, Ends
  <2> HIDE DEF q
  <2> QED BY <2>1, <2>2, Stepped, Moved DEF Communicate, Places
<1>2. JobTypes'
  BY <1>1, JobFacts DEF JobTypes
<1>3. JobOK(j)'
  BY <1>1, JobFacts
     DEF Communicate, JobAt, Alive, JobOK, Known, QueuedOK, BegunOK, ChildOK, VerdictOK, EndOK,
         Terminal
<1> QED BY <1>1, <1>2, <1>3, OneJob DEF JobAt, Alive

\* The child becomes visible, and the flag that a cancel set before is read.
LEMMA PublishInv == ASSUME JobInv, NEW j \in Jobs, Publish(j) PROVE JobInv'
<1>1. /\ runner' \in [Jobs -> Runners]
      /\ \A k \in Jobs \ {j} : runner'[k] = runner[k]
      /\ job' \in [Jobs -> JobRecords \cup {NoJob}]
      /\ \A k \in Jobs \ {j} : job'[k] = job[k]
      /\ Known(j)'
      /\ job'[j].cancelled = job[j].cancelled /\ job'[j].visible = TRUE
      /\ job'[j].state = job[j].state
      /\ runner'[j].at = IF job[j].cancelled THEN "terminate" ELSE "communicate"
      /\ UNCHANGED <<process, client, open, wanted>>
  <2> DEFINE new == [job[j] EXCEPT !.visible = TRUE]
             next == IF job[j].cancelled THEN "terminate" ELSE "communicate"
  <2>1. job[j] \in JobRecords
    BY JobFacts DEF Publish, JobAt
  <2>2. new \in JobRecords /\ new.cancelled = job[j].cancelled /\ new.visible = TRUE
        /\ new.state = job[j].state
    BY <2>1 DEF JobRecords, Terminal
  <2>3. job' = [job EXCEPT ![j] = new] /\ runner' = [runner EXCEPT ![j].at = next]
        /\ UNCHANGED <<process, client, open, wanted>>
    BY DEF Publish
  <2>4. next \in Places
    BY DEF Places
  <2> HIDE DEF new
  <2>5. /\ job' \in [Jobs -> JobRecords \cup {NoJob}]
        /\ job'[j] = new /\ new # NoJob
        /\ \A k \in Jobs \ {j} : job'[k] = job[k]
    BY <2>2, <2>3, Recorded
  <2> HIDE DEF next
  <2>6. /\ runner' \in [Jobs -> Runners]
        /\ runner'[j].at = next
        /\ \A k \in Jobs \ {j} : runner'[k] = runner[k]
    BY <2>3, <2>4, Moved
  <2> QED BY <2>2, <2>3, <2>5, <2>6 DEF Known, next
<1>2. JobTypes'
  BY <1>1, JobFacts DEF JobTypes
<1>3. JobOK(j)'
  BY <1>1, JobFacts
     DEF Publish, JobAt, Alive, JobOK, Known, QueuedOK, BegunOK, ChildOK, VerdictOK, EndOK, Terminal
<1> QED BY <1>1, <1>2, <1>3, OneJob DEF JobAt, Alive

\* Only the flag changes.
LEMMA FlagWorkspaceInv == ASSUME JobInv, NEW j \in Jobs, FlagWorkspace(j) PROVE JobInv'
<1>1. /\ runner' \in [Jobs -> Runners]
      /\ \A k \in Jobs \ {j} : runner'[k] = runner[k]
      /\ job' \in [Jobs -> JobRecords \cup {NoJob}]
      /\ \A k \in Jobs \ {j} : job'[k] = job[k]
      /\ Known(j)'
      /\ job'[j].cancelled = job[j].cancelled /\ job'[j].visible = job[j].visible
      /\ job'[j].state = job[j].state /\ runner'[j].at = "done"
      /\ UNCHANGED <<process, client, open, wanted>>
  <2> DEFINE new == [job[j] EXCEPT !.workspaceDeleted = TRUE]
  <2>1. job[j] \in JobRecords
    BY JobFacts DEF FlagWorkspace, JobAt
  <2>2. new \in JobRecords /\ new.cancelled = job[j].cancelled /\ new.visible = job[j].visible
        /\ new.state = job[j].state
    BY <2>1 DEF JobRecords, Terminal
  <2>3. job' = [job EXCEPT ![j] = new] /\ runner' = [runner EXCEPT ![j].at = "done"]
        /\ UNCHANGED <<process, client, open, wanted>>
    BY DEF FlagWorkspace
  <2>4. "done" \in Places
    BY DEF Places
  <2> HIDE DEF new
  <2> QED BY <2>2, <2>3, <2>4, Recorded, Moved DEF Known
<1>2. JobTypes'
  BY <1>1, JobFacts DEF JobTypes
<1>3. JobOK(j)'
  BY <1>1, JobFacts
     DEF FlagWorkspace, JobAt, Alive, JobOK, Known, QueuedOK, BegunOK, ChildOK, VerdictOK, EndOK,
         Terminal
<1> QED BY <1>1, <1>2, <1>3, OneJob DEF JobAt, Alive

\* The verdict is shown.
LEMMA FinishInv == ASSUME JobInv, NEW j \in Jobs, Finish(j) PROVE JobInv'
<1>1. /\ runner' \in [Jobs -> Runners]
      /\ \A k \in Jobs \ {j} : runner'[k] = runner[k]
      /\ job' \in [Jobs -> JobRecords \cup {NoJob}]
      /\ \A k \in Jobs \ {j} : job'[k] = job[k]
      /\ Known(j)'
      /\ job'[j].cancelled = job[j].cancelled /\ ~job'[j].visible
      /\ job'[j].state = runner[j].verdict /\ runner'[j].at = "flag"
      /\ UNCHANGED <<process, client, open, wanted>>
  <2> DEFINE new == [job[j] EXCEPT !.state = runner[j].verdict, !.visible = FALSE]
  <2>1. job[j] \in JobRecords
    BY JobFacts DEF Finish, JobAt
  <2>0. runner[j].verdict \in Terminal
    BY JobFacts DEF Finish, JobAt, JobOK, VerdictOK
  <2>2. new \in JobRecords /\ new.cancelled = job[j].cancelled /\ ~new.visible
        /\ new.state = runner[j].verdict
    BY <2>1, <2>0 DEF JobRecords, Terminal
  <2>3. job' = [job EXCEPT ![j] = new] /\ runner' = [runner EXCEPT ![j].at = "flag"]
        /\ UNCHANGED <<process, client, open, wanted>>
    BY DEF Finish, End
  <2>4. "flag" \in Places
    BY DEF Places
  <2> HIDE DEF new
  <2> QED BY <2>2, <2>3, <2>4, Recorded, Moved DEF Known
<1>2. JobTypes'
  BY <1>1, JobFacts DEF JobTypes
<1>3. JobOK(j)'
  BY <1>1, JobFacts
     DEF Finish, JobAt, Alive, JobOK, Known, QueuedOK, BegunOK, ChildOK, VerdictOK, EndOK, Terminal
<1> QED BY <1>1, <1>2, <1>3, OneJob DEF JobAt, Alive

\* An exception decides, unless the job was cancelled.
LEMMA FailInv == ASSUME JobInv, NEW j \in Jobs, Fail(j) PROVE JobInv'
<1>1. /\ runner' \in [Jobs -> Runners]
      /\ \A k \in Jobs \ {j} : runner'[k] = runner[k]
      /\ job' \in [Jobs -> JobRecords \cup {NoJob}]
      /\ \A k \in Jobs \ {j} : job'[k] = job[k]
      /\ Known(j)'
      /\ job'[j].cancelled = job[j].cancelled /\ ~job'[j].visible
      /\ job'[j].state = (IF job[j].cancelled THEN "CANCELLED" ELSE "FAILED")
      /\ runner'[j].at = "flag"
      /\ UNCHANGED <<process, client, open, wanted>>
  <2> DEFINE new == [job[j] EXCEPT !.state = Judged(j, "FAILED"), !.visible = FALSE]
  <2>1. job[j] \in JobRecords
    BY JobFacts DEF Fail, JobAt
  <2>2. new \in JobRecords /\ new.cancelled = job[j].cancelled /\ ~new.visible
        /\ new.state = (IF job[j].cancelled THEN "CANCELLED" ELSE "FAILED")
    BY <2>1 DEF JobRecords, Terminal, Judged
  <2>3. job' = [job EXCEPT ![j] = new] /\ runner' = [runner EXCEPT ![j].at = "flag"]
        /\ UNCHANGED <<process, client, open, wanted>>
    BY DEF Fail, End
  <2>4. "flag" \in Places
    BY DEF Places
  <2> HIDE DEF new
  <2> QED BY <2>2, <2>3, <2>4, Recorded, Moved DEF Known
<1>2. JobTypes'
  BY <1>1, JobFacts DEF JobTypes
<1>3. JobOK(j)'
  BY <1>1, JobFacts
     DEF Fail, JobAt, Alive, JobOK, Known, QueuedOK, BegunOK, ChildOK, VerdictOK, EndOK, Terminal
<1> QED BY <1>1, <1>2, <1>3, OneJob DEF JobAt, Alive

-----------------------------------------------------------------------------
(* Clients, children and shutdown. *)

\* A child that is killed, or ends: every job stays in order.
LEMMA Killed ==
    ASSUME JobInv, NEW j \in Jobs, Kill(j), UNCHANGED <<job, runner, open, wanted>>
    PROVE  /\ process' \in [Jobs -> {"none", "alive", "zero", "nonzero"}]
           /\ ~Alive(j)'
           /\ \A k \in Jobs \ {j} : process'[k] = process[k]
           /\ \A k \in Jobs : JobOK(k)'
<1>1. CASE Alive(j)
  <2>1. PICK code \in {"zero", "nonzero"} : process' = [process EXCEPT ![j] = code]
    BY <1>1 DEF Kill
  <2>2. /\ process' \in [Jobs -> {"none", "alive", "zero", "nonzero"}]
        /\ process'[j] \in {"zero", "nonzero"}
        /\ \A k \in Jobs \ {j} : process'[k] = process[k]
    BY <2>1, Child
  <2>3. ASSUME NEW k \in Jobs PROVE JobOK(k)'
    BY <1>1, <2>2, JobFacts
       DEF Alive, JobOK, Known, QueuedOK, BegunOK, ChildOK, VerdictOK, EndOK
  <2> QED BY <2>2, <2>3 DEF Alive
<1>2. CASE ~Alive(j)
  <2>1. UNCHANGED process
    BY <1>2 DEF Kill
  <2>2. ASSUME NEW k \in Jobs PROVE JobOK(k)'
    BY <2>1, JobFacts DEF JobOK, Known, QueuedOK, BegunOK, ChildOK, VerdictOK, EndOK
  <2> QED BY <1>2, <2>1, <2>2, JobFacts DEF Alive, JobTypes
<1> QED BY <1>1, <1>2

LEMMA ExitInv == ASSUME JobInv, NEW j \in Jobs, Exit(j) PROVE JobInv'
<1>1. UNCHANGED <<job, runner, client, open, wanted>> /\ Kill(j)
  BY DEF Exit
<1>2. JobTypes'
  BY <1>1, Killed, JobFacts DEF JobTypes
<1> QED BY <1>1, <1>2, Killed, OneJob DEF JobAt, Alive

\* The kill that a cancel owed is done; the other clients still owe theirs.
LEMMA CancelKillsInv == ASSUME JobInv, NEW c \in Clients, CancelKills(c) PROVE JobInv'
<1> DEFINE j == client[c]
<1>1. j \in Jobs /\ Kill(j) /\ UNCHANGED <<job, runner, open, wanted>>
  BY DEF CancelKills, JobInv, JobTypes
<1>2. /\ client' \in [Clients -> Jobs \cup {NoJob}]
      /\ \A d \in Clients \ {c} : client'[d] = client[d]
  BY DEF CancelKills, JobInv, JobTypes
<1>3. JobTypes'
  BY <1>1, <1>2, Killed DEF JobTypes, JobInv
<1>4. \A k \in Jobs : JobOK(k)'
  BY <1>1, Killed
<1>5. ASSUME NEW k \in Jobs, (JobAt(k, "communicate") /\ job[k].cancelled /\ Alive(k))'
      PROVE  \E d \in Clients : client'[d] = k
  <2>1. k # j /\ Alive(k)
    BY <1>1, <1>5, Killed DEF Alive
  <2>2. PICK d \in Clients : client[d] = k
    BY <1>1, <1>5, <2>1 DEF JobInv, CancelReachesChild, JobAt
  <2> QED BY <1>2, <2>1, <2>2
<1> QED BY <1>3, <1>4, <1>5 DEF JobInv, CancelReachesChild

\* The flag is set while the job has not ended; a visible child is owed a kill.
LEMMA CancelInv == ASSUME JobInv, NEW c \in Clients, NEW j \in Jobs, Cancel(c, j) PROVE JobInv'
<1> DEFINE new == [job[j] EXCEPT !.cancelled = TRUE]
<1>1. job[j] \in JobRecords /\ JobOK(j) /\ ~Ended(j) /\ Known(j) /\ runner[j].at # "none"
  BY JobFacts DEF Cancel
<1>2. new \in JobRecords /\ new.cancelled /\ new.visible = job[j].visible
      /\ new.state = job[j].state
  BY <1>1 DEF JobRecords
<1>3. /\ job' = [job EXCEPT ![j] = new] /\ UNCHANGED <<runner, process, open>>
      /\ wanted' = IF process[j] \in {"none", "alive"} THEN wanted \cup {j} ELSE wanted
      /\ client' = [client EXCEPT ![c] = IF job[j].visible THEN j ELSE NoJob]
      /\ client[c] = NoJob
  BY DEF Cancel
<1> HIDE DEF new
<1>4. /\ job'[j] = new /\ new # NoJob
      /\ job' \in [Jobs -> JobRecords \cup {NoJob}]
      /\ \A k \in Jobs \ {j} : job'[k] = job[k]
  BY <1>2, <1>3, Recorded
<1>5. /\ client' \in [Clients -> Jobs \cup {NoJob}]
      /\ client'[c] = IF job[j].visible THEN j ELSE NoJob
      /\ \A d \in Clients \ {c} : client'[d] = client[d]
  BY <1>3 DEF JobInv, JobTypes
<1>6. JobTypes'
  BY <1>3, <1>4, <1>5, JobFacts DEF JobTypes
<1>7. ASSUME NEW k \in Jobs PROVE JobOK(k)'
  <2>1. CASE k = j
    BY <1>1, <1>2, <1>3, <1>4, <2>1
       DEF JobOK, Known, Ended, QueuedOK, BegunOK, ChildOK, VerdictOK, EndOK
  <2>2. CASE k # j
    BY <1>3, <1>4, <2>2, JobFacts
       DEF JobOK, Known, QueuedOK, BegunOK, ChildOK, VerdictOK, EndOK
  <2> QED BY <2>1, <2>2
<1>8. ASSUME NEW k \in Jobs, (JobAt(k, "communicate") /\ job[k].cancelled /\ Alive(k))'
      PROVE  \E d \in Clients : client'[d] = k
  <2>1. CASE k = j
    BY <1>1, <1>3, <1>5, <1>8, <2>1 DEF JobOK, ChildOK, JobAt
  <2>2. CASE k # j
    <3>1. PICK d \in Clients : client[d] = k
      BY <1>3, <1>4, <1>8, <2>2 DEF JobInv, CancelReachesChild, JobAt, Alive
    <3> QED BY <1>3, <1>5, <3>1, NoJobAssumption
  <2> QED BY <2>1, <2>2
<1> QED BY <1>6, <1>7, <1>8 DEF JobInv, CancelReachesChild

\* What waits in the queue is dropped.
LEMMA ShutdownInv == ASSUME JobInv, Shutdown PROVE JobInv'
<1>1. UNCHANGED <<job, process, client, wanted>> /\ open' \in BOOLEAN
  BY DEF Shutdown
<1>2. ASSUME NEW k \in Jobs
      PROVE  /\ runner'[k] \in Runners
             /\ \/ runner'[k] = runner[k]
                \/ runner[k].at = "queued" /\ runner'[k].at = "dropped"
  <2>1. runner[k] \in Runners
    BY JobFacts
  <2>2. runner'[k] = IF JobAt(k, "queued") THEN [runner[k] EXCEPT !.at = "dropped"] ELSE runner[k]
    BY DEF Shutdown
  <2> QED BY <2>1, <2>2 DEF JobAt, Runners, Places
<1>3. runner' \in [Jobs -> Runners]
  <2>1. runner' = [k \in Jobs |-> runner'[k]]
    BY DEF Shutdown
  <2> QED BY <1>2, <2>1
<1>4. JobTypes'
  BY <1>1, <1>3 DEF JobInv, JobTypes
<1>5. ASSUME NEW k \in Jobs PROVE JobOK(k)'
  BY <1>1, <1>2, JobFacts DEF JobOK, Known, QueuedOK, BegunOK, ChildOK, VerdictOK, EndOK
<1>6. CancelReachesChild'
  BY <1>1, <1>2 DEF JobInv, CancelReachesChild, JobAt, Alive
<1> QED BY <1>4, <1>5, <1>6 DEF JobInv

-----------------------------------------------------------------------------
(***************************************************************************)
(* Every step of clients, children and runners keeps the invariant.        *)
(***************************************************************************)
LEMMA JobInvNext == JobInv /\ [JobNext]_jobVars => JobInv'
<1> SUFFICES ASSUME JobInv, [JobNext]_jobVars PROVE JobInv'
  OBVIOUS
<1>1. ASSUME NEW j \in Jobs, Run(j) PROVE JobInv'
  BY <1>1, BeginInv, MakeWorkspaceInv, SpawnInv, PublishInv, CommunicateInv, TerminateInv,
     DrainInv, FinishInv, FailInv, FlagWorkspaceInv DEF Run
<1>2. ASSUME NEW j \in Jobs, Submit(j) \/ Enqueue(j) \/ Exit(j) PROVE JobInv'
  BY <1>2, SubmitInv, EnqueueInv, ExitInv
<1>3. ASSUME NEW c \in Clients, CancelKills(c) \/ \E j \in Jobs : Cancel(c, j) PROVE JobInv'
  BY <1>3, CancelKillsInv, CancelInv
<1>4. CASE Shutdown
  BY <1>4, ShutdownInv
<1>5. CASE UNCHANGED jobVars
  BY <1>5 DEF jobVars, JobInv, JobTypes, CancelReachesChild, JobAt, Alive, JobOK, Known, QueuedOK,
              BegunOK, ChildOK, VerdictOK, EndOK
<1> QED BY <1>1, <1>2, <1>3, <1>4, <1>5 DEF JobNext

(***************************************************************************)
(* The inductive invariant holds in every run of the worker.               *)
(***************************************************************************)
THEOREM JobInvariant == JobSpec => []JobInv
BY JobInvInit, JobInvNext, PTL DEF JobSpec

(***************************************************************************)
(* The worker's table, its runners and its children keep their types, and  *)
(* only a job that has not ended shows a child to cancel.                  *)
(***************************************************************************)
THEOREM JobTypeCorrect == JobSpec => []JobTypeOK
BY JobInvariant, JobInvGives, PTL

(***************************************************************************)
(* The race between cancel and the publication of the child: whichever     *)
(* block takes the lock first, somebody terminates the child of a          *)
(* cancelled job.                                                          *)
(***************************************************************************)
THEOREM CancellationReachesTheChild == JobSpec => []CancelReachesChild
<1>1. JobInv => CancelReachesChild
  BY DEF JobInv
<1> QED BY <1>1, JobInvariant, PTL

(***************************************************************************)
(* A job that was cancelled before its child ended is never reported as    *)
(* succeeded, failed or timed out.                                         *)
(***************************************************************************)
THEOREM CancellationDecides == JobSpec => []CancelDecides
BY JobInvariant, JobInvGives, PTL

(***************************************************************************)
(* When a client sees a job ended, its child is dead.                      *)
(***************************************************************************)
THEOREM NoChildOutlivesItsJob == JobSpec => []NoChildLeft
BY JobInvariant, JobInvGives, PTL

(***************************************************************************)
(* An ended job keeps the verdict that clients have seen.                  *)
(***************************************************************************)
THEOREM AnEndIsFinal == JobSpec => EndIsFinal
<1> DEFINE Stays == \A j \in Jobs : Ended(j) => Ended(j)' /\ job'[j].state = job[j].state
<1>1. ASSUME JobInv, [JobNext]_jobVars PROVE Stays
  <2> SUFFICES ASSUME NEW k \in Jobs, Ended(k)
               PROVE  Ended(k)' /\ job'[k].state = job[k].state
    OBVIOUS
  <2>1. runner[k].at \in {"flag", "done"} /\ Known(k) /\ job[k] \in JobRecords
    BY <1>1, JobFacts DEF Ended, JobOK, EndOK
  <2>2. SUFFICES job'[k] = job[k] \/ (Known(k)' /\ job'[k].state = job[k].state)
    BY DEF Ended, Known
  <2>3. CASE UNCHANGED job
    BY <2>3
  <2>4. CASE \E j \in Jobs : Submit(j) \/ Begin(j) \/ Publish(j) \/ Finish(j) \/ Fail(j)
    <3>1. PICK j \in Jobs : Submit(j) \/ Begin(j) \/ Publish(j) \/ Finish(j) \/ Fail(j)
      BY <2>4
    <3>2. j # k
      BY <2>1, <3>1 DEF Submit, Begin, Publish, Finish, Fail, JobAt
    <3> QED BY <1>1, <3>1, <3>2 DEF JobInv, JobTypes, Submit, Begin, Publish, Finish, Fail, End
  <2>5. CASE \E j \in Jobs : FlagWorkspace(j)
    <3>1. PICK j \in Jobs : job' = [job EXCEPT ![j].workspaceDeleted = TRUE]
      BY <2>5 DEF FlagWorkspace
    <3>2. CASE j # k
      BY <1>1, <3>1, <3>2 DEF JobInv, JobTypes
    <3>3. CASE j = k
      <4> DEFINE new == [job[k] EXCEPT !.workspaceDeleted = TRUE]
      <4>1. new \in JobRecords /\ new.state = job[k].state
        BY <2>1 DEF JobRecords
      <4>2. job' = [job EXCEPT ![k] = new]
        BY <3>1, <3>3
      <4> HIDE DEF new
      <4> QED BY <1>1, <4>1, <4>2, Recorded DEF Known
    <3> QED BY <3>2, <3>3
  <2>6. CASE \E c \in Clients, j \in Jobs : Cancel(c, j)
    <3>1. PICK c \in Clients, j \in Jobs : Cancel(c, j)
      BY <2>6
    <3> QED BY <1>1, <3>1 DEF Cancel, JobInv, JobTypes
  <2> QED BY <1>1, <2>3, <2>4, <2>5, <2>6
          DEF JobNext, jobVars, Run, Enqueue, Exit, Shutdown, CancelKills, MakeWorkspace, Spawn,
              Communicate, Terminate, Drain
<1> QED BY <1>1, JobInvariant, PTL DEF EndIsFinal, JobSpec

=============================================================================
