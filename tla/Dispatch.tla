------------------------------ MODULE Dispatch ------------------------------
(***************************************************************************)
(* How jobs get from a request to a goroutine that executes them: the      *)
(* create, resume and schedule handlers, the scheduler with its timers and *)
(* its mutex, the bounded job queue, the workers, and shutdown.            *)
(*                                                                         *)
(* An execution is abstracted to what dispatch sees of it: it marks the    *)
(* job RUNNING, may show FAILED while it goes on, and ends with a final    *)
(* status (module JobExecution has the rest).                              *)
(***************************************************************************)
EXTENDS Naturals, Sequences, FiniteSets

CONSTANTS
    Jobs,           \* the jobs clients ask for
    Workers,        \* the MAX_WORKERS worker goroutines
    QueueCapacity,  \* capacity of the jobQueue channel
    MaxResumes,     \* bound: resume requests accepted for a job
    NoJob           \* nobody holds the scheduler's mutex

ASSUME DispatchAssumption ==
    /\ QueueCapacity \in Nat \ {0} /\ MaxResumes \in Nat
    /\ NoJob \notin Jobs

VARIABLES
    ctx,        \* "live", or "done" once the shutdown signal has come
    status,     \* the status of each job ("none" before it is created)
    jobQueue,   \* the buffered channel
    sending,    \* per job: goroutines blocked on a send, no lock held
    arriving,   \* ScheduleJob handlers waiting for the scheduler's mutex
    holder,     \* the job sent with the mutex held, or NoJob
    scheduled,  \* scheduledJobs, each with a timer
    fired,      \* timers that went off and wait for the mutex
    resuming,   \* per job: ResumeJob handlers past the status check
    resumes,    \* per job: resume requests accepted so far
    starting,   \* per job: goroutines started by a worker, before RUNNING
    running,    \* per job: goroutines inside Execute
    stopped,    \* workers that have returned
    scheduler   \* "started", or "waiting" in Stop's wg.Wait

requests   == <<resuming, resumes>>
scheduling == <<arriving, holder, scheduled, fired, scheduler>>
executing  == <<starting, running>>
vars == <<ctx, status, jobQueue, sending, scheduling, requests, executing, stopped>>

Status == {"none", "QUEUED", "SCHEDULED", "RUNNING", "COMPLETED", "PARTIAL_SUCCESS", "FAILED"}

Inc(f, j) == [f EXCEPT ![j] = @ + 1]
Dec(f, j) == [f EXCEPT ![j] = @ - 1]

Init ==
    /\ ctx = "live"
    /\ status = [j \in Jobs |-> "none"]
    /\ jobQueue = << >>
    /\ sending = [j \in Jobs |-> 0]
    /\ arriving = {} /\ holder = NoJob /\ scheduled = {} /\ fired = {}
    /\ resuming = [j \in Jobs |-> 0] /\ resumes = [j \in Jobs |-> 0]
    /\ starting = [j \in Jobs |-> 0] /\ running = [j \in Jobs |-> 0]
    /\ stopped = {}
    /\ scheduler = "started"

-----------------------------------------------------------------------------
(* Requests.                                                               *)

\* CreateJob (and each file of a batch): the job is stored, then sent.
CreateJob(j) ==
    /\ status[j] = "none"
    /\ status' = [status EXCEPT ![j] = "QUEUED"]
    /\ sending' = Inc(sending, j)
    /\ UNCHANGED <<ctx, jobQueue, scheduling, requests, executing, stopped>>

\* ScheduleJob, up to the scheduler's mutex.
CreateScheduled(j) ==
    /\ status[j] = "none"
    /\ status' = [status EXCEPT ![j] = "SCHEDULED"]
    /\ arriving' = arriving \cup {j}
    /\ UNCHANGED <<ctx, jobQueue, sending, holder, scheduled, fired, scheduler,
                   requests, executing, stopped>>

\* The time is to come: a timer is armed and the job is kept.
ScheduleLater(j) ==
    /\ j \in arriving /\ holder = NoJob
    /\ arriving' = arriving \ {j}
    /\ scheduled' = scheduled \cup {j}
    /\ UNCHANGED <<ctx, status, jobQueue, sending, holder, fired, scheduler,
                   requests, executing, stopped>>

\* Mutant of SchedulePast: it goes on to arm a timer as well.
PastAndLater(j) ==
    /\ j \in arriving /\ holder = NoJob
    /\ arriving' = arriving \ {j}
    /\ holder' = j
    /\ scheduled' = scheduled \cup {j}
    /\ UNCHANGED <<ctx, status, jobQueue, sending, fired, scheduler,
                   requests, executing, stopped>>

\* The time is past: the job is sent at once, with the mutex held.
SchedulePast(j) ==
    /\ j \in arriving /\ holder = NoJob
    /\ arriving' = arriving \ {j}
    /\ holder' = j
    /\ UNCHANGED <<ctx, status, jobQueue, sending, scheduled, fired, scheduler,
                   requests, executing, stopped>>

\* ResumeJob: the check, then the new status and the send.
ResumeCheck(j) ==
    /\ status[j] = "FAILED" /\ resumes[j] < MaxResumes
    /\ resuming' = Inc(resuming, j)
    /\ resumes' = Inc(resumes, j)
    /\ UNCHANGED <<ctx, status, jobQueue, sending, scheduling, executing, stopped>>

\* Mutant of ResumeEnqueue: it goes on although the check refused.
ResumeAnyway(j) ==
    /\ status[j] # "none"
    /\ resuming' = Dec(resuming, j)
    /\ status' = [status EXCEPT ![j] = "QUEUED"]
    /\ sending' = Inc(sending, j)
    /\ UNCHANGED <<ctx, jobQueue, scheduling, resumes, executing, stopped>>

ResumeEnqueue(j) ==
    /\ resuming[j] > 0
    /\ resuming' = Dec(resuming, j)
    /\ status' = [status EXCEPT ![j] = "QUEUED"]
    /\ sending' = Inc(sending, j)
    /\ UNCHANGED <<ctx, jobQueue, scheduling, resumes, executing, stopped>>

-----------------------------------------------------------------------------
(* The queue and the scheduler.                                            *)

\* Mutant of Send: a full queue drops the job instead of blocking its sender.
SendOrDrop(j) ==
    /\ sending[j] > 0
    /\ jobQueue' = IF Len(jobQueue) < QueueCapacity THEN Append(jobQueue, j) ELSE jobQueue
    /\ sending' = Dec(sending, j)
    /\ UNCHANGED <<ctx, status, scheduling, requests, executing, stopped>>

Send(j) ==
    /\ sending[j] > 0 /\ Len(jobQueue) < QueueCapacity
    /\ jobQueue' = Append(jobQueue, j)
    /\ sending' = Dec(sending, j)
    /\ UNCHANGED <<ctx, status, scheduling, requests, executing, stopped>>

SendPast ==
    /\ holder # NoJob /\ Len(jobQueue) < QueueCapacity
    /\ jobQueue' = Append(jobQueue, holder)
    /\ holder' = NoJob
    /\ UNCHANGED <<ctx, status, sending, arriving, scheduled, fired, scheduler,
                   requests, executing, stopped>>

TimerFires(j) ==
    /\ j \in scheduled \ fired
    /\ fired' = fired \cup {j}
    /\ UNCHANGED <<ctx, status, jobQueue, sending, arriving, holder, scheduled,
                   scheduler, requests, executing, stopped>>

\* Mutant of ExecuteScheduledJob: the entry is deleted before it is looked up.
ExecuteForgotten(j) ==
    /\ j \in fired /\ holder = NoJob
    /\ fired' = fired \ {j}
    /\ scheduled' = scheduled \ {j}
    /\ UNCHANGED <<ctx, status, jobQueue, sending, arriving, holder, scheduler,
                   requests, executing, stopped>>

\* executeScheduledJob: nothing is done for a job that is no longer kept.
ExecuteScheduledJob(j) ==
    /\ j \in fired /\ holder = NoJob
    /\ fired' = fired \ {j}
    /\ scheduled' = scheduled \ {j}
    /\ IF j \in scheduled
       THEN status' = [status EXCEPT ![j] = "QUEUED"] /\ sending' = Inc(sending, j)
       ELSE UNCHANGED <<status, sending>>
    /\ UNCHANGED <<ctx, jobQueue, arriving, holder, scheduler, requests, executing, stopped>>

-----------------------------------------------------------------------------
(* Workers and executions.                                                 *)

\* StartWorker's select.  A received job gets a goroutine of its own.
Receive(w) ==
    /\ w \notin stopped /\ jobQueue # << >>
    /\ starting' = Inc(starting, Head(jobQueue))
    /\ jobQueue' = Tail(jobQueue)
    /\ UNCHANGED <<ctx, status, sending, scheduling, requests, running, stopped>>

WorkerStops(w) ==
    /\ w \notin stopped /\ ctx = "done"
    /\ stopped' = stopped \cup {w}
    /\ UNCHANGED <<ctx, status, jobQueue, sending, scheduling, requests, executing>>

StartRunning(j) ==
    /\ starting[j] > 0
    /\ starting' = Dec(starting, j)
    /\ running' = Inc(running, j)
    /\ status' = [status EXCEPT ![j] = "RUNNING"]
    /\ UNCHANGED <<ctx, jobQueue, sending, scheduling, requests, stopped>>

\* No attempt could create the state: Execute ends before the job was RUNNING.
FailToStart(j) ==
    /\ starting[j] > 0
    /\ starting' = Dec(starting, j)
    /\ status' = [status EXCEPT ![j] = "FAILED"]
    /\ UNCHANGED <<ctx, jobQueue, sending, scheduling, requests, running, stopped>>

\* A partial or over-limit job shows FAILED, a retried one RUNNING again.
ShowProgress(j) ==
    /\ running[j] > 0
    /\ \E s \in {"RUNNING", "FAILED"} : status' = [status EXCEPT ![j] = s]
    /\ UNCHANGED <<ctx, jobQueue, sending, scheduling, requests, executing, stopped>>

Finish(j) ==
    /\ running[j] > 0
    /\ running' = Dec(running, j)
    /\ \E s \in {"COMPLETED", "PARTIAL_SUCCESS", "FAILED"} :
           status' = [status EXCEPT ![j] = s]
    /\ UNCHANGED <<ctx, jobQueue, sending, scheduling, requests, starting, stopped>>

-----------------------------------------------------------------------------
(* Shutdown.                                                               *)

Signal ==
    /\ ctx = "live"
    /\ ctx' = "done"
    /\ UNCHANGED <<status, jobQueue, sending, scheduling, requests, executing, stopped>>

\* Stop: the timers are stopped (one that fired goes on) and the jobs dropped;
\* then it waits for its own goroutine and never returns.
StopScheduler ==
    /\ ctx = "done" /\ scheduler = "started" /\ holder = NoJob
    /\ scheduled' = {}
    /\ scheduler' = "waiting"
    /\ UNCHANGED <<ctx, status, jobQueue, sending, arriving, holder, fired,
                   requests, executing, stopped>>

-----------------------------------------------------------------------------
JobStep(j) ==
    \/ CreateJob(j) \/ CreateScheduled(j) \/ ScheduleLater(j) \/ SchedulePast(j)
    \/ ResumeCheck(j) \/ ResumeEnqueue(j) \/ Send(j)
    \/ TimerFires(j) \/ ExecuteScheduledJob(j)
    \/ StartRunning(j) \/ FailToStart(j) \/ ShowProgress(j) \/ Finish(j)

\* After the signal the workers return and whoever sends stays blocked.
Rest == ctx = "done" /\ UNCHANGED vars

Next ==
    \/ \E j \in Jobs : JobStep(j)
    \/ SendPast
    \/ \E w \in Workers : Receive(w) \/ WorkerStops(w)
    \/ Signal \/ StopScheduler \/ Rest

Spec == Init /\ [][Next]_vars

\* Runnable goroutines run, timers go off, a mutex that is free is taken and a
\* channel serves its waiting senders in turn.  Executions need not end.
Fairness ==
    /\ \A j \in Jobs :
           /\ WF_vars(ScheduleLater(j) \/ SchedulePast(j))
           /\ WF_vars(ResumeEnqueue(j)) /\ WF_vars(Send(j))
           /\ WF_vars(TimerFires(j)) /\ WF_vars(ExecuteScheduledJob(j))
           /\ WF_vars(StartRunning(j) \/ FailToStart(j))
    /\ WF_vars(SendPast)
    /\ WF_vars(\E w \in Workers : Receive(w))

FairSpec == Spec /\ Fairness

-----------------------------------------------------------------------------
(* Properties.                                                             *)

\* Types of the variables.
TypeOK ==
    /\ ctx \in {"live", "done"}
    /\ status \in [Jobs -> Status]
    /\ jobQueue \in Seq(Jobs)
    /\ sending \in [Jobs -> Nat]
    /\ arriving \subseteq Jobs /\ holder \in Jobs \cup {NoJob}
    /\ scheduled \subseteq Jobs /\ fired \subseteq Jobs
    /\ resuming \in [Jobs -> Nat] /\ resumes \in [Jobs -> 0..MaxResumes]
    /\ starting \in [Jobs -> Nat] /\ running \in [Jobs -> Nat]
    /\ stopped \subseteq Workers
    /\ scheduler \in {"started", "waiting"}

InQueue(q, j) == \E i \in DOMAIN q : q[i] = j

\* The queue, a blocked sender or a new goroutine has the job in hand.
InHand(j) ==
    \/ sending[j] > 0
    \/ InQueue(jobQueue, j)
    \/ starting[j] > 0

\* A status that says more is to come is never left with nobody to do it: a
\* QUEUED job is on its way to an execution, a SCHEDULED one with the scheduler
\* until shutdown drops it, a RUNNING one in an Execute (CreateJob, ResumeJob,
\* executeScheduledJob, StartWorker).
StatusBacked ==
    \A j \in Jobs :
        /\ status[j] = "QUEUED" => InHand(j)
        /\ status[j] = "SCHEDULED" /\ ctx = "live" =>
               j \in arriving \cup scheduled \cup {holder} \/ InHand(j)
        /\ status[j] = "RUNNING" => running[j] > 0

Queued(j) == Cardinality({i \in DOMAIN jobQueue : jobQueue[i] = j})

Times(P) == IF P THEN 1 ELSE 0

\* The executions of a job, begun or to come, are at most its creation and the
\* resume requests that were accepted: the timer, the send under the mutex and
\* the drop at shutdown never add one (ScheduleJob, executeScheduledJob).
AskedFor ==
    \A j \in Jobs :
        Queued(j) + sending[j] + starting[j] + running[j] + resuming[j]
          + Times(j \in arriving) + Times(j = holder) + Times(j \in scheduled)
        <= 1 + resumes[j]

\* Every job waiting in the queue or for its time is taken up, unless the
\* service is shut down, even if the executions before it never end and the
\* scheduler's mutex is held by a blocked send (StartWorker, ScheduleJob).
EveryJobRuns ==
    \A j \in Jobs : status[j] \in {"QUEUED", "SCHEDULED"} ~>
                        (status[j] \in {"RUNNING", "FAILED"} \/ ctx = "done")

\* docs/FEATURES.md:50 says "Configurable number of workers (default: 2)" and
\* line 53 that they are what "Prevents system overload": at most MAX_WORKERS
\* jobs execute at a time (StartWorker, which starts a goroutine for each).
WorkersBounded ==
    Cardinality({j \in Jobs : running[j] > 0}) <= Cardinality(Workers)
=============================================================================
