------------------------------- MODULE Batch --------------------------------
(***************************************************************************)
(* Batches: the handler that creates the jobs of a batch one by one, and   *)
(* the status a poll computes from the statuses of the jobs, which it      *)
(* reads one after the other while they change.                            *)
(*                                                                         *)
(* A job is its status; Dispatch and JobExecution have the rest.  Whoever  *)
(* changes a status does so without BatchService's mutex.                  *)
(***************************************************************************)
EXTENDS Naturals, Sequences, FiniteSets

CONSTANTS
    Requests,   \* requests to create a batch
    BatchIds,   \* identifiers: given by the client, or the second of the request
    Jobs,       \* the jobs that can be created
    MaxFiles,   \* bound: files of a request
    MaxAgain,   \* bound: how often a job leaves the way of a single execution
    None        \* no batch

VARIABLES
    status,    \* the status of each job ("none" before it is created)
    again,     \* how often each job left the way of a single execution
    request,   \* per request: its stage, identifier, files to go, jobs created
    batches,   \* BatchService.batches: jobs and status, or None
    reading,   \* the update under way: its batch, or None
    place,     \* the update under way: the job to read next
    stats,     \* the update under way: what it has counted
    history    \* per job: which of COMPLETED and FAILED it has been

updating == <<reading, place, stats>>
vars == <<status, again, request, batches, updating, history>>

JobStatus   == {"none", "QUEUED", "RUNNING", "COMPLETED", "PARTIAL_SUCCESS", "FAILED"}
BatchStatus == {"PENDING", "PROCESSING", "COMPLETED", "FAILED", "PARTIAL"}
BatchStats  == [pending : Nat, running : Nat, completed : Nat, failed : Nat]

ASSUME BatchAssumption ==
    /\ MaxFiles \in Nat \ {0} /\ MaxAgain \in Nat
    /\ None \notin BatchIds /\ None \notin [jobs : Seq(Jobs), status : BatchStatus]

NoStats == [pending |-> 0, running |-> 0, completed |-> 0, failed |-> 0]

Init ==
    /\ status = [j \in Jobs |-> "none"] /\ again = [j \in Jobs |-> 0]
    /\ request \in [Requests -> [stage : {"adding"}, id : BatchIds,
                                 files : 1..MaxFiles, jobs : {<< >>}]]
    /\ batches = [b \in BatchIds |-> None]
    /\ reading = None /\ place = 1 /\ stats = NoStats
    /\ history = [j \in Jobs |-> {}]

SetStatus(j, s) ==
    /\ status' = [status EXCEPT ![j] = s]
    /\ history' = [history EXCEPT ![j] = @ \cup ({s} \cap {"COMPLETED", "FAILED"})]

-----------------------------------------------------------------------------
(* CreateBatchJob.                                                         *)

\* A file is valid: its job is created and sent, before there is a batch.
AddJob(q, j) ==
    /\ request[q].stage = "adding" /\ request[q].files > 0
    /\ status[j] = "none"
    /\ SetStatus(j, "QUEUED")
    /\ request' = [request EXCEPT ![q].files = @ - 1, ![q].jobs = Append(@, j)]
    /\ UNCHANGED <<again, batches, updating>>

\* A file is not, or its job's identifier, a millisecond, is taken: the handler
\* returns, and the jobs already sent are left without a batch.
RejectFile(q) ==
    /\ request[q].stage = "adding" /\ request[q].files > 0
    /\ request' = [request EXCEPT ![q].stage = "rejected"]
    /\ UNCHANGED <<status, again, batches, updating, history>>

\* Mutant of CreateBatch: a batch with the same identifier is replaced.
CreateReplaces(q) ==
    /\ request[q].stage = "adding" /\ request[q].files = 0 /\ reading = None
    /\ request' = [request EXCEPT ![q].stage = "answered"]
    /\ batches' = [batches EXCEPT ![request[q].id] =
                      [jobs |-> request[q].jobs, status |-> "PENDING"]]
    /\ UNCHANGED <<status, again, updating, history>>

\* CreateBatch refuses an identifier it knows.
CreateBatch(q) ==
    /\ request[q].stage = "adding" /\ request[q].files = 0 /\ reading = None
    /\ IF batches[request[q].id] = None
       THEN /\ batches' = [batches EXCEPT ![request[q].id] =
                              [jobs |-> request[q].jobs, status |-> "PENDING"]]
            /\ request' = [request EXCEPT ![q].stage = "answered"]
       ELSE /\ request' = [request EXCEPT ![q].stage = "rejected"]
            /\ UNCHANGED batches
    /\ UNCHANGED <<status, again, updating, history>>

-----------------------------------------------------------------------------
(* The jobs.                                                               *)

Start(j) ==
    /\ status[j] = "QUEUED"
    /\ SetStatus(j, "RUNNING")
    /\ UNCHANGED <<again, request, batches, updating>>

\* An execution succeeds, fails, or shows FAILED on its way to a partial success.
Settle(j) ==
    /\ \/ status[j] = "RUNNING" /\ \E s \in {"COMPLETED", "FAILED"} : SetStatus(j, s)
       \/ status[j] = "FAILED" /\ SetStatus(j, "PARTIAL_SUCCESS")
    /\ UNCHANGED <<again, request, batches, updating>>

\* A resume, or a step of one of two executions that the other has overtaken: any
\* status may follow any other, FAILED a COMPLETED or a QUEUED included.
Again(j) ==
    /\ status[j] # "none" /\ again[j] < MaxAgain
    /\ again' = [again EXCEPT ![j] = @ + 1]
    /\ \E s \in JobStatus \ {"none", status[j]} : SetStatus(j, s)
    /\ UNCHANGED <<request, batches, updating>>

-----------------------------------------------------------------------------
(* GetBatchStatus: UpdateBatchStatus holds the mutex while it counts.      *)

BeginUpdate(b) ==
    /\ reading = None /\ batches[b] # None
    /\ reading' = b
    /\ UNCHANGED <<status, again, request, batches, place, stats, history>>

\* calculateBatchStats: a PARTIAL_SUCCESS is counted nowhere.
Counted(c, s) ==
    CASE s = "QUEUED"    -> [c EXCEPT !.pending = @ + 1]
      [] s = "RUNNING"   -> [c EXCEPT !.running = @ + 1]
      [] s = "COMPLETED" -> [c EXCEPT !.completed = @ + 1]
      [] s = "FAILED"    -> [c EXCEPT !.failed = @ + 1]
      [] OTHER           -> c

\* Mutant of ReadJob: the same job is read again.
ReadAgain ==
    /\ reading # None /\ place <= Len(batches[reading].jobs)
    /\ stats' = Counted(stats, status[batches[reading].jobs[place]])
    /\ UNCHANGED <<status, again, request, batches, reading, place, history>>

ReadJob ==
    /\ reading # None /\ place <= Len(batches[reading].jobs)
    /\ stats' = Counted(stats, status[batches[reading].jobs[place]])
    /\ place' = place + 1
    /\ UNCHANGED <<status, again, request, batches, reading, history>>

\* Mutant of Verdict: a batch without failures among the final jobs is COMPLETED.
VerdictEarly(c, total) ==
    IF c.completed > 0 /\ c.failed = 0 THEN "COMPLETED"
    ELSE IF c.failed = total THEN "FAILED"
    ELSE IF c.completed > 0 /\ c.completed + c.failed = total THEN "PARTIAL"
    ELSE IF c.running > 0 THEN "PROCESSING" ELSE "PENDING"

Verdict(c, total) ==
    IF c.completed = total THEN "COMPLETED"
    ELSE IF c.failed = total THEN "FAILED"
    ELSE IF c.completed > 0 /\ c.completed + c.failed = total THEN "PARTIAL"
    ELSE IF c.running > 0 THEN "PROCESSING" ELSE "PENDING"

\* Mutant of EndUpdate: a final status is not computed again.
EndSticky ==
    /\ reading # None /\ place > Len(batches[reading].jobs)
    /\ IF batches[reading].status \in {"PENDING", "PROCESSING"}
       THEN batches' = [batches EXCEPT ![reading].status =
                           Verdict(stats, Len(batches[reading].jobs))]
       ELSE UNCHANGED batches
    /\ reading' = None /\ place' = 1 /\ stats' = NoStats
    /\ UNCHANGED <<status, again, request, history>>

EndUpdate ==
    /\ reading # None /\ place > Len(batches[reading].jobs)
    /\ batches' = [batches EXCEPT ![reading].status =
                      Verdict(stats, Len(batches[reading].jobs))]
    /\ reading' = None /\ place' = 1 /\ stats' = NoStats
    /\ UNCHANGED <<status, again, request, history>>

-----------------------------------------------------------------------------
Next ==
    \/ \E q \in Requests : CreateBatch(q) \/ RejectFile(q) \/ \E j \in Jobs : AddJob(q, j)
    \/ \E j \in Jobs : Start(j) \/ Settle(j) \/ Again(j)
    \/ \E b \in BatchIds : BeginUpdate(b)
    \/ ReadJob \/ EndUpdate

Spec == Init /\ [][Next]_vars

\* A client that polls every batch again and again.  The executions may stop
\* anywhere.
FairSpec ==
    /\ Spec
    /\ \A b \in BatchIds : SF_vars(BeginUpdate(b))
    /\ WF_vars(ReadJob) /\ WF_vars(EndUpdate)

-----------------------------------------------------------------------------
(* Properties.                                                             *)

\* Types of the variables; an update counts a job once at most.
TypeOK ==
    /\ status \in [Jobs -> JobStatus] /\ again \in [Jobs -> 0..MaxAgain]
    /\ request \in [Requests -> [stage : {"adding", "answered", "rejected"}, id : BatchIds,
                                 files : 0..MaxFiles, jobs : Seq(Jobs)]]
    /\ batches \in [BatchIds -> {None} \cup [jobs : Seq(Jobs), status : BatchStatus]]
    /\ reading \in BatchIds \cup {None} /\ place \in 1..MaxFiles + 1
    /\ stats \in BatchStats
    /\ stats.pending + stats.running + stats.completed + stats.failed < place
    /\ history \in [Jobs -> SUBSET {"COMPLETED", "FAILED"}]

JobsOf(b) == {batches[b].jobs[i] : i \in DOMAIN batches[b].jobs}

\* A final status is true of the batch's jobs, if not at one moment then each at
\* its own, although they are read while they change: all of them completed, all
\* failed, or each did one of the two and one completed (UpdateBatchStatus).
VerdictEarned ==
    \A b \in BatchIds : batches[b] # None =>
        /\ batches[b].status = "COMPLETED" =>
               \A j \in JobsOf(b) : "COMPLETED" \in history[j]
        /\ batches[b].status = "FAILED" =>
               \A j \in JobsOf(b) : "FAILED" \in history[j]
        /\ batches[b].status = "PARTIAL" =>
               /\ \A j \in JobsOf(b) : history[j] # {}
               /\ \E j \in JobsOf(b) : "COMPLETED" \in history[j]

\* Once created a batch keeps its jobs, whatever other request comes with the
\* same identifier, and no job is in two batches (CreateBatch).
BatchesKept ==
    [][ \A b \in BatchIds : batches[b] # None =>
          /\ batches'[b] # None /\ batches'[b].jobs = batches[b].jobs
          /\ \A c \in BatchIds \ {b} :
                 batches'[c] # None => JobsOf(b)' \cap JobsOf(c)' = {} ]_vars

\* When the jobs rest, the polled status says what the documentation has it say of
\* them, whatever they went through before: a final status exactly when every job has
\* completed or failed, PROCESSING exactly when one is running, PENDING when none has
\* started (UpdateBatchStatus on each poll, after reading the jobs as they change).
\* PENDING may mean more: it is also shown for jobs that wait beside finished ones, and
\* for ever once a job that ended in PARTIAL_SUCCESS is among those that ended.
StatusCatchesUp ==
    \A b \in BatchIds :
        <>[](batches[b] # None =>
               LET shown == batches[b].status
                   have  == {status[j] : j \in JobsOf(b)}
               IN  /\ shown = "COMPLETED"  <=> have = {"COMPLETED"}
                   /\ shown = "FAILED"     <=> have = {"FAILED"}
                   /\ shown = "PARTIAL"    <=> have = {"COMPLETED", "FAILED"}
                   /\ shown = "PROCESSING" <=> "RUNNING" \in have
                   /\ have = {"QUEUED"} => shown = "PENDING")
=============================================================================
