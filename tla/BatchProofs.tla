----------------------------- MODULE BatchProofs -----------------------------
(***************************************************************************)
(* Theorems about Batch, for any requests, identifiers, jobs and bounds.   *)
(***************************************************************************)
EXTENDS Batch, TLAPS

Listed(jobs) == {jobs[i] : i \in DOMAIN jobs}

\* A request has room for the files it still has to add.
RequestsSized ==
    \A q \in Requests : Len(request[q].jobs) + request[q].files <= MaxFiles

\* A job that a request lists exists, and no other request lists it.
JobsApart ==
    /\ \A q \in Requests : \A j \in Listed(request[q].jobs) : status[j] # "none"
    /\ \A q, r \in Requests :
           q # r => Listed(request[q].jobs) \cap Listed(request[r].jobs) = {}

\* A batch is what one answered request with its identifier has made it.
BatchesAnswered ==
    \A b \in BatchIds : batches[b] # None =>
        \E q \in Requests : /\ request[q].stage = "answered" /\ request[q].id = b
                            /\ request[q].jobs = batches[b].jobs

\* What the counts of the first n jobs say of these jobs.
Earned(c, jobs, n) ==
    /\ c.completed = n => \A i \in 1..n : "COMPLETED" \in history[jobs[i]]
    /\ c.failed = n => \A i \in 1..n : "FAILED" \in history[jobs[i]]
    /\ c.completed + c.failed = n => \A i \in 1..n : history[jobs[i]] # {}
    /\ c.completed > 0 => \E i \in 1..n : "COMPLETED" \in history[jobs[i]]

\* The update under way has counted the jobs before its place.
CountSound ==
    /\ reading = None => place = 1 /\ stats = NoStats
    /\ reading # None => /\ batches[reading] # None
                         /\ place <= Len(batches[reading].jobs) + 1
                         /\ Earned(stats, batches[reading].jobs, place - 1)

\* A job that is COMPLETED or FAILED has been so.
StatusRecorded ==
    \A j \in Jobs : status[j] \in {"COMPLETED", "FAILED"} => status[j] \in history[j]

IInv ==
    /\ TypeOK /\ StatusRecorded /\ RequestsSized /\ JobsApart /\ BatchesAnswered
    /\ CountSound /\ VerdictEarned

LEMMA ConstantFacts ==
    /\ MaxFiles \in Nat \ {0} /\ MaxAgain \in Nat
    /\ None \notin BatchIds /\ None \notin [jobs : Seq(Jobs), status : BatchStatus]
BY BatchAssumption

-----------------------------------------------------------------------------
(* What the types say.                                                     *)

LEMMA RequestTypes ==
    ASSUME TypeOK, NEW q \in Requests
    PROVE  /\ request[q].stage \in {"adding", "answered", "rejected"}
           /\ request[q].id \in BatchIds /\ request[q].files \in 0..MaxFiles
           /\ request[q].jobs \in Seq(Jobs)
           /\ request[q] = [stage |-> request[q].stage, id |-> request[q].id,
                            files |-> request[q].files, jobs |-> request[q].jobs]
BY DEF TypeOK

LEMMA BatchTypes ==
    ASSUME TypeOK, NEW b \in BatchIds, batches[b] # None
    PROVE  /\ batches[b].jobs \in Seq(Jobs) /\ batches[b].status \in BatchStatus
           /\ batches[b] = [jobs |-> batches[b].jobs, status |-> batches[b].status]
BY DEF TypeOK

LEMMA ListedJobs ==
    ASSUME NEW jobs \in Seq(Jobs)
    PROVE  Listed(jobs) \subseteq Jobs
BY DEF Listed

\* A batch has no more jobs than a request has files.
LEMMA BatchSized ==
    ASSUME IInv, NEW b \in BatchIds, batches[b] # None
    PROVE  Len(batches[b].jobs) \in 0..MaxFiles
<1>1. PICK q \in Requests : request[q].jobs = batches[b].jobs
  BY DEF IInv, BatchesAnswered
<1>2. Len(request[q].jobs) + request[q].files <= MaxFiles
  BY DEF IInv, RequestsSized
<1>3. request[q].jobs \in Seq(Jobs) /\ request[q].files \in 0..MaxFiles
  BY RequestTypes DEF IInv
<1>4. Len(request[q].jobs) \in Nat
  BY <1>3
<1> QED
  BY <1>1, <1>2, <1>3, <1>4, ConstantFacts

LEMMA InvInitially == Init => IInv
<1> SUFFICES ASSUME Init PROVE IInv
  OBVIOUS
<1> USE ConstantFacts
<1>1. \A q \in Requests : request[q].jobs = << >> /\ request[q].files \in 1..MaxFiles
  BY DEF Init
<1>2. request \in [Requests -> [stage : {"adding", "answered", "rejected"}, id : BatchIds,
                                files : 0..MaxFiles, jobs : Seq(Jobs)]]
  <2>1. << >> \in Seq(Jobs)
    OBVIOUS
  <2>2. 1..MaxFiles \subseteq 0..MaxFiles
    OBVIOUS
  <2> QED
    BY <2>1, <2>2 DEF Init
<1>3. TypeOK
  BY <1>2 DEF Init, TypeOK, JobStatus, BatchStats, NoStats
<1>4. RequestsSized
  BY <1>1 DEF RequestsSized
<1>5. JobsApart
  BY <1>1 DEF JobsApart, Listed
<1>6. BatchesAnswered /\ VerdictEarned /\ CountSound /\ StatusRecorded
  BY DEF Init, BatchesAnswered, VerdictEarned, CountSound, StatusRecorded
<1> QED
  BY <1>3, <1>4, <1>5, <1>6 DEF IInv

-----------------------------------------------------------------------------
(* The jobs.                                                               *)

\* What was true of a job stays so: the verdicts and the counts under way do not
\* depend on what the job does next.
LEMMA SetStatusKeeps ==
    ASSUME IInv, NEW j \in Jobs, NEW s \in JobStatus \ {"none"}, SetStatus(j, s),
           UNCHANGED <<batches, updating>>
    PROVE  /\ status' \in [Jobs -> JobStatus]
           /\ history' \in [Jobs -> SUBSET {"COMPLETED", "FAILED"}]
           /\ \A k \in Jobs : status[k] # "none" => status'[k] # "none"
           /\ StatusRecorded' /\ CountSound' /\ VerdictEarned'
<1> USE ConstantFacts
<1>1. /\ status' = [status EXCEPT ![j] = s]
      /\ history' = [history EXCEPT ![j] = history[j] \cup ({s} \cap {"COMPLETED", "FAILED"})]
      /\ UNCHANGED <<batches, reading, place, stats>>
  BY DEF SetStatus, updating
<1>2. /\ status' \in [Jobs -> JobStatus]
      /\ history' \in [Jobs -> SUBSET {"COMPLETED", "FAILED"}]
      /\ \A k \in Jobs : status[k] # "none" => status'[k] # "none"
  BY <1>1 DEF IInv, TypeOK
<1>3. \A k \in Jobs : history[k] \subseteq history'[k]
  BY <1>1 DEF IInv, TypeOK
<1>4. CountSound'
  <2>1. CASE reading = None
    BY <1>1, <2>1 DEF IInv, CountSound
  <2>2. CASE reading # None
    <3>1. reading \in BatchIds /\ batches[reading] # None
      BY <2>2 DEF IInv, TypeOK, CountSound
    <3>2. /\ batches[reading].jobs \in Seq(Jobs)
          /\ place \in Nat \ {0} /\ place <= Len(batches[reading].jobs) + 1
      BY <3>1, <2>2, BatchTypes DEF IInv, TypeOK, CountSound
    <3>3. \A i \in 1..(place - 1) : batches[reading].jobs[i] \in Jobs
      BY <3>2
    <3>4. Earned(stats, batches[reading].jobs, place - 1)
      BY <2>2 DEF IInv, CountSound
    <3>5. Earned(stats, batches[reading].jobs, place - 1)'
      BY <1>1, <1>3, <3>3, <3>4 DEF Earned
    <3> QED
      BY <1>1, <2>2, <3>1, <3>2, <3>5 DEF CountSound
  <2> QED
    BY <2>1, <2>2
<1>5. VerdictEarned'
  <2> SUFFICES ASSUME NEW b \in BatchIds, batches'[b] # None
               PROVE  /\ batches'[b].status = "COMPLETED" =>
                             \A k \in JobsOf(b)' : "COMPLETED" \in history'[k]
                      /\ batches'[b].status = "FAILED" =>
                             \A k \in JobsOf(b)' : "FAILED" \in history'[k]
                      /\ batches'[b].status = "PARTIAL" =>
                             /\ \A k \in JobsOf(b)' : history'[k] # {}
                             /\ \E k \in JobsOf(b)' : "COMPLETED" \in history'[k]
    BY DEF VerdictEarned
  <2>1. batches' = batches /\ batches[b] # None /\ JobsOf(b)' = JobsOf(b)
    BY <1>1 DEF JobsOf
  <2>2. JobsOf(b) \subseteq Jobs
    <3>1. batches[b].jobs \in Seq(Jobs)
      BY <2>1, BatchTypes DEF IInv
    <3> QED
      BY <3>1 DEF JobsOf
  <2> QED
    BY <1>3, <2>1, <2>2 DEF IInv, VerdictEarned
<1>6. StatusRecorded'
  BY <1>1 DEF IInv, TypeOK, StatusRecorded
<1> QED
  BY <1>2, <1>4, <1>5, <1>6

\* An execution changes a status, and no request or batch.
LEMMA JobKeeps ==
    ASSUME IInv, NEW j \in Jobs, Start(j) \/ Settle(j) \/ Again(j)
    PROVE  IInv'
<1> USE ConstantFacts
<1>1. PICK s \in JobStatus \ {"none"} : SetStatus(j, s)
  <2>1. CASE Start(j)
    BY <2>1 DEF Start, JobStatus
  <2>2. CASE Settle(j)
    BY <2>2 DEF Settle, JobStatus
  <2>3. CASE Again(j)
    BY <2>3 DEF Again, JobStatus
  <2> QED
    BY <2>1, <2>2, <2>3
<1>2. again' \in [Jobs -> 0..MaxAgain] /\ UNCHANGED <<request, batches, updating>>
  <2>1. CASE Start(j) \/ Settle(j)
    BY <2>1 DEF Start, Settle, IInv, TypeOK
  <2>2. CASE Again(j)
    <3>1. again[j] + 1 \in 0..MaxAgain
      BY <2>2 DEF Again, IInv, TypeOK
    <3> QED
      BY <2>2, <3>1 DEF Again, IInv, TypeOK
  <2> QED
    BY <2>1, <2>2
<1>3. /\ status' \in [Jobs -> JobStatus]
      /\ history' \in [Jobs -> SUBSET {"COMPLETED", "FAILED"}]
      /\ \A k \in Jobs : status[k] # "none" => status'[k] # "none"
      /\ StatusRecorded' /\ CountSound' /\ VerdictEarned'
  BY <1>1, <1>2, SetStatusKeeps
<1>4. TypeOK'
  BY <1>2, <1>3 DEF IInv, TypeOK, updating
<1>5. RequestsSized' /\ BatchesAnswered'
  BY <1>2 DEF IInv, RequestsSized, BatchesAnswered
<1>6. JobsApart'
  <2>1. \A q \in Requests : Listed(request[q].jobs) \subseteq Jobs
    BY RequestTypes, ListedJobs DEF IInv
  <2>2. \A q \in Requests : Listed(request[q].jobs)' = Listed(request[q].jobs)
    BY <1>2 DEF Listed
  <2> QED
    BY <1>3, <2>1, <2>2 DEF IInv, JobsApart
<1> QED
  BY <1>3, <1>4, <1>5, <1>6 DEF IInv

-----------------------------------------------------------------------------
(* The requests.                                                           *)

\* A new job is in no request yet, and the adding request answered for no batch.
LEMMA AddJobKeeps ==
    ASSUME IInv, NEW q \in Requests, NEW j \in Jobs, AddJob(q, j)
    PROVE  IInv'
<1> USE ConstantFacts
<1>1. /\ request[q].stage = "adding" /\ request[q].files > 0 /\ status[j] = "none"
      /\ SetStatus(j, "QUEUED") /\ UNCHANGED <<again, batches, updating>>
  BY DEF AddJob
<1>2. /\ status' \in [Jobs -> JobStatus]
      /\ history' \in [Jobs -> SUBSET {"COMPLETED", "FAILED"}]
      /\ \A k \in Jobs : status[k] # "none" => status'[k] # "none"
      /\ StatusRecorded' /\ CountSound' /\ VerdictEarned'
  BY <1>1, SetStatusKeeps DEF JobStatus
<1>3. /\ request[q].id \in BatchIds /\ request[q].files \in 1..MaxFiles
      /\ request[q].jobs \in Seq(Jobs)
  <2>1. TypeOK
    BY DEF IInv
  <2>2. request[q].id \in BatchIds /\ request[q].files \in 0..MaxFiles
        /\ request[q].jobs \in Seq(Jobs)
    BY <2>1, RequestTypes
  <2> QED
    BY <1>1, <2>2
<1>4. request' = [request EXCEPT ![q] =
         [stage |-> "adding", id |-> request[q].id, files |-> request[q].files - 1,
          jobs |-> Append(request[q].jobs, j)]]
  <2> DEFINE r == request[q]
  <2>1. r = [stage |-> "adding", id |-> r.id, files |-> r.files, jobs |-> r.jobs]
    BY <1>1, RequestTypes DEF IInv
  <2>2. request' = [request EXCEPT ![q] =
                       [r EXCEPT !.files = r.files - 1, !.jobs = Append(r.jobs, j)]]
    BY DEF AddJob, IInv, TypeOK
  <2>3. ASSUME NEW f, NEW s
        PROVE  [r EXCEPT !.files = f, !.jobs = s] =
                   [stage |-> "adding", id |-> r.id, files |-> f, jobs |-> s]
    <3>1. [r EXCEPT !.files = f] =
              [stage |-> "adding", id |-> r.id, files |-> f, jobs |-> r.jobs]
      BY <2>1
    <3>2. [[stage |-> "adding", id |-> r.id, files |-> f, jobs |-> r.jobs] EXCEPT !.jobs = s] =
              [stage |-> "adding", id |-> r.id, files |-> f, jobs |-> s]
      OBVIOUS
    <3>3. [r EXCEPT !.files = f, !.jobs = s] = [[r EXCEPT !.files = f] EXCEPT !.jobs = s]
      OBVIOUS
    <3> QED
      BY <3>1, <3>2, <3>3
  <2> QED
    BY <2>2, <2>3
<1>5. /\ Append(request[q].jobs, j) \in Seq(Jobs)
      /\ Len(Append(request[q].jobs, j)) = Len(request[q].jobs) + 1
      /\ Len(request[q].jobs) \in Nat
      /\ Listed(Append(request[q].jobs, j)) = Listed(request[q].jobs) \cup {j}
  <2>1. /\ Append(request[q].jobs, j) \in Seq(Jobs)
        /\ Len(Append(request[q].jobs, j)) = Len(request[q].jobs) + 1
        /\ Len(request[q].jobs) \in Nat
    BY <1>3
  <2>2. \A k \in Listed(Append(request[q].jobs, j)) : k \in Listed(request[q].jobs) \cup {j}
    BY <1>3 DEF Listed
  <2>3. \A i \in DOMAIN request[q].jobs :
            /\ i \in DOMAIN Append(request[q].jobs, j)
            /\ Append(request[q].jobs, j)[i] = request[q].jobs[i]
    BY <1>3
  <2>4. /\ Len(request[q].jobs) + 1 \in DOMAIN Append(request[q].jobs, j)
        /\ Append(request[q].jobs, j)[Len(request[q].jobs) + 1] = j
    BY <1>3
  <2> QED
    BY <2>1, <2>2, <2>3, <2>4 DEF Listed
<1>6. TypeOK'
  <2>1. request' \in [Requests -> [stage : {"adding", "answered", "rejected"},
                                   id : BatchIds, files : 0..MaxFiles, jobs : Seq(Jobs)]]
    BY <1>3, <1>4, <1>5 DEF IInv, TypeOK
  <2> QED
    BY <1>1, <1>2, <2>1 DEF IInv, TypeOK, updating
<1>7. RequestsSized'
  BY <1>3, <1>4, <1>5 DEF IInv, TypeOK, RequestsSized
<1>8. JobsApart'
  <2>1. \A r \in Requests : Listed(request[r].jobs) \subseteq Jobs
    BY RequestTypes, ListedJobs DEF IInv
  <2>2. \A r \in Requests : j \notin Listed(request[r].jobs)
    BY <1>1 DEF IInv, JobsApart
  <2>3. \A r \in Requests :
            Listed(request[r].jobs)' =
                IF r = q THEN Listed(request[q].jobs) \cup {j} ELSE Listed(request[r].jobs)
    <3>1. \A r \in Requests :
              request'[r].jobs = IF r = q THEN Append(request[q].jobs, j) ELSE request[r].jobs
      BY <1>4 DEF IInv, TypeOK
    <3>2. \A r \in Requests : Listed(request[r].jobs)' = Listed(request'[r].jobs)
      BY DEF Listed
    <3> QED
      BY <1>5, <3>1, <3>2
  <2>4. status'[j] # "none"
    BY <1>1 DEF SetStatus, IInv, TypeOK
  <2>5. ASSUME NEW r \in Requests, NEW k \in Listed(request[r].jobs)'
        PROVE  status'[k] # "none"
    BY <1>2, <2>1, <2>3, <2>4, <2>5 DEF IInv, JobsApart
  <2>6. ASSUME NEW r \in Requests, NEW t \in Requests, r # t
        PROVE  Listed(request[r].jobs)' \cap Listed(request[t].jobs)' = {}
    BY <2>2, <2>3, <2>6 DEF IInv, JobsApart
  <2> QED
    BY <2>5, <2>6 DEF JobsApart
<1>9. BatchesAnswered'
  BY <1>1, <1>4 DEF IInv, TypeOK, BatchesAnswered
<1> QED
  BY <1>2, <1>6, <1>7, <1>8, <1>9 DEF IInv

\* A request that ends keeps its jobs; a batch is made where there was none, from
\* the jobs of a request that has answered for no other.
LEMMA RequestEndKeeps ==
    ASSUME IInv, NEW q \in Requests, RejectFile(q) \/ CreateBatch(q)
    PROVE  IInv'
<1> USE ConstantFacts
<1>1. request[q].stage = "adding" /\ UNCHANGED <<status, again, updating, history>>
  BY DEF RejectFile, CreateBatch
<1>2. PICK g \in {"answered", "rejected"} :
          request' = [request EXCEPT ![q] =
             [stage |-> g, id |-> request[q].id, files |-> request[q].files,
              jobs |-> request[q].jobs]]
  <2> DEFINE r == request[q]
  <2>1. r = [stage |-> r.stage, id |-> r.id, files |-> r.files, jobs |-> r.jobs]
    BY RequestTypes DEF IInv
  <2>2. PICK g \in {"answered", "rejected"} :
            request' = [request EXCEPT ![q] = [r EXCEPT !.stage = g]]
    <3>1. CASE RejectFile(q)
      BY <3>1 DEF RejectFile, IInv, TypeOK
    <3>2. CASE CreateBatch(q)
      BY <3>2 DEF CreateBatch, IInv, TypeOK
    <3> QED
      BY <3>1, <3>2
  <2>3. [r EXCEPT !.stage = g] = [stage |-> g, id |-> r.id, files |-> r.files, jobs |-> r.jobs]
    BY <2>1
  <2> QED
    BY <2>2, <2>3
<1>3. request' \in [Requests -> [stage : {"adding", "answered", "rejected"}, id : BatchIds,
                                 files : 0..MaxFiles, jobs : Seq(Jobs)]]
  BY <1>2, RequestTypes DEF IInv, TypeOK
<1>4. \A r \in Requests :
          /\ request'[r].jobs = request[r].jobs /\ request'[r].files = request[r].files
          /\ request'[r].id = request[r].id
          /\ request[r].stage = "answered" => request'[r].stage = "answered"
  BY <1>1, <1>2 DEF IInv, TypeOK
<1>5. RequestsSized' /\ JobsApart'
  <2>1. \A r \in Requests : Listed(request[r].jobs)' = Listed(request[r].jobs)
    BY <1>4 DEF Listed
  <2>2. RequestsSized'
    BY <1>4 DEF IInv, RequestsSized
  <2>3. JobsApart'
    BY <1>1, <1>4, <2>1 DEF IInv, JobsApart
  <2> QED
    BY <2>2, <2>3
<1>6. CASE batches' = batches
  <2>1. TypeOK' /\ StatusRecorded'
    BY <1>1, <1>3, <1>6 DEF IInv, TypeOK, StatusRecorded, updating
  <2>2. BatchesAnswered'
    BY <1>4, <1>6 DEF IInv, BatchesAnswered
  <2>3. CountSound'
    BY <1>1, <1>6 DEF IInv, CountSound, Earned, updating
  <2>4. VerdictEarned'
    BY <1>1, <1>6 DEF IInv, VerdictEarned, JobsOf
  <2> QED
    BY <1>5, <2>1, <2>2, <2>3, <2>4 DEF IInv
<1>7. CASE batches' # batches
  <2> DEFINE b == request[q].id
             new == [jobs |-> request[q].jobs, status |-> "PENDING"]
  <2>1. /\ batches[b] = None /\ reading = None
        /\ batches' = [batches EXCEPT ![b] = new]
        /\ request' = [request EXCEPT ![q].stage = "answered"]
    BY <1>7 DEF RejectFile, CreateBatch
  <2>2. b \in BatchIds /\ request[q].jobs \in Seq(Jobs)
    BY RequestTypes DEF IInv
  <2>3. batches' \in [BatchIds -> {None} \cup [jobs : Seq(Jobs), status : BatchStatus]]
    BY <2>1, <2>2 DEF IInv, TypeOK, BatchStatus
  <2>4. TypeOK' /\ StatusRecorded'
    BY <1>1, <1>3, <2>3 DEF IInv, TypeOK, StatusRecorded, updating
  <2>5. BatchesAnswered'
    <3>1. request'[q].stage = "answered"
      <4>1. CASE RejectFile(q)
        BY <1>7, <4>1 DEF RejectFile
      <4>2. CASE CreateBatch(q)
        BY <2>1, RequestTypes DEF IInv, TypeOK
      <4> QED
        BY <4>1, <4>2
    <3>2. ASSUME NEW d \in BatchIds, batches'[d] # None
          PROVE  \E r \in Requests : /\ request'[r].stage = "answered" /\ request'[r].id = d
                                     /\ request'[r].jobs = batches'[d].jobs
      <4>1. CASE d = b
        BY <1>4, <2>1, <2>2, <3>1, <4>1 DEF IInv, TypeOK
      <4>2. CASE d # b
        BY <1>4, <2>1, <3>2, <4>2 DEF IInv, TypeOK, BatchesAnswered
      <4> QED
        BY <4>1, <4>2
    <3> QED
      BY <3>2 DEF BatchesAnswered
  <2>6. CountSound'
    BY <1>1, <2>1 DEF IInv, CountSound, updating
  <2>7. VerdictEarned'
    <3>1. batches'[b].status = "PENDING"
      BY <2>1, <2>2 DEF IInv, TypeOK
    <3>2. \A d \in BatchIds : d # b => batches'[d] = batches[d]
      BY <2>1 DEF IInv, TypeOK
    <3>3. \A d \in BatchIds : d # b => JobsOf(d)' = JobsOf(d)
      BY <3>2 DEF JobsOf
    <3> QED
      BY <1>1, <2>2, <3>1, <3>2, <3>3 DEF IInv, VerdictEarned
  <2> QED
    BY <1>5, <2>4, <2>5, <2>6, <2>7 DEF IInv
<1> QED
  BY <1>6, <1>7

-----------------------------------------------------------------------------
(* The update of a batch.                                                  *)

Total(c) == c.pending + c.running + c.completed + c.failed

LEMMA CountedAddsOne ==
    ASSUME NEW c \in BatchStats, NEW s \in JobStatus
    PROVE  /\ Counted(c, s) \in BatchStats
           /\ Counted(c, s).pending = c.pending + (IF s = "QUEUED" THEN 1 ELSE 0)
           /\ Counted(c, s).running = c.running + (IF s = "RUNNING" THEN 1 ELSE 0)
           /\ Counted(c, s).completed = c.completed + (IF s = "COMPLETED" THEN 1 ELSE 0)
           /\ Counted(c, s).failed = c.failed + (IF s = "FAILED" THEN 1 ELSE 0)
           /\ Total(Counted(c, s)) <= Total(c) + 1
<1> USE DEF Total
<1>1. CASE s = "QUEUED"
  <2>1. Counted(c, s) = [c EXCEPT !.pending = c.pending + 1]
    BY <1>1 DEF Counted
  <2> QED
    BY <1>1, <2>1 DEF BatchStats
<1>2. CASE s = "RUNNING"
  <2>1. Counted(c, s) = [c EXCEPT !.running = c.running + 1]
    BY <1>2 DEF Counted
  <2> QED
    BY <1>2, <2>1 DEF BatchStats
<1>3. CASE s = "COMPLETED"
  <2>1. Counted(c, s) = [c EXCEPT !.completed = c.completed + 1]
    BY <1>3 DEF Counted
  <2> QED
    BY <1>3, <2>1 DEF BatchStats
<1>4. CASE s = "FAILED"
  <2>1. Counted(c, s) = [c EXCEPT !.failed = c.failed + 1]
    BY <1>4 DEF Counted
  <2> QED
    BY <1>4, <2>1 DEF BatchStats
<1>5. CASE s \in {"none", "PARTIAL_SUCCESS"}
  <2>1. Counted(c, s) = c
    BY <1>5 DEF Counted
  <2> QED
    BY <1>5, <2>1 DEF BatchStats
<1> QED
  BY <1>1, <1>2, <1>3, <1>4, <1>5 DEF JobStatus

\* A job that is read has been what it is counted as.
LEMMA ReadJobKeeps ==
    ASSUME IInv, ReadJob
    PROVE  IInv'
<1> USE ConstantFacts
<1> DEFINE jobs == batches[reading].jobs
           s == status[jobs[place]]
<1>1. /\ reading # None /\ place <= Len(jobs)
      /\ stats' = Counted(stats, s) /\ place' = place + 1
      /\ UNCHANGED <<status, again, request, batches, reading, history>>
  BY DEF ReadJob
<1>2. /\ reading \in BatchIds /\ batches[reading] # None
      /\ place \in Nat \ {0} /\ place - 1 \in Nat
      /\ Earned(stats, jobs, place - 1)
  BY <1>1 DEF IInv, TypeOK, CountSound
<1>3. jobs \in Seq(Jobs) /\ Len(jobs) \in 0..MaxFiles
  BY <1>2, BatchTypes, BatchSized DEF IInv
<1>4. jobs[place] \in Jobs /\ s \in JobStatus
  BY <1>1, <1>2, <1>3 DEF IInv, TypeOK
<1>5. /\ stats.pending \in Nat /\ stats.running \in Nat
      /\ stats.completed \in Nat /\ stats.failed \in Nat
      /\ Total(stats) \in Nat /\ Total(stats) < place
      /\ stats \in BatchStats
  BY DEF IInv, TypeOK, BatchStats, Total
<1>6. /\ stats.completed + stats.failed <= place - 1
       /\ stats.completed <= place - 1 /\ stats.failed <= place - 1
  BY <1>2, <1>5 DEF Total
<1>7. /\ stats' \in BatchStats
      /\ stats'.pending = stats.pending + (IF s = "QUEUED" THEN 1 ELSE 0)
      /\ stats'.running = stats.running + (IF s = "RUNNING" THEN 1 ELSE 0)
      /\ stats'.completed = stats.completed + (IF s = "COMPLETED" THEN 1 ELSE 0)
      /\ stats'.failed = stats.failed + (IF s = "FAILED" THEN 1 ELSE 0)
      /\ Total(stats') <= Total(stats) + 1
  BY <1>1, <1>4, <1>5, CountedAddsOne
<1>8. TypeOK' /\ StatusRecorded'
  <2>1. stats'.pending + stats'.running + stats'.completed + stats'.failed < place'
    <3>1. Total(stats') \in Nat
      BY <1>7 DEF BatchStats, Total
    <3>2. Total(stats') < place'
      BY <1>1, <1>2, <1>5, <1>7, <3>1
    <3> QED
      BY <3>2 DEF Total
  <2>2. place' \in 1..MaxFiles + 1
    BY <1>1, <1>2, <1>3
  <2> QED
    BY <1>1, <1>7, <2>1, <2>2 DEF IInv, TypeOK, StatusRecorded
<1>9. /\ s = "COMPLETED" => "COMPLETED" \in history[jobs[place]]
      /\ s = "FAILED" => "FAILED" \in history[jobs[place]]
  BY <1>4 DEF IInv, StatusRecorded
<1>10. CountSound'
  <2>1. Earned(stats', jobs, place)
    <3> HIDE DEF s, jobs
    <3>1. \A i \in 1..place : i \in 1..(place - 1) \/ i = place
      BY <1>2
    <3>2. 1..(place - 1) \subseteq 1..place /\ place \in 1..place
      BY <1>2
    <3>3. ASSUME stats'.completed = place
          PROVE  \A i \in 1..place : "COMPLETED" \in history[jobs[i]]
      <4>1. stats.completed = place - 1 /\ s = "COMPLETED"
        BY <1>2, <1>5, <1>6, <1>7, <3>3
      <4> QED
        BY <1>2, <1>9, <3>1, <4>1 DEF Earned
    <3>4. ASSUME stats'.failed = place
          PROVE  \A i \in 1..place : "FAILED" \in history[jobs[i]]
      <4>1. stats.failed = place - 1 /\ s = "FAILED"
        <5>1. CASE s = "FAILED"
          BY <1>2, <1>5, <1>7, <3>4, <5>1
        <5>2. CASE s # "FAILED"
          <6>1. stats'.failed = stats.failed
            BY <1>5, <1>7, <5>2
          <6> QED
            BY <1>2, <1>5, <1>6, <3>4, <6>1
        <5> QED
          BY <5>1, <5>2
      <4> QED
        BY <1>2, <1>9, <3>1, <4>1 DEF Earned
    <3>5. ASSUME stats'.completed + stats'.failed = place
          PROVE  \A i \in 1..place : history[jobs[i]] # {}
      <4>1. stats.completed + stats.failed = place - 1 /\ s \in {"COMPLETED", "FAILED"}
        <5>1. CASE s = "COMPLETED"
          <6>1. stats'.completed = stats.completed + 1 /\ stats'.failed = stats.failed
            BY <1>5, <1>7, <5>1
          <6> QED
            BY <1>2, <1>5, <3>5, <5>1, <6>1
        <5>2. CASE s = "FAILED"
          <6>1. stats'.completed = stats.completed /\ stats'.failed = stats.failed + 1
            BY <1>5, <1>7, <5>2
          <6> QED
            BY <1>2, <1>5, <3>5, <5>2, <6>1
        <5>3. CASE s \notin {"COMPLETED", "FAILED"}
          <6>1. stats'.completed = stats.completed /\ stats'.failed = stats.failed
            BY <1>5, <1>7, <5>3
          <6> QED
            BY <1>2, <1>5, <1>6, <3>5, <6>1
        <5> QED
          BY <5>1, <5>2, <5>3
      <4> QED
        BY <1>2, <1>9, <3>1, <4>1 DEF Earned
    <3>6. ASSUME stats'.completed > 0
          PROVE  \E i \in 1..place : "COMPLETED" \in history[jobs[i]]
      <4>1. stats.completed > 0 \/ s = "COMPLETED"
        BY <1>5, <1>7, <3>6
      <4> QED
        BY <1>2, <1>9, <3>2, <4>1 DEF Earned
    <3> QED
      BY <3>3, <3>4, <3>5, <3>6 DEF Earned
  <2>2. Earned(stats, batches[reading].jobs, place - 1)'
    <3>1. place' - 1 = place
      BY <1>1, <1>2
    <3> QED
      BY <1>1, <2>1, <3>1 DEF Earned
  <2>3. place' <= Len(batches'[reading'].jobs) + 1
    BY <1>1, <1>2, <1>3
  <2> QED
    BY <1>1, <1>2, <2>2, <2>3 DEF CountSound
<1>11. RequestsSized' /\ JobsApart' /\ BatchesAnswered'
  BY <1>1 DEF IInv, RequestsSized, JobsApart, BatchesAnswered
<1>12. VerdictEarned'
  BY <1>1 DEF IInv, VerdictEarned, JobsOf
<1> QED
  BY <1>8, <1>10, <1>11, <1>12 DEF IInv

LEMMA BeginUpdateKeeps ==
    ASSUME IInv, NEW b \in BatchIds, BeginUpdate(b)
    PROVE  IInv'
<1> USE ConstantFacts
<1>1. /\ reading = None /\ batches[b] # None /\ reading' = b
      /\ UNCHANGED <<status, again, request, batches, place, stats, history>>
  BY DEF BeginUpdate
<1>2. place = 1 /\ stats = NoStats
  BY <1>1 DEF IInv, CountSound
<1>3. Len(batches[b].jobs) \in Nat
  BY <1>1, BatchSized
<1>4. TypeOK' /\ StatusRecorded'
  BY <1>1 DEF IInv, TypeOK, StatusRecorded
<1>5. CountSound'
  <2>1. Earned(stats, batches[b].jobs, 0)
    BY <1>2 DEF Earned, NoStats
  <2> QED
    BY <1>1, <1>2, <1>3, <2>1 DEF CountSound, Earned
<1>6. RequestsSized' /\ JobsApart' /\ BatchesAnswered'
  BY <1>1 DEF IInv, RequestsSized, JobsApart, BatchesAnswered
<1>7. VerdictEarned'
  BY <1>1 DEF IInv, VerdictEarned, JobsOf
<1> QED
  BY <1>4, <1>5, <1>6, <1>7 DEF IInv

\* When all jobs are counted, the counts have earned the verdict.
LEMMA EndUpdateKeeps ==
    ASSUME IInv, EndUpdate
    PROVE  IInv'
<1> USE ConstantFacts
<1> DEFINE jobs == batches[reading].jobs
           verdict == Verdict(stats, Len(jobs))
<1>1. /\ reading # None /\ place > Len(jobs)
      /\ batches' = [batches EXCEPT ![reading].status = verdict]
      /\ reading' = None /\ place' = 1 /\ stats' = NoStats
      /\ UNCHANGED <<status, again, request, history>>
  BY DEF EndUpdate
<1>2. /\ reading \in BatchIds /\ batches[reading] # None /\ place \in Nat
      /\ place <= Len(jobs) + 1 /\ Earned(stats, jobs, place - 1)
  BY <1>1 DEF IInv, TypeOK, CountSound
<1>3. /\ jobs \in Seq(Jobs) /\ Len(jobs) \in Nat
      /\ batches[reading] = [jobs |-> jobs, status |-> batches[reading].status]
  BY <1>2, BatchTypes, BatchSized DEF IInv
<1>4. verdict \in BatchStatus
  BY DEF Verdict, BatchStatus
<1>5. batches' = [batches EXCEPT ![reading] = [jobs |-> jobs, status |-> verdict]]
  <2> HIDE DEF verdict
  <2>1. [batches[reading] EXCEPT !.status = verdict] = [jobs |-> jobs, status |-> verdict]
    BY <1>3
  <2> QED
    BY <1>1, <1>2, <2>1 DEF IInv, TypeOK
<1>6. batches' \in [BatchIds -> {None} \cup [jobs : Seq(Jobs), status : BatchStatus]]
  <2> HIDE DEF verdict, jobs
  <2> QED
    BY <1>2, <1>3, <1>4, <1>5 DEF IInv, TypeOK
<1>7. \A b \in BatchIds : b # reading => batches'[b] = batches[b]
  BY <1>5 DEF IInv, TypeOK
<1>8. batches'[reading].jobs = jobs /\ batches'[reading].status = verdict
  <2> HIDE DEF verdict, jobs
  <2> QED
    BY <1>2, <1>5 DEF IInv, TypeOK
<1>9. TypeOK' /\ StatusRecorded'
  BY <1>1, <1>6 DEF IInv, TypeOK, StatusRecorded, NoStats, BatchStats
<1>10. RequestsSized' /\ JobsApart' /\ CountSound'
  BY <1>1 DEF IInv, RequestsSized, JobsApart, CountSound
<1>11. BatchesAnswered'
  <2>1. ASSUME NEW b \in BatchIds, batches'[b] # None
        PROVE  batches[b] # None /\ batches'[b].jobs = batches[b].jobs
    BY <1>2, <1>7, <1>8, <2>1
  <2> QED
    BY <1>1, <2>1 DEF IInv, BatchesAnswered
<1>12. VerdictEarned'
  <2>1. place - 1 = Len(jobs)
    BY <1>1, <1>2, <1>3
  <2>2. Earned(stats, jobs, Len(jobs))
    BY <1>2, <2>1
  <2>3. ASSUME NEW b \in BatchIds, b = reading
        PROVE  /\ verdict = "COMPLETED" => \A j \in JobsOf(b)' : "COMPLETED" \in history'[j]
               /\ verdict = "FAILED" => \A j \in JobsOf(b)' : "FAILED" \in history'[j]
               /\ verdict = "PARTIAL" => /\ \A j \in JobsOf(b)' : history'[j] # {}
                                         /\ \E j \in JobsOf(b)' : "COMPLETED" \in history'[j]
    <3>1. JobsOf(b)' = {jobs[i] : i \in 1..Len(jobs)}
      BY <1>3, <1>8, <2>3 DEF JobsOf
    <3>2. /\ verdict = "COMPLETED" => stats.completed = Len(jobs)
          /\ verdict = "FAILED" => stats.failed = Len(jobs)
          /\ verdict = "PARTIAL" => /\ stats.completed + stats.failed = Len(jobs)
                                    /\ stats.completed > 0
      BY DEF Verdict
    <3> HIDE DEF verdict
    <3> QED
      BY <1>1, <2>2, <3>1, <3>2 DEF Earned
  <2>4. ASSUME NEW b \in BatchIds, b # reading
        PROVE  batches'[b] = batches[b] /\ JobsOf(b)' = JobsOf(b)
    BY <1>7, <2>4 DEF JobsOf
  <2> HIDE DEF verdict
  <2> QED
    BY <1>1, <1>8, <2>3, <2>4 DEF IInv, VerdictEarned
<1> QED
  BY <1>9, <1>10, <1>11, <1>12 DEF IInv

-----------------------------------------------------------------------------
(* The theorems.                                                           *)

LEMMA InvKept == IInv /\ [Next]_vars => IInv'
<1> SUFFICES ASSUME IInv, [Next]_vars PROVE IInv'
  OBVIOUS
<1>1. CASE UNCHANGED vars
  <2>1. TypeOK' /\ StatusRecorded'
    BY <1>1 DEF vars, updating, IInv, TypeOK, StatusRecorded
  <2>2. RequestsSized' /\ JobsApart' /\ BatchesAnswered'
    BY <1>1 DEF vars, updating, IInv, RequestsSized, JobsApart, BatchesAnswered
  <2>3. CountSound' /\ VerdictEarned'
    BY <1>1 DEF vars, updating, IInv, CountSound, Earned, VerdictEarned, JobsOf
  <2> QED
    BY <2>1, <2>2, <2>3 DEF IInv
<1>2. ASSUME NEW q \in Requests,
             CreateBatch(q) \/ RejectFile(q) \/ \E j \in Jobs : AddJob(q, j)
      PROVE  IInv'
  BY <1>2, RequestEndKeeps, AddJobKeeps
<1>3. ASSUME NEW j \in Jobs, Start(j) \/ Settle(j) \/ Again(j)
      PROVE  IInv'
  BY <1>3, JobKeeps
<1>4. ASSUME NEW b \in BatchIds, BeginUpdate(b)
      PROVE  IInv'
  BY <1>4, BeginUpdateKeeps
<1>5. CASE ReadJob \/ EndUpdate
  BY <1>5, ReadJobKeeps, EndUpdateKeeps
<1> QED
  BY <1>1, <1>2, <1>3, <1>4, <1>5 DEF Next

\* The variables keep their types, and an update counts a job once at most
\* (CreateBatch, calculateBatchStats).
THEOREM TypeCorrect == Spec => []TypeOK
<1>1. IInv => TypeOK
  BY DEF IInv
<1> QED
  BY <1>1, InvInitially, InvKept, PTL DEF Spec

\* UpdateBatchStatus calls a batch COMPLETED, FAILED or PARTIAL only when each of
\* its jobs has been what the verdict says of it, although they are read one by
\* one while the executions change them.
THEOREM VerdictEarnedCorrect == Spec => []VerdictEarned
<1>1. IInv => VerdictEarned
  BY DEF IInv
<1> QED
  BY <1>1, InvInitially, InvKept, PTL DEF Spec

\* A step keeps the jobs of every batch.
LEMMA StepKeepsBatches ==
    ASSUME IInv, Next, NEW b \in BatchIds, batches[b] # None
    PROVE  batches'[b] # None /\ batches'[b].jobs = batches[b].jobs
<1>1. ASSUME NEW q \in Requests, CreateBatch(q)
      PROVE  batches'[b] = batches[b]
  BY <1>1 DEF CreateBatch, IInv, TypeOK
<1>2. CASE EndUpdate
  <2> DEFINE v == Verdict(stats, Len(batches[reading].jobs))
  <2>1. reading \in BatchIds /\ batches[reading] # None
    BY <1>2 DEF EndUpdate, IInv, TypeOK, CountSound
  <2>2. batches' = [batches EXCEPT ![reading] = [batches[reading] EXCEPT !.status = v]]
    BY <1>2 DEF EndUpdate, IInv, TypeOK
  <2>3. v \in BatchStatus
    BY DEF Verdict, BatchStatus
  <2> HIDE DEF v
  <2>4. [batches[reading] EXCEPT !.status = v] =
            [jobs |-> batches[reading].jobs, status |-> v]
    <3>1. batches[reading] = [jobs |-> batches[reading].jobs, status |-> batches[reading].status]
      BY <2>1, BatchTypes DEF IInv
    <3> QED
      BY <3>1
  <2>5. CASE b # reading
    BY <2>2, <2>5 DEF IInv, TypeOK
  <2>6. CASE b = reading
    <3>1. batches'[b] = [jobs |-> batches[b].jobs, status |-> v]
      BY <2>1, <2>2, <2>4, <2>6 DEF IInv, TypeOK
    <3>2. batches[b].jobs \in Seq(Jobs)
      BY BatchTypes DEF IInv
    <3> QED
      BY <2>3, <3>1, <3>2, ConstantFacts
  <2> QED
    BY <2>5, <2>6
<1>3. \/ \E q \in Requests : CreateBatch(q)
      \/ EndUpdate
      \/ batches' = batches
  BY DEF Next, RejectFile, AddJob, Start, Settle, Again, BeginUpdate, ReadJob
<1> QED
  BY <1>1, <1>2, <1>3

\* No request changes the jobs of a batch that exists, and no job is in two
\* batches (CreateBatch refuses an identifier it knows; a request's jobs are its
\* own).
THEOREM BatchesKeptCorrect == Spec => BatchesKept
<1> DEFINE Kept ==
        \A b \in BatchIds : batches[b] # None =>
          /\ batches'[b] # None /\ batches'[b].jobs = batches[b].jobs
          /\ \A c \in BatchIds \ {b} :
                 batches'[c] # None => JobsOf(b)' \cap JobsOf(c)' = {}
<1>1. IInv /\ IInv' /\ [Next]_vars => [Kept]_vars
  <2> SUFFICES ASSUME IInv, IInv', Next PROVE Kept
    OBVIOUS
  <2>1. ASSUME NEW b \in BatchIds, NEW c \in BatchIds \ {b},
               batches'[b] # None, batches'[c] # None
        PROVE  JobsOf(b)' \cap JobsOf(c)' = {}
    <3>1. PICK q \in Requests : request'[q].id = b /\ request'[q].jobs = batches'[b].jobs
      BY <2>1 DEF IInv, BatchesAnswered
    <3>2. PICK r \in Requests : request'[r].id = c /\ request'[r].jobs = batches'[c].jobs
      BY <2>1 DEF IInv, BatchesAnswered
    <3>3. q # r
      BY <3>1, <3>2
    <3> QED
      BY <3>1, <3>2, <3>3 DEF IInv, JobsApart, JobsOf, Listed
  <2> QED
    BY <2>1, StepKeepsBatches
<1> QED
  BY <1>1, InvInitially, InvKept, PTL DEF Spec, BatchesKept
=============================================================================
