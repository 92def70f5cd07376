------------------------------ MODULE Storage -------------------------------
(***************************************************************************)
(* What stays on the disk of the service: the job directories, the dead    *)
(* letter directory among them, and the file of the deduplication cache;   *)
(* with the cleanup worker that removes directories when the disk fills,   *)
(* requests that delete or resume a job, whatever it is doing, and a crash *)
(* of the process at any moment.                                           *)
(*                                                                         *)
(* An execution is reduced to what it leaves here, and a job has one at a  *)
(* time.  The disk's usage is the number of directories that hold output;  *)
(* how old a directory is, is chosen when the cleanup looks at it.         *)
(***************************************************************************)
EXTENDS Naturals, FiniteSets, SequencesExt

CONSTANTS
    Jobs,        \* the jobs of the service, over all its restarts
    Hashes,      \* hashes of input files
    HashOf,      \* the hash of each job's input
    Stuck,       \* jobs whose directory cannot be removed
    Threshold,   \* DISK_THRESHOLD_PERCENT, in directories
    HardLimit,   \* DISK_HARD_LIMIT_PERCENT, in directories
    Margin,      \* the 5 percent between the threshold and the target
    MaxAge,      \* bound: the highest class of age that occurs
    MaxOutputs,  \* bound: outputs of a job, over all its attempts in a process
    MaxCrashes,  \* bound: crashes of the process
    Dlq,         \* the name of the dead letter directory
    None         \* no directory, no job, no readable file

ASSUME StorageAssumption ==
    /\ IsFiniteSet(Jobs) /\ HashOf \in [Jobs -> Hashes] /\ Stuck \subseteq Jobs
    /\ Threshold \in Nat /\ HardLimit \in Nat /\ Threshold <= HardLimit
    /\ Margin \in Nat /\ 2 * Margin <= Threshold
    /\ MaxAge \in 0..4 /\ MaxOutputs \in Nat /\ MaxCrashes \in Nat
    /\ Dlq \notin Jobs /\ None \notin Jobs \cup {Dlq}

VARIABLES
    dir,       \* the directories under outputs, or None
    cache,     \* hashMap: a job for each hash, or None
    file,      \* dedup.json, or None while it is torn
    saving,    \* a Store holds the cache's mutex and is writing the file
    known,     \* the jobs in the repository
    phase,     \* what each job is doing
    deleting,  \* a DeleteJob that has removed the files, and how it found the job
    wrote,     \* outputs each job has written
    mark,      \* state.Status of a running job, in memory
    list,      \* AutoCleanup: the jobs it has still to consider
    target,    \* AutoCleanup: it stops below this usage
    orphans,   \* resumeOrphanedJobs: the states found and not yet looked up
    crashes,
    finished,  \* history: jobs that published an output of their own
    gone       \* history: jobs deleted while they were at rest

cleaner == <<list, target>>
running == <<phase, mark, wrote>>
record  == <<known, deleting, gone>>
dedup   == <<cache, file, saving>>
others  == <<cleaner, orphans, crashes>>
vars    == <<dir, dedup, running, record, others, finished>>

Names  == Jobs \cup {Dlq}
StateStatus == {"processing", "completed", "partial_success", "failed", "unknown"}
Directory == [status : StateStatus, output : BOOLEAN]
\* "lost": its execution is over or died with the process, and left no record.
AtRest == {"COMPLETED", "PARTIAL_SUCCESS", "FAILED", "lost"}
Phase  == {"new", "queued", "working", "encoding", "published", "stored", "resuming"}
          \cup AtRest

Usage == Cardinality({n \in Names : dir[n] # None /\ dir[n].output})

\* SaveState makes the directory if need be.
SaveState(j, status, output) ==
    dir' = [dir EXCEPT ![j] = [status |-> status, output |-> output]]

\* The dead letter directory holds no state that getJobStatus could read.
DlqDirectory == [status |-> "unknown", output |-> FALSE]

HasOutput(j) == dir[j] # None /\ dir[j].output

Init ==
    /\ dir = [n \in Names |-> IF n = Dlq THEN DlqDirectory ELSE None]
    /\ cache = [h \in Hashes |-> None] /\ file = cache /\ saving = FALSE
    /\ known = {} /\ deleting = [j \in Jobs |-> "no"] /\ gone = {}
    /\ phase = [j \in Jobs |-> "new"] /\ mark = [j \in Jobs |-> "processing"]
    /\ wrote = [j \in Jobs |-> 0]
    /\ list = << >> /\ target = 0
    /\ orphans = {} /\ crashes = 0 /\ finished = {}

-----------------------------------------------------------------------------
(* Jobs.                                                                   *)

\* CanAcceptNewJob guards CreateJob only: a scheduled job or one of a batch is
\* accepted whatever the usage.
Create(j) ==
    /\ phase[j] = "new"
    /\ phase' = [phase EXCEPT ![j] = "queued"]
    /\ known' = known \cup {j}
    /\ UNCHANGED <<dir, mark, wrote, dedup, deleting, gone, others, finished>>

\* The attempt of a job that has no record ends where UpdateStatus fails, and so
\* does every retry.  A state that is there says whether the duplicate check is done.
AttemptLeadsTo(j) ==
    IF j \notin known THEN {"queued", "lost"}
    ELSE IF dir[j] = None THEN {"working"}
    ELSE IF phase[j] = "queued" THEN {"working", "encoding"} ELSE {phase[j]}

\* Mutant of NextAttempt: a state made anew has no status.
NextUnset(j) ==
    /\ phase[j] \in {"queued", "working", "encoding"}
    /\ \E p \in AttemptLeadsTo(j) : phase' = [phase EXCEPT ![j] = p]
    /\ mark' = [mark EXCEPT ![j] = IF dir[j] = None THEN "" ELSE dir[j].status]
    /\ UNCHANGED <<dir, dedup, wrote, record, others, finished>>

\* getOrCreateState and UpdateStatus, of the first attempt or of a retry.  A
\* state that is gone is made anew, also that of a job deleted in the meantime.
NextAttempt(j) ==
    /\ phase[j] \in {"queued", "working", "encoding"}
    /\ \E p \in AttemptLeadsTo(j) : phase' = [phase EXCEPT ![j] = p]
    /\ IF dir[j] = None
       THEN /\ SaveState(j, "processing", FALSE)
            /\ mark' = [mark EXCEPT ![j] = "processing"]
       ELSE /\ mark' = [mark EXCEPT ![j] = dir[j].status]
            /\ UNCHANGED dir
    /\ UNCHANGED <<dedup, wrote, record, others, finished>>

\* stepDeduplication found nothing.
PassDuplicateCheck(j) ==
    /\ phase[j] = "working" /\ j \in known /\ cache[HashOf[j]] = None /\ ~saving
    /\ phase' = [phase EXCEPT ![j] = "encoding"]
    /\ SaveState(j, mark[j], HasOutput(j))
    /\ UNCHANGED <<dedup, mark, wrote, record, others, finished>>

\* Mutant of Reuse: the duplicate puts itself into the cache.
ReuseStores(j) ==
    /\ phase[j] = "working" /\ j \in known /\ cache[HashOf[j]] # None /\ ~saving
    /\ phase' = [phase EXCEPT ![j] = "COMPLETED"]
    /\ SaveState(j, "completed", HasOutput(j))
    /\ cache' = [cache EXCEPT ![HashOf[j]] = j]
    /\ UNCHANGED <<mark, wrote, file, saving, record, others, finished>>

\* stepDeduplication: the job is COMPLETED without an output of its own.
Reuse(j) ==
    /\ phase[j] = "working" /\ j \in known /\ cache[HashOf[j]] # None /\ ~saving
    /\ phase' = [phase EXCEPT ![j] = "COMPLETED"]
    /\ SaveState(j, "completed", HasOutput(j))
    /\ UNCHANGED <<mark, wrote, dedup, record, others, finished>>

\* A quality; the directory may have been removed, the job deleted.
Encode(j) ==
    /\ phase[j] = "encoding" /\ wrote[j] < MaxOutputs
    /\ wrote' = [wrote EXCEPT ![j] = @ + 1]
    /\ SaveState(j, mark[j], TRUE)
    /\ UNCHANGED <<dedup, phase, mark, record, others, finished>>

\* UpdateHeartbeat saves the state it has loaded, perhaps just before the
\* directory was removed.
Heartbeat(j) ==
    /\ phase[j] \in {"working", "encoding", "published", "stored"}
    /\ SaveState(j, IF dir[j] = None THEN mark[j] ELSE dir[j].status, HasOutput(j))
    /\ UNCHANGED <<dedup, running, record, others, finished>>

\* EnforceJobSizeLimit removes the files, the state is saved anew; the attempt
\* fails with a code that is retried.
ExceedLimit(j) ==
    /\ phase[j] = "encoding"
    /\ mark' = [mark EXCEPT ![j] = "failed"]
    /\ SaveState(j, "failed", j \in Stuck /\ HasOutput(j))
    /\ UNCHANGED <<dedup, phase, wrote, record, others, finished>>

\* stepFinalization: SetMetadata publishes the output; it fails without a record.
Publish(j) ==
    /\ phase[j] = "encoding" /\ j \in known
    /\ phase' = [phase EXCEPT ![j] = "published"]
    /\ finished' = finished \cup {j}
    /\ UNCHANGED <<dir, dedup, mark, wrote, record, others>>

\* GetJob found the record.  Store puts the job into the map, opens the file ...
Store(j) ==
    /\ phase[j] = "published" /\ j \in known /\ ~saving
    /\ phase' = [phase EXCEPT ![j] = "stored"]
    /\ cache' = [cache EXCEPT ![HashOf[j]] = j]
    /\ file' = None /\ saving' = TRUE
    /\ UNCHANGED <<dir, mark, wrote, record, others, finished>>

\* ... and writes it, unless the disk is full, which nobody looks at; then the
\* state is saved, also into a directory that has just been removed.
Finish(j) ==
    /\ phase[j] = "stored"
    /\ saving' = FALSE /\ file' \in {cache, None}
    /\ \/ /\ phase' = [phase EXCEPT ![j] = "COMPLETED"]
          /\ SaveState(j, "completed", HasOutput(j))
       \/ /\ phase' = [phase EXCEPT ![j] = "PARTIAL_SUCCESS"]
          /\ SaveState(j, "partial_success", HasOutput(j))
    /\ UNCHANGED <<cache, mark, wrote, record, others, finished>>

\* Execute gives up; the state file is left as it is.  What MoveToDLQ writes is no
\* directory of its own and is left out here.
GiveUp(j) ==
    /\ phase[j] \in {"working", "encoding"}
    /\ phase' = [phase EXCEPT ![j] = IF j \in known THEN "FAILED" ELSE "lost"]
    /\ UNCHANGED <<dir, mark, wrote, dedup, record, others, finished>>

-----------------------------------------------------------------------------
(* Requests.                                                               *)

\* ResumeJob: GetJob and the check of the status; a deletion under way is no
\* longer one of a job at rest ...
ResumeCheck(j) ==
    /\ phase[j] = "FAILED" /\ j \in known
    /\ phase' = [phase EXCEPT ![j] = "resuming"]
    /\ deleting' = [deleting EXCEPT ![j] = IF @ = "no" THEN "no" ELSE "crossed"]
    /\ UNCHANGED <<dir, dedup, mark, wrote, known, gone, others, finished>>

\* ... and the send of the job, which may have been deleted since.
ResumeSend(j) ==
    /\ phase[j] = "resuming"
    /\ phase' = [phase EXCEPT ![j] = "queued"]
    /\ UNCHANGED <<dir, dedup, mark, wrote, record, others, finished>>

\* What a deletion finds the job doing.
Finds(j) == IF phase[j] \in AtRest THEN "at_rest" ELSE "crossed"

\* Mutant of DeleteFiles: a directory that cannot be removed is passed over.
DeleteAnyway(j) ==
    /\ j \in known /\ deleting[j] = "no"
    /\ dir' = IF j \in Stuck THEN dir ELSE [dir EXCEPT ![j] = None]
    /\ deleting' = [deleting EXCEPT ![j] = Finds(j)]
    /\ UNCHANGED <<dedup, running, known, gone, others, finished>>

\* DeleteJob, whatever the job's status: DeleteJobFiles, whose error ends the
\* request (one at a time for a job) ...
DeleteFiles(j) ==
    /\ j \in known /\ deleting[j] = "no" /\ (dir[j] # None => j \notin Stuck)
    /\ dir' = [dir EXCEPT ![j] = None]
    /\ deleting' = [deleting EXCEPT ![j] = Finds(j)]
    /\ UNCHANGED <<dedup, running, known, gone, others, finished>>

\* ... and then the record.
DeleteRecord(j) ==
    /\ deleting[j] # "no"
    /\ deleting' = [deleting EXCEPT ![j] = "no"]
    /\ known' = known \ {j}
    /\ gone' = IF deleting[j] = "at_rest" THEN gone \cup {j} ELSE gone
    /\ UNCHANGED <<dir, dedup, running, others, finished>>

-----------------------------------------------------------------------------
(* The cleanup worker.                                                     *)

\* The ages that getCleanupPriority tells apart: up to a day, and above 1, 3, 7
\* and 30 days.
Ages == 0..MaxAge

Priority(status, age, emergency) ==
    CASE status = "failed"          -> 100
      [] status = "interrupted"     -> IF age >= 1 THEN 90 ELSE 50
      [] status = "completed"       -> IF emergency THEN IF age >= 2 THEN 80 ELSE 40
                                                    ELSE IF age >= 3 THEN 70 ELSE 30
      [] status = "partial_success" -> IF age >= 3 THEN 60 ELSE 25
      [] OTHER                      -> IF age >= 4 THEN 50 ELSE 20

\* getJobsForCleanup: dead letters are listed as if they were a job.
Present == {n \in Names : dir[n] # None}

CleanupOrder(order, age, emergency) ==
    \A a, b \in DOMAIN order : a < b =>
        LET m == order[a]  n == order[b]
            p == Priority(dir[m].status, age[m], emergency)
            q == Priority(dir[n].status, age[n], emergency)
        IN  p > q \/ (p = q /\ age[m] >= age[n])

AutoCleanup ==
    /\ list = << >> /\ Usage >= Threshold
    /\ LET emergency == Usage >= HardLimit
       IN  /\ list' \in SetToSeqs(Present)
           /\ \E age \in [Present -> Ages] : CleanupOrder(list', age, emergency)
           /\ target' = IF emergency THEN Threshold - 2 * Margin ELSE Threshold - Margin
    /\ UNCHANGED <<dir, dedup, running, record, orphans, crashes, finished>>

\* Mutant of CleanupNext: a directory that cannot be removed ends the cleanup.
CleanupAborts ==
    /\ list # << >> /\ Usage >= target
    /\ LET n == Head(list)
       IN  IF n \in Stuck THEN list' = << >> /\ UNCHANGED dir
           ELSE list' = Tail(list) /\ dir' = [dir EXCEPT ![n] = None]
    /\ UNCHANGED <<dedup, running, target, record, orphans, crashes, finished>>

\* The next job of the list, whatever became of it since it was listed.
CleanupNext ==
    /\ list # << >> /\ Usage >= target
    /\ list' = Tail(list)
    /\ LET n == Head(list)
       IN  dir' = IF n \in Stuck THEN dir ELSE [dir EXCEPT ![n] = None]
    /\ UNCHANGED <<dedup, running, target, record, orphans, crashes, finished>>

CleanupEnds ==
    /\ list # << >> /\ Usage < target
    /\ list' = << >>
    /\ UNCHANGED <<dir, dedup, running, target, record, orphans, crashes, finished>>

-----------------------------------------------------------------------------
(* A crash, and the next process: main, NewDLQService, load and            *)
(* resumeOrphanedJobs.  The repository is in memory only.                  *)

\* FindOrphanedJobs: of these, the states whose heartbeat is a minute old.
Orphaned == {j \in Jobs : dir[j] # None /\ dir[j].status = "processing"}

Restart ==
    /\ crashes < MaxCrashes
    /\ crashes' = crashes + 1
    /\ known' = {} /\ deleting' = [j \in Jobs |-> "no"]
    /\ phase' = [j \in Jobs |-> IF phase[j] = "new" THEN "new" ELSE "lost"]
    /\ mark' = [j \in Jobs |-> "processing"] /\ wrote' = [j \in Jobs |-> 0]
    /\ cache' = IF file = None THEN [h \in Hashes |-> None] ELSE file
    /\ saving' = FALSE
    /\ dir' = [dir EXCEPT ![Dlq] = DlqDirectory]
    /\ list' = << >> /\ target' = 0
    /\ orphans' \in SUBSET Orphaned
    /\ UNCHANGED <<file, gone, finished>>

\* The process dies of the nil jobData that GetJob returns for a job deleted
\* during its execution: stepDeduplication and stepFinalization ignore the error.
Panic(j) == phase[j] \in {"working", "published"} /\ j \notin known /\ Restart

\* An orphan the repository does not know is passed over.
ResumeOrphan(j) ==
    /\ j \in orphans
    /\ orphans' = orphans \ {j}
    /\ phase' = IF j \in known THEN [phase EXCEPT ![j] = "queued"] ELSE phase
    /\ UNCHANGED <<dir, dedup, mark, wrote, record, cleaner, crashes, finished>>

-----------------------------------------------------------------------------
JobStep(j) ==
    \/ Create(j) \/ NextAttempt(j) \/ PassDuplicateCheck(j) \/ Reuse(j) \/ Encode(j)
    \/ Heartbeat(j) \/ ExceedLimit(j) \/ Publish(j) \/ Store(j) \/ Finish(j) \/ GiveUp(j)

Request(j) == ResumeCheck(j) \/ ResumeSend(j) \/ DeleteFiles(j) \/ DeleteRecord(j)

Next ==
    \/ \E j \in Jobs : JobStep(j) \/ Request(j) \/ Panic(j) \/ ResumeOrphan(j)
    \/ AutoCleanup \/ CleanupNext \/ CleanupEnds \/ Restart

Spec == Init /\ [][Next]_vars

\* The cleanup worker's ticker goes off and its loop goes on.
FairSpec ==
    Spec /\ WF_vars(AutoCleanup) /\ WF_vars(CleanupNext) /\ WF_vars(CleanupEnds)

-----------------------------------------------------------------------------
(* Properties.                                                             *)

\* Types of the variables.
TypeOK ==
    /\ dir \in [Names -> Directory \cup {None}]
    /\ cache \in [Hashes -> Jobs \cup {None}]
    /\ file \in {None} \cup [Hashes -> Jobs \cup {None}]
    /\ saving \in BOOLEAN
    /\ known \subseteq Jobs /\ gone \subseteq Jobs
    /\ deleting \in [Jobs -> {"no", "at_rest", "crossed"}]
    /\ phase \in [Jobs -> Phase] /\ mark \in [Jobs -> StateStatus]
    /\ wrote \in [Jobs -> 0..MaxOutputs]
    /\ list \in Seq(Names) /\ target \in 0..Threshold
    /\ orphans \subseteq Jobs /\ crashes \in 0..MaxCrashes /\ finished \subseteq Jobs

Sound(map) ==
    \A h \in Hashes : map[h] # None => map[h] \in finished /\ HashOf[map[h]] = h

\* Whatever crash tears the file and whatever duplicate completes, the map and
\* the file that outlives the process name for a hash only a job of that hash
\* that published an output of its own (Store, load, stepDeduplication).
CacheSound == Sound(cache) /\ (file # None => Sound(file))

\* A disk above the threshold, on which CreateJob refuses every job, is below it
\* again some time, although jobs go on writing: or what is left cannot be
\* removed (AutoCleanup goes on after a directory it could not remove).
AcceptsAgain ==
    Usage >= Threshold ~>
        (Usage < Threshold \/ \A j \in Jobs : HasOutput(j) => j \in Stuck)

\* A job whose deletion found it at rest, and which no resume crossed, is gone for
\* good: its directory is away when the request is answered, and no resume, orphan
\* scan, heartbeat, cleanup or crash brings it or an execution of the job back
\* (DeleteJob stops at files it cannot remove, ResumeJob at a job without a record).
DeletedForGood ==
    \A j \in gone : dir[j] = None /\ phase[j] \in AtRest
=============================================================================
