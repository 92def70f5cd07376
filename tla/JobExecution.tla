---------------------------- MODULE JobExecution ----------------------------
(***************************************************************************)
(* One job from its hand-over to a worker until Execute returns:           *)
(* TranscodeUseCase.Execute with its retries, process() with the two       *)
(* goroutines it starts (heartbeat, periodic disk check), the idempotent   *)
(* steps, and everything outside that touches the same job meanwhile: a    *)
(* resume or delete request, the disk cleanup worker, another job with the *)
(* same input.                                                             *)
(*                                                                         *)
(* The job is shared by all of them with no lock held across two calls of  *)
(* a service, so an action is the code between two points at which another *)
(* goroutine can observe or change what the next call reads.               *)
(***************************************************************************)
EXTENDS JobTypes, FiniteSets

CONSTANTS
    Runs,         \* goroutines a worker may start for this job (Execute calls)
    Qualities,    \* names of quality variants
    Ladder,       \* the variants selected for the input, lowest first
    AudioInputs,  \* the values videoInfo.HasAudio may have
    SizeLimit,    \* outputs that fit in MaxJobSizeMB
    MaxRetries,   \* MAX_RETRIES
    MaxResumes,   \* bound: resume requests accepted in a behaviour
    Events        \* which of PossibleEvents the environment may produce

PossibleEvents ==
    {"hash_fails", "probe_fails", "save_fails", "encode_fails", "audio_fails",
     "size_fails", "duplicate", "delete", "cleanup"}

ASSUME QualitiesAssumption == Ladder \in Seq(Qualities)
ASSUME BoundsAssumption    == /\ MaxRetries \in Nat
                              /\ MaxResumes \in Nat
                              /\ SizeLimit \in Nat
ASSUME InputsAssumption    == AudioInputs \subseteq BOOLEAN
ASSUME EventsAssumption    == Events \subseteq PossibleEvents

VARIABLES
    up,        \* FALSE once a nil dereference has killed the process
    hasAudio,  \* whether the input has an audio stream
    job,       \* the job in the repository, shared by pointer
    queued,    \* hand-overs of this job waiting in jobQueue
    resuming,  \* ResumeJob handlers past the status check
    resumes,   \* resume requests accepted so far
    deleting,  \* a DeleteJob handler between its two deletions
    file,      \* outputs/<id>/state.json
    dirs,      \* directories under outputs/<id>/hls
    cache,     \* what the deduplication cache says about the input's hash
    dlq,       \* outputs/dlq/<id>.json
    pc,        \* per Execute: where it is
    attempt,   \* per Execute: the loop variable
    failure,   \* per Execute: what process() returned
    state,     \* per Execute: the *JobState in memory
    next,      \* per Execute: index in Ladder of the next variant
    good,      \* per Execute: variants in the result of this attempt
    bad,       \* per Execute: variants that failed in this attempt
    heartbeat, \* per Execute: its heartbeat goroutine
    beat,      \* per Execute: the state its heartbeat has loaded
    watcher    \* per Execute: its periodic disk check goroutine

handlers  == <<queued, resuming, resumes, deleting>>
stored    == <<file, dirs, cache, dlq>>
loop      == <<attempt, next, good, bad>>
attendant == <<heartbeat, beat, watcher>>
vars == <<up, hasAudio, job, handlers, stored, pc, failure, state, loop, attendant>>

-----------------------------------------------------------------------------
NoOutput == [known |-> FALSE, qualities |-> {}]
NoEntry  == [retries |-> 0, status |-> "none"]

Result == Failure \cup {"none"}

JobError == {"none", "partial", "size", "retry"}

Job == [present : BOOLEAN, status : JobStatus, hashed : BOOLEAN, retries : Nat,
        error : JobError, output : [known : BOOLEAN, qualities : SUBSET Qualities]]

Location ==
    {"idle", "load", "running", "hash", "dedup", "analysis", "limit",
     "encode", "encoding", "audio", "sound", "tracks", "track", "metadata",
     "flag", "cleanup", "publish", "store", "stop_watcher", "stop_heartbeat",
     "result", "bury", "sleep", "done"}

State == JobState(Qualities)

Present == job.present
Over    == Cardinality(dirs) > SizeLimit
Current(r) == Ladder[next[r]]
Finished(r) == pc[r] \in {"idle", "done"}

\* UpdateStatus and SetError look the job up first and do nothing without it.
UpdateStatus(s) == job' = IF Present THEN [job EXCEPT !.status = s] ELSE job
SetError(e) == job' = IF Present THEN [job EXCEPT !.status = "FAILED", !.error = e]
                      ELSE job

DeleteJobFiles == file' = NoState /\ dirs' = {}

Goto(r, l) == pc' = [pc EXCEPT ![r] = l] /\ UNCHANGED failure

\* process() returns f ("none" is nil): the deferred calls run next.
Leave(r, f) == /\ pc' = [pc EXCEPT ![r] = "stop_watcher"]
               /\ failure' = [failure EXCEPT ![r] = f]

\* SaveState with its error ignored, and SaveState whose error is returned.
Save(r, s) == /\ state' = [state EXCEPT ![r] = s]
              /\ file' = s \/ ("save_fails" \in Events /\ file' = file)
SaveOrFail(r, s, l) ==
    /\ state' = [state EXCEPT ![r] = s]
    /\ \/ file' = s /\ Goto(r, l)
       \/ "save_fails" \in Events /\ file' = file /\ Leave(r, "state")

-----------------------------------------------------------------------------
Init ==
    /\ up = TRUE
    /\ hasAudio \in AudioInputs
    /\ job = [present |-> TRUE, status |-> "QUEUED", hashed |-> FALSE,
              retries |-> 0, error |-> "none", output |-> NoOutput]
    /\ queued = 1 /\ resuming = 0 /\ resumes = 0 /\ deleting = FALSE
    /\ file = NoState /\ dirs = {} /\ cache = "none" /\ dlq = NoEntry
    /\ pc = [r \in Runs |-> "idle"]
    /\ attempt = [r \in Runs |-> 0]
    /\ failure = [r \in Runs |-> "none"]
    /\ state = [r \in Runs |-> NewState]
    /\ next = [r \in Runs |-> 1]
    /\ good = [r \in Runs |-> {}]
    /\ bad = [r \in Runs |-> {}]
    /\ heartbeat = [r \in Runs |-> "off"]
    /\ beat = [r \in Runs |-> NewState]
    /\ watcher = [r \in Runs |-> "off"]

-----------------------------------------------------------------------------
(* Execute and process(), up to the steps.                                 *)

\* Mutant of Deliver: a goroutine is started without a hand-over in the queue.
DeliverUnqueued(r) ==
    /\ Finished(r)
    /\ queued' = queued - 1
    /\ attempt' = [attempt EXCEPT ![r] = 0]
    /\ pc' = [pc EXCEPT ![r] = "load"]
    /\ UNCHANGED <<up, hasAudio, job, resuming, resumes, deleting, stored,
                   failure, state, next, good, bad, attendant>>

\* StartWorker takes the job from the queue and starts a goroutine for it.
Deliver(r) ==
    /\ Finished(r) /\ queued > 0
    /\ queued' = queued - 1
    /\ attempt' = [attempt EXCEPT ![r] = 0]
    /\ pc' = [pc EXCEPT ![r] = "load"]
    /\ UNCHANGED <<up, hasAudio, job, resuming, resumes, deleting, stored,
                   failure, state, next, good, bad, attendant>>

\* getOrCreateState, then the heartbeat and the disk check are started.
GetOrCreateState(r) ==
    /\ pc[r] = "load"
    /\ LET s == IF file = NoState THEN NewState ELSE file
       IN  state' = [state EXCEPT ![r] = s] /\ file' = s
    /\ heartbeat' = [heartbeat EXCEPT ![r] = "idle"]
    /\ watcher' = [watcher EXCEPT ![r] = "ticking"]
    /\ Goto(r, "running")
    /\ UNCHANGED <<up, hasAudio, job, handlers, dirs, cache, dlq, loop, beat>>

\* Mutant of CreateStateFails: process() returns nil instead of the error.
CreateStateFailsQuietly(r) ==
    /\ pc[r] = "load" /\ file = NoState /\ "save_fails" \in Events
    /\ pc' = [pc EXCEPT ![r] = "result"]
    /\ failure' = [failure EXCEPT ![r] = "none"]
    /\ UNCHANGED <<up, hasAudio, job, handlers, stored, state, loop, attendant>>

\* CreateState cannot save: process() returns before it starts either goroutine.
CreateStateFails(r) ==
    /\ pc[r] = "load" /\ file = NoState /\ "save_fails" \in Events
    /\ pc' = [pc EXCEPT ![r] = "result"]
    /\ failure' = [failure EXCEPT ![r] = "state"]
    /\ UNCHANGED <<up, hasAudio, job, handlers, stored, state, loop, attendant>>

MarkRunning(r) ==
    /\ pc[r] = "running"
    /\ UpdateStatus("RUNNING")
    /\ IF Present THEN Goto(r, "hash") ELSE Leave(r, "gone")
    /\ UNCHANGED <<up, hasAudio, handlers, stored, state, loop, attendant>>

-----------------------------------------------------------------------------
(* The idempotent steps: a step the state names as completed is skipped.   *)

\* Mutant: the error of SetHash is dropped, as the one of GetJob is at line 231.
StepHashUnchecked(r) ==
    /\ pc[r] = "hash" /\ "hash_computation" \notin state[r].steps
    /\ job' = IF Present THEN [job EXCEPT !.hashed = TRUE] ELSE job
    /\ SaveOrFail(r, MarkStepCompleted(state[r], "hash_computation"), "dedup")
    /\ UNCHANGED <<up, hasAudio, handlers, dirs, cache, dlq, loop, attendant>>

StepHashComputation(r) ==
    /\ pc[r] = "hash" /\ "hash_computation" \notin state[r].steps
    /\ Present
    /\ job' = [job EXCEPT !.hashed = TRUE]
    /\ SaveOrFail(r, MarkStepCompleted(state[r], "hash_computation"), "dedup")
    /\ UNCHANGED <<up, hasAudio, handlers, dirs, cache, dlq, loop, attendant>>

StepHashFails(r) ==
    /\ pc[r] = "hash" /\ "hash_computation" \notin state[r].steps
    /\ \/ "hash_fails" \in Events /\ Leave(r, "hash")
       \/ ~Present /\ Leave(r, "gone")
    /\ UNCHANGED <<up, hasAudio, job, handlers, stored, state, loop, attendant>>

\* No duplicate is known (or the job has no hash to look up).
StepDeduplication(r) ==
    /\ pc[r] = "dedup" /\ "deduplication" \notin state[r].steps
    /\ Present
    /\ IF job.hashed
       THEN /\ cache = "none"
            /\ SaveOrFail(r, MarkStepCompleted(state[r], "deduplication"), "analysis")
       ELSE Leave(r, "no_hash") /\ UNCHANGED <<state, file>>
    /\ UNCHANGED <<up, hasAudio, job, handlers, dirs, cache, dlq, loop, attendant>>

\* Mutant of StepDuplicateFound: the duplicate takes over the cache entry.
StepDuplicateStores(r) ==
    /\ pc[r] = "dedup" /\ "deduplication" \notin state[r].steps
    /\ Present /\ job.hashed /\ cache # "none"
    /\ UpdateStatus("COMPLETED")
    /\ cache' = "self"
    /\ Save(r, MarkStepCompleted([state[r] EXCEPT !.status = "completed"], "deduplication"))
    /\ Leave(r, "none")
    /\ UNCHANGED <<up, hasAudio, handlers, dirs, dlq, loop, attendant>>

\* The cache names a job with this hash: the job is published as completed.
StepDuplicateFound(r) ==
    /\ pc[r] = "dedup" /\ "deduplication" \notin state[r].steps
    /\ Present /\ job.hashed /\ cache # "none"
    /\ UpdateStatus("COMPLETED")
    /\ Save(r, MarkStepCompleted([state[r] EXCEPT !.status = "completed"], "deduplication"))
    /\ Leave(r, "none")
    /\ UNCHANGED <<up, hasAudio, handlers, dirs, cache, dlq, loop, attendant>>

\* GetVideoInfo runs on every attempt; only the first one marks the step.
StepAnalysis(r) ==
    /\ pc[r] = "analysis"
    /\ IF "analysis" \in state[r].steps
       THEN UNCHANGED <<state, file>>
       ELSE Save(r, MarkStepCompleted(state[r], "analysis"))
    /\ Goto(r, "limit")
    /\ UNCHANGED <<up, hasAudio, job, handlers, dirs, cache, dlq, loop, attendant>>

StepAnalysisFails(r) ==
    /\ pc[r] = "analysis" /\ "probe_fails" \in Events
    /\ Leave(r, "probe")
    /\ UNCHANGED <<up, hasAudio, job, handlers, stored, state, loop, attendant>>

SkipStep(r) ==
    /\ \/ /\ pc[r] = "hash" /\ "hash_computation" \in state[r].steps
          /\ Goto(r, "dedup")
       \/ /\ pc[r] = "dedup" /\ "deduplication" \in state[r].steps
          /\ Goto(r, "analysis")
       \/ /\ pc[r] = "cleanup" /\ "cleanup" \in state[r].steps
          /\ Goto(r, "publish")
    /\ UNCHANGED <<up, hasAudio, job, handlers, stored, state, loop, attendant>>

\* stepDeduplication and stepFinalization read the job and ignore that it is
\* gone: the nil dereference is not recovered and ends the process.
Panic(r) ==
    /\ \/ pc[r] = "dedup" /\ "deduplication" \notin state[r].steps
       \/ pc[r] = "store"
    /\ ~Present
    /\ up' = FALSE
    /\ UNCHANGED <<hasAudio, job, handlers, stored, pc, failure, state, loop, attendant>>

-----------------------------------------------------------------------------
(* stepEncoding.                                                           *)

\* checkJobDiskLimit before the first variant: a size it cannot read passes.
CheckJobDiskLimit(r) ==
    /\ pc[r] = "limit" /\ (~Over \/ "size_fails" \in Events)
    /\ next' = [next EXCEPT ![r] = 1]
    /\ good' = [good EXCEPT ![r] = {}]
    /\ bad' = [bad EXCEPT ![r] = {}]
    /\ Goto(r, IF hasAudio THEN "audio" ELSE "encode")
    /\ UNCHANGED <<up, hasAudio, job, handlers, stored, state, attempt, attendant>>

DiskLimitExceeded(r) ==
    /\ pc[r] = "limit" /\ Over
    /\ SetError("size")
    /\ DeleteJobFiles
    /\ Leave(r, "disk_limit")
    /\ UNCHANGED <<up, hasAudio, handlers, cache, dlq, state, loop, attendant>>

(* encodeWithResume: inputs without audio.                                 *)

Advance(r) == next' = [next EXCEPT ![r] = @ + 1]

\* A variant the state names as completed is not encoded again; its output is
\* part of the result only if its directory is still there.
SkipVariant(r) ==
    /\ pc[r] = "encode" /\ next[r] <= Len(Ladder)
    /\ Current(r) \in state[r].complete
    /\ good' = [good EXCEPT ![r] = @ \cup ({Current(r)} \cap dirs)]
    /\ Advance(r)
    /\ UNCHANGED <<up, hasAudio, job, handlers, stored, pc, failure, state,
                   attempt, bad, attendant>>

StartVariant(r) ==
    /\ pc[r] = "encode" /\ next[r] <= Len(Ladder)
    /\ Current(r) \notin state[r].complete
    /\ Save(r, state[r])
    /\ dirs' = dirs \cup {Current(r)}
    /\ Goto(r, "encoding")
    /\ UNCHANGED <<up, hasAudio, job, handlers, cache, dlq, loop, attendant>>

\* EncodeQuality succeeds only if chunks are found in the variant's directory.
EncodeSucceeds(r) ==
    /\ pc[r] = "encoding" /\ Current(r) \in dirs /\ ~Over
    /\ good' = [good EXCEPT ![r] = @ \cup {Current(r)}]
    /\ Save(r, MarkQualityCompleted(state[r], Current(r)))
    /\ Advance(r)
    /\ Goto(r, "encode")
    /\ UNCHANGED <<up, hasAudio, job, handlers, dirs, cache, dlq, attempt, bad, attendant>>

\* EnforceJobSizeLimit deletes the job's files, then the state is saved again.
EncodeExceedsLimit(r) ==
    /\ pc[r] = "encoding" /\ Current(r) \in dirs /\ Over
    /\ UpdateStatus("FAILED")
    /\ dirs' = {}
    /\ LET s == MarkQualityCompleted([state[r] EXCEPT !.status = "failed"], Current(r))
       IN  /\ state' = [state EXCEPT ![r] = s]
           /\ file' = s \/ ("save_fails" \in Events /\ file' = NoState)
    /\ Leave(r, "enforced_limit")
    /\ UNCHANGED <<up, hasAudio, handlers, cache, dlq, loop, attendant>>

\* EnforceJobSizeLimit cannot read the size: the same, and the files stay.
EncodeUnmeasured(r) ==
    /\ pc[r] = "encoding" /\ Current(r) \in dirs /\ "size_fails" \in Events
    /\ UpdateStatus("FAILED")
    /\ Save(r, MarkQualityCompleted([state[r] EXCEPT !.status = "failed"], Current(r)))
    /\ Leave(r, "unmeasured")
    /\ UNCHANGED <<up, hasAudio, handlers, dirs, cache, dlq, loop, attendant>>

\* Mutant: a variant that fails is passed over, as EncodeSeparateAV does.
EncodePassesOver(r) ==
    /\ pc[r] = "encoding"
    /\ "encode_fails" \in Events \/ Current(r) \notin dirs
    /\ Advance(r)
    /\ Goto(r, "encode")
    /\ UNCHANGED <<up, hasAudio, job, handlers, stored, state, attempt, good, bad, attendant>>

EncodeFails(r) ==
    /\ pc[r] = "encoding"
    /\ "encode_fails" \in Events \/ Current(r) \notin dirs
    /\ bad' = [bad EXCEPT ![r] = @ \cup {Current(r)}]
    /\ Save(r, MarkQualityFailed(state[r], Current(r)))
    /\ Advance(r)
    /\ Goto(r, "encode")
    /\ UNCHANGED <<up, hasAudio, job, handlers, dirs, cache, dlq, attempt, good, attendant>>

\* Every variant is done.  GenerateMasterPlaylist needs the hls directory.
EncodingComplete(r) ==
    /\ pc[r] = "encode" /\ next[r] > Len(Ladder)
    /\ good[r] # {} /\ dirs # {} /\ bad[r] = {}
    /\ Save(r, MarkStepCompleted(state[r], "master_playlist"))
    /\ Goto(r, "metadata")
    /\ UNCHANGED <<up, hasAudio, job, handlers, dirs, cache, dlq, loop, attendant>>

\* Mutant of EncodingPartial: the attempt goes on with the variants it has.
EncodingPartialGoesOn(r) ==
    /\ pc[r] = "encode" /\ next[r] > Len(Ladder)
    /\ good[r] # {} /\ dirs # {} /\ bad[r] # {}
    /\ Save(r, MarkStepCompleted([state[r] EXCEPT !.failed = @ \cup bad[r]], "master_playlist"))
    /\ Goto(r, "metadata")
    /\ UNCHANGED <<up, hasAudio, job, handlers, dirs, cache, dlq, loop, attendant>>

\* PartialSuccessError: recorded in the state, and returned as an error.
EncodingPartial(r) ==
    /\ pc[r] = "encode" /\ next[r] > Len(Ladder)
    /\ good[r] # {} /\ dirs # {} /\ bad[r] # {}
    /\ Save(r, MarkStepCompleted([state[r] EXCEPT !.failed = @ \cup bad[r]], "master_playlist"))
    /\ Leave(r, "partial")
    /\ UNCHANGED <<up, hasAudio, job, handlers, dirs, cache, dlq, loop, attendant>>

EncodingFails(r) ==
    /\ pc[r] = "encode" /\ next[r] > Len(Ladder)
    /\ \/ good[r] = {} /\ Leave(r, "all_failed")
       \/ good[r] # {} /\ dirs = {} /\ Leave(r, "master")
    /\ UNCHANGED <<up, hasAudio, job, handlers, stored, state, loop, attendant>>

(* encodeSeparateAV: inputs with audio.  The encoder keeps no state file   *)
(* progress, checks no size, and passes over a variant that fails.         *)

StartAudio(r) ==
    /\ pc[r] = "audio"
    /\ dirs' = dirs \cup {"audio"}
    /\ Goto(r, "sound")
    /\ UNCHANGED <<up, hasAudio, job, handlers, file, cache, dlq, state, loop, attendant>>

AudioSucceeds(r) ==
    /\ pc[r] = "sound" /\ "audio" \in dirs
    /\ Goto(r, "tracks")
    /\ UNCHANGED <<up, hasAudio, job, handlers, stored, state, loop, attendant>>

AudioFails(r) ==
    /\ pc[r] = "sound"
    /\ "audio_fails" \in Events \/ "audio" \notin dirs
    /\ Leave(r, "separate_av")
    /\ UNCHANGED <<up, hasAudio, job, handlers, stored, state, loop, attendant>>

StartTrack(r) ==
    /\ pc[r] = "tracks" /\ next[r] <= Len(Ladder)
    /\ dirs' = dirs \cup {Current(r)}
    /\ Goto(r, "track")
    /\ UNCHANGED <<up, hasAudio, job, handlers, file, cache, dlq, state, loop, attendant>>

TrackSucceeds(r) ==
    /\ pc[r] = "track" /\ Current(r) \in dirs
    /\ good' = [good EXCEPT ![r] = @ \cup {Current(r)}]
    /\ Advance(r)
    /\ Goto(r, "tracks")
    /\ UNCHANGED <<up, hasAudio, job, handlers, stored, state, attempt, bad, attendant>>

TrackFails(r) ==
    /\ pc[r] = "track"
    /\ "encode_fails" \in Events \/ Current(r) \notin dirs
    /\ Advance(r)
    /\ Goto(r, "tracks")
    /\ UNCHANGED <<up, hasAudio, job, handlers, stored, state, attempt, good, bad, attendant>>

TracksComplete(r) ==
    /\ pc[r] = "tracks" /\ next[r] > Len(Ladder) /\ dirs # {}
    /\ Save(r, MarkStepCompleted([state[r] EXCEPT !.complete = @ \cup good[r]], "master_playlist"))
    /\ Goto(r, "metadata")
    /\ UNCHANGED <<up, hasAudio, job, handlers, dirs, cache, dlq, loop, attendant>>

TracksFail(r) ==
    /\ pc[r] = "tracks" /\ next[r] > Len(Ladder) /\ dirs = {}
    /\ Leave(r, "separate_av")
    /\ UNCHANGED <<up, hasAudio, job, handlers, stored, state, loop, attendant>>

-----------------------------------------------------------------------------
(* stepFinalization.                                                       *)

SetMetadata(r) ==
    /\ pc[r] = "metadata" /\ Present
    /\ job' = [job EXCEPT !.output = [known |-> TRUE, qualities |-> good[r]]]
    /\ Goto(r, "flag")
    /\ UNCHANGED <<up, hasAudio, handlers, stored, state, loop, attendant>>

SetMetadataFails(r) ==
    /\ pc[r] = "metadata" /\ ~Present
    /\ Leave(r, "gone")
    /\ UNCHANGED <<up, hasAudio, job, handlers, stored, state, loop, attendant>>

\* A quality that failed in any attempt makes the job a partial success; its
\* error goes through SetError, which also sets the status to FAILED.
FlagPartial(r) ==
    /\ pc[r] = "flag"
    /\ IF state[r].failed = {} THEN UNCHANGED job ELSE SetError("partial")
    /\ Goto(r, "cleanup")
    /\ UNCHANGED <<up, hasAudio, handlers, stored, state, loop, attendant>>

CleanupIntermediate(r) ==
    /\ pc[r] = "cleanup" /\ "cleanup" \notin state[r].steps
    /\ Save(r, MarkStepCompleted(state[r], "cleanup"))
    /\ Goto(r, "publish")
    /\ UNCHANGED <<up, hasAudio, job, handlers, dirs, cache, dlq, loop, attendant>>

PublishStatus(r) ==
    /\ pc[r] = "publish"
    /\ LET partial == state[r].failed # {}
       IN  /\ UpdateStatus(IF partial THEN "PARTIAL_SUCCESS" ELSE "COMPLETED")
           /\ state' = [state EXCEPT ![r].status =
                            IF partial THEN "partial_success" ELSE "completed"]
    /\ Goto(r, "store")
    /\ UNCHANGED <<up, hasAudio, handlers, stored, loop, attendant>>

StoreInCache(r) ==
    /\ pc[r] = "store" /\ Present
    /\ cache' = IF job.hashed THEN "self" ELSE cache
    /\ Save(r, MarkStepCompleted(state[r], "finalization"))
    /\ Leave(r, "none")
    /\ UNCHANGED <<up, hasAudio, job, handlers, dirs, dlq, loop, attendant>>

-----------------------------------------------------------------------------
(* The deferred calls of process().  Both channels are unbuffered: a send  *)
(* completes only with the goroutine waiting in its select.                *)

StopWatcher(r) ==
    /\ pc[r] = "stop_watcher" /\ watcher[r] = "ticking"
    /\ watcher' = [watcher EXCEPT ![r] = "off"]
    /\ Goto(r, "stop_heartbeat")
    /\ UNCHANGED <<up, hasAudio, job, handlers, stored, state, loop, heartbeat, beat>>

\* process() returns and its local variables are gone.
StopHeartbeat(r) ==
    /\ pc[r] = "stop_heartbeat" /\ heartbeat[r] = "idle"
    /\ heartbeat' = [heartbeat EXCEPT ![r] = "off"]
    /\ state' = [state EXCEPT ![r] = NewState]
    /\ next' = [next EXCEPT ![r] = 1]
    /\ good' = [good EXCEPT ![r] = {}]
    /\ bad' = [bad EXCEPT ![r] = {}]
    /\ Goto(r, "result")
    /\ UNCHANGED <<up, hasAudio, job, handlers, stored, attempt, beat, watcher>>

(* Execute after process() has returned.                                   *)

Succeed(r) ==
    /\ pc[r] = "result" /\ failure[r] = "none"
    /\ Goto(r, "done")
    /\ UNCHANGED <<up, hasAudio, job, handlers, stored, state, loop, attendant>>

\* Mutant of ExhaustRetries: the loop stops one attempt early.
ExhaustEarly(r) ==
    /\ pc[r] = "result" /\ failure[r] # "none" /\ attempt[r] + 1 >= MaxRetries
    /\ SetError("retry")
    /\ Goto(r, "bury")
    /\ UNCHANGED <<up, hasAudio, handlers, stored, state, loop, attendant>>

\* Mutant of ExhaustRetries: the job is buried without its error.
ExhaustSilently(r) ==
    /\ pc[r] = "result" /\ failure[r] # "none" /\ attempt[r] >= MaxRetries
    /\ Goto(r, "bury")
    /\ UNCHANGED <<up, hasAudio, job, handlers, stored, state, loop, attendant>>

\* The loop is over: the error is recorded, then the job goes to the DLQ.
ExhaustRetries(r) ==
    /\ pc[r] = "result" /\ failure[r] # "none" /\ attempt[r] >= MaxRetries
    /\ SetError("retry")
    /\ Goto(r, "bury")
    /\ UNCHANGED <<up, hasAudio, handlers, stored, state, loop, attendant>>

MoveToDLQ(r) ==
    /\ pc[r] = "bury"
    /\ dlq' = IF Present THEN [retries |-> job.retries, status |-> job.status] ELSE dlq
    /\ Goto(r, "done")
    /\ UNCHANGED <<up, hasAudio, job, handlers, file, dirs, cache, state, loop, attendant>>

\* The strategy allows no further attempt: Execute returns, not through the DLQ.
GiveUp(r) ==
    /\ pc[r] = "result" /\ failure[r] # "none" /\ attempt[r] < MaxRetries
    /\ ~MayRetry(failure[r], attempt[r] + 1)
    /\ SetError("retry")
    /\ Goto(r, "done")
    /\ UNCHANGED <<up, hasAudio, handlers, stored, state, loop, attendant>>

Backoff(r) ==
    /\ pc[r] = "result" /\ failure[r] # "none" /\ attempt[r] < MaxRetries
    /\ MayRetry(failure[r], attempt[r] + 1)
    /\ attempt' = [attempt EXCEPT ![r] = @ + 1]
    /\ Goto(r, "sleep")
    /\ UNCHANGED <<up, hasAudio, job, handlers, stored, state, next, good, bad, attendant>>

Retry(r) ==
    /\ pc[r] = "sleep"
    /\ job' = IF Present THEN [job EXCEPT !.retries = @ + 1] ELSE job
    /\ Goto(r, "load")
    /\ UNCHANGED <<up, hasAudio, handlers, stored, state, loop, attendant>>

-----------------------------------------------------------------------------
(* The goroutines process() starts.                                        *)

\* checkJobDiskLimitPeriodically: over the limit it fails the job, deletes its
\* files and returns, without waiting for the stop signal.
WatcherFires(r) ==
    /\ watcher[r] = "ticking" /\ Over
    /\ SetError("size")
    /\ DeleteJobFiles
    /\ watcher' = [watcher EXCEPT ![r] = "gone"]
    /\ UNCHANGED <<up, hasAudio, handlers, cache, dlq, pc, failure, state, loop, heartbeat, beat>>

\* UpdateHeartbeat: LoadState and SaveState lock separately.
HeartbeatLoads(r) ==
    /\ heartbeat[r] = "idle" /\ file # NoState
    /\ heartbeat' = [heartbeat EXCEPT ![r] = "loaded"]
    /\ beat' = [beat EXCEPT ![r] = file]
    /\ UNCHANGED <<up, hasAudio, job, handlers, stored, pc, failure, state, loop, watcher>>

\* Mutant of HeartbeatSaves: the goroutine ends instead of waiting on.
HeartbeatQuits(r) ==
    /\ heartbeat[r] = "loaded"
    /\ heartbeat' = [heartbeat EXCEPT ![r] = "off"]
    /\ beat' = [beat EXCEPT ![r] = NewState]
    /\ file' = beat[r]
    /\ UNCHANGED <<up, hasAudio, job, handlers, dirs, cache, dlq, pc, failure, state, loop, watcher>>

HeartbeatSaves(r) ==
    /\ heartbeat[r] = "loaded"
    /\ heartbeat' = [heartbeat EXCEPT ![r] = "idle"]
    /\ beat' = [beat EXCEPT ![r] = NewState]
    /\ file' = beat[r] \/ ("save_fails" \in Events /\ file' = file)
    /\ UNCHANGED <<up, hasAudio, job, handlers, dirs, cache, dlq, pc, failure, state, loop, watcher>>

-----------------------------------------------------------------------------
(* Everything else that touches the job.                                   *)

\* ResumeJob: the status check, then the update and the send.
ResumeCheck ==
    /\ Present /\ job.status = "FAILED" /\ resumes < MaxResumes
    /\ resuming' = resuming + 1
    /\ resumes' = resumes + 1
    /\ UNCHANGED <<up, hasAudio, job, queued, deleting, stored, pc, failure, state, loop, attendant>>

\* Mutant of ResumeEnqueue: the job is not sent again.
ResumeUnsent ==
    /\ resuming > 0
    /\ UpdateStatus("QUEUED")
    /\ resuming' = resuming - 1
    /\ UNCHANGED <<up, hasAudio, queued, resumes, deleting, stored, pc, failure, state, loop, attendant>>

ResumeEnqueue ==
    /\ resuming > 0
    /\ UpdateStatus("QUEUED")
    /\ resuming' = resuming - 1
    /\ queued' = queued + 1
    /\ UNCHANGED <<up, hasAudio, resumes, deleting, stored, pc, failure, state, loop, attendant>>

\* DeleteJob: the files, then the repository.
DeleteFiles ==
    /\ "delete" \in Events /\ Present /\ ~deleting
    /\ DeleteJobFiles
    /\ deleting' = TRUE
    /\ UNCHANGED <<up, hasAudio, job, queued, resuming, resumes, cache, dlq, pc, failure, state, loop, attendant>>

DeleteFromRepository ==
    /\ deleting
    /\ job' = [job EXCEPT !.present = FALSE]
    /\ deleting' = FALSE
    /\ UNCHANGED <<up, hasAudio, queued, resuming, resumes, stored, pc, failure, state, loop, attendant>>

\* AutoCleanup does not ask whether the job is running.
AutoCleanup ==
    /\ "cleanup" \in Events
    /\ DeleteJobFiles
    /\ UNCHANGED <<up, hasAudio, job, handlers, cache, dlq, pc, failure, state, loop, attendant>>

\* Another job with the same input finishes and takes over the cache entry.
OtherJobStores ==
    /\ "duplicate" \in Events
    /\ cache' = "other"
    /\ UNCHANGED <<up, hasAudio, job, handlers, file, dirs, dlq, pc, failure, state, loop, attendant>>

-----------------------------------------------------------------------------
\* The code of Execute and process() itself.
Step(r) ==
    \/ GetOrCreateState(r) \/ CreateStateFails(r) \/ MarkRunning(r)
    \/ StepHashComputation(r) \/ StepHashFails(r)
    \/ StepDeduplication(r) \/ StepDuplicateFound(r)
    \/ StepAnalysis(r) \/ StepAnalysisFails(r) \/ SkipStep(r) \/ Panic(r)
    \/ CheckJobDiskLimit(r) \/ DiskLimitExceeded(r)
    \/ SkipVariant(r) \/ StartVariant(r) \/ EncodeSucceeds(r)
    \/ EncodeExceedsLimit(r) \/ EncodeUnmeasured(r) \/ EncodeFails(r)
    \/ EncodingComplete(r) \/ EncodingPartial(r) \/ EncodingFails(r)
    \/ StartAudio(r) \/ AudioSucceeds(r) \/ AudioFails(r)
    \/ StartTrack(r) \/ TrackSucceeds(r) \/ TrackFails(r)
    \/ TracksComplete(r) \/ TracksFail(r)
    \/ SetMetadata(r) \/ SetMetadataFails(r) \/ FlagPartial(r)
    \/ CleanupIntermediate(r) \/ PublishStatus(r) \/ StoreInCache(r)
    \/ StopWatcher(r) \/ StopHeartbeat(r)
    \/ Succeed(r) \/ ExhaustRetries(r) \/ MoveToDLQ(r) \/ GiveUp(r)
    \/ Backoff(r) \/ Retry(r)

Environment == \/ ResumeCheck \/ ResumeEnqueue
               \/ DeleteFiles \/ DeleteFromRepository
               \/ AutoCleanup \/ OtherJobStores

\* The process is dead, or no Execute is running and nothing is queued.
Rest == /\ up => queued = 0 /\ resuming = 0 /\ \A r \in Runs : Finished(r)
        /\ UNCHANGED vars

Next ==
    \/ /\ up
       /\ \/ \E r \in Runs : \/ Deliver(r) \/ Step(r) \/ WatcherFires(r)
                             \/ HeartbeatLoads(r) \/ HeartbeatSaves(r)
          \/ Environment
    \/ Rest

\* The Go scheduler runs every goroutine that can run.  The heartbeat's select
\* takes either ready case, so a stop signal offered again and again gets in.
Fairness ==
    /\ \A r \in Runs : /\ WF_vars(up /\ Deliver(r))
                       /\ WF_vars(up /\ Step(r))
                       /\ SF_vars(up /\ StopHeartbeat(r))
                       /\ WF_vars(up /\ HeartbeatSaves(r))
    /\ WF_vars(up /\ ResumeEnqueue)
    /\ WF_vars(up /\ DeleteFromRepository)

Spec     == Init /\ [][Next]_vars
FairSpec == Spec /\ Fairness

-----------------------------------------------------------------------------
(* What a client sees of all this: the refinement mapping to JobContract.  *)

Active == {r \in Runs : pc[r] \notin {"idle", "done"}}

\* Past the step that sets a successful status: process() will return nil.
Published ==
    {r \in Runs : \/ pc[r] = "store"
                  \/ pc[r] \in {"stop_watcher", "stop_heartbeat", "result"} /\ failure[r] = "none"}

Contract == INSTANCE JobContract WITH
    alive <- up, present <- job.present, status <- job.status,
    waiting <- queued + resuming, active <- Active, published <- Published

-----------------------------------------------------------------------------
(* Properties.                                                             *)

\* The promises of JobContract are kept: executions are only those asked for,
\* a published status is not taken back by its own execution but for the disk
\* check, and no execution is the last to end with QUEUED or RUNNING shown.
ImplementsContract == Contract!Spec

TypeOK ==
    /\ up \in BOOLEAN /\ hasAudio \in BOOLEAN /\ deleting \in BOOLEAN
    /\ job \in Job
    /\ queued \in Nat /\ resuming \in Nat /\ resumes \in Nat
    /\ file \in State \cup {NoState}
    /\ dirs \subseteq Qualities \cup {"audio"}
    /\ cache \in {"none", "self", "other"}
    /\ dlq \in [retries : Nat, status : JobStatus] \cup {NoEntry}
    /\ pc \in [Runs -> Location]
    /\ attempt \in [Runs -> Nat]
    /\ failure \in [Runs -> Result]
    /\ state \in [Runs -> State]
    /\ next \in [Runs -> Nat \ {0}]
    /\ good \in [Runs -> SUBSET Qualities]
    /\ bad \in [Runs -> SUBSET Qualities]
    /\ heartbeat \in [Runs -> {"off", "idle", "loaded"}]
    /\ beat \in [Runs -> State]
    /\ watcher \in [Runs -> {"off", "ticking", "gone"}]

\* Every copy of the state there is: on disk, in an Execute, in a heartbeat.
Copies == {file} \cup {state[r] : r \in Runs} \cup {beat[r] : r \in Runs}

\* Skipping the hash step is safe: whatever copy of the state a run resumes
\* from, and however stale, if it says the hash is done the job has its hash,
\* so "hash not computed" is never raised (transcode_usecase.go:651-666).
HashKnown == \A s \in Copies : "hash_computation" \in s.steps => job.hashed

\* A later step is marked only after the earlier ones.
InOrder(S) ==
    /\ "finalization" \in S    => "cleanup" \in S
    /\ "cleanup" \in S         => "master_playlist" \in S
    /\ "master_playlist" \in S => "analysis" \in S
    /\ "analysis" \in S        => "deduplication" \in S
    /\ "deduplication" \in S   => "hash_computation" \in S

\* A copy of the state never claims a later step without the earlier ones,
\* whatever stale copy a heartbeat writes back (executeSteps runs them in order).
TrailInOrder == \A s \in Copies : InOrder(s.steps)

\* No job is in the dead letter queue before it was retried MaxRetries times:
\* "Max retries exceeded (N attempts)" is true of every entry
\* (transcode_usecase.go:167-173).
DeadLetterEarned == dlq # NoEntry => dlq.retries >= MaxRetries

\* The cache never answers with this job before its output is published, so a
\* duplicate is never pointed at a job that has nothing (stepFinalization
\* stores the hash last).
CacheAfterOutput == cache = "self" => job.output.known

\* API.md:234: COMPLETED means all qualities.
CompletedMeansAll ==
    job.status = "COMPLETED" /\ job.output.known =>
        job.output.qualities = {Ladder[i] : i \in DOMAIN Ladder}

\* An attempt in which some quality failed is returned as an error and retried
\* (transcode_usecase.go:316, 687), so PARTIAL_SUCCESS is only published by an
\* attempt, of any run, that found every quality: those its error names were
\* encoded after all, against docs/API.md:235 ("some qualities failed").
PartialMeansAll ==
    job.status = "PARTIAL_SUCCESS" =>
        job.output.qualities = {Ladder[i] : i \in DOMAIN Ladder}

\* Every Execute that starts returns, unless the process dies.
EveryRunReturns == \A r \in Runs : (pc[r] = "load") ~> (pc[r] = "done" \/ ~up)

\* Whatever the interleaving of runs and resume requests, the status a client
\* polls ends in a final one.
StatusSettles == <>[](job.status \in {"COMPLETED", "PARTIAL_SUCCESS", "FAILED"})

\* transcode_usecase.go:791: a job over the disk limit "will be terminated".
OverLimitTerminates == \A r \in Runs : (watcher[r] = "gone") ~> (pc[r] = "done")

=============================================================================
