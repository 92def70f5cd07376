# A TLA+ model of the video encoder service

The service takes transcoding jobs over HTTP, runs each through a sequence of
idempotent steps (hash, deduplication, analysis, encoding, finalization), keeps
the progress of a job in a state file so that a retry resumes it, and cleans up
after itself when the disk fills. This directory holds the TLA+ modules that
model it, the TLC configurations that check them, and the TLAPS proofs.

## The system

| Component | Its state | Operations |
|---|---|---|
| Job execution (`usecases/transcode_usecase.go`, `separate_av_encoder.go`) | the running attempt: loop variable, `*JobState`, variants done and failed, three goroutines with a stop channel each | `Execute`, `process`, the steps, `encodeWithResume`, `EncodeSeparateAV`, heartbeat, periodic disk check |
| Persistent state (`services/state_service.go`, `pkg/types/state.go`) | `outputs/<id>/state.json` | `CreateState`, `LoadState`, `SaveState`, `UpdateState`, `FindOrphanedJobs` |
| Repository and job service (`filesystem/repository.go`, `services/job_service.go`) | the map of jobs, in memory, shared by pointer | `Create`, `Get`, `Update`, `Delete`, `UpdateStatus`, `SetError`, `SetMetadata`, `SetHash`, `IncrementRetry` |
| Handlers, queue, workers (`handlers/job_handler.go`, `cmd/api/main.go`) | `jobQueue` (a channel of 100), `activeWorkers` | `CreateJob`, `DeleteJob`, `ResumeJob`, `StartWorker`, `CreateBatchJob`, `ScheduleJob`, orphan resume, shutdown |
| Scheduler (`services/scheduler_service.go`) | `scheduledJobs` and their timers | `ScheduleJob`, `CancelScheduledJob`, `executeScheduledJob`, `Stop` |
| Batches (`services/batch_service.go`) | batches: a list of job pointers and a status | `CreateBatch`, `UpdateBatchStatus`, `calculateBatchStats`, `DeleteBatch` |
| Disk service and dead letter queue (`services/disk_service.go`, `dlq_service.go`) | the directories under `outputs` | `CanAcceptNewJob`, `AutoCleanup`, `EnforceJobSizeLimit`, `CheckJobSizeLimit`, `MoveToDLQ`, `CleanupOld` |
| Deduplication cache (`cache/deduplication.go`) | hash to job id, and its JSON file | `CheckDuplicate`, `Store`, `load`, `save` |
| Rate limiter (`middleware/rate_limiter.go`) | a token bucket per key: a header's value, or an address with its port | `allow`, cleanup |
| WebSocket manager (`websocket/manager.go`) | connections per job | `HandleConnection`, `BroadcastProgress`, add, remove |
| Watchdog and FFmpeg commands (`pkg/utils/watchdog.go`, `infrastructure/ffmpeg/`) | the ffmpeg and ffprobe processes, the goroutines and channels of `Watch`, the files under `outputs/<id>` | `Watch`, `EncodeQuality`, `ExtractAudio`, `GenerateMultiQualityAudio`, `EncodeVideoOnly`, `GeneratePreviews`, `GenerateMasterPlaylist` |
| Priority queue (`pkg/types/priority_queue.go`), metrics, webhooks, validator, CDN and storage placeholders | | |

Who touches what: a handler creates a job in the repository and sends it to
`jobQueue`; a worker receives it and starts a goroutine that calls `Execute`;
`Execute` changes the job through the job service and the state file through the
state service, with no lock held from one call to the next; the heartbeat and
the disk check goroutine of the run do the same beside it; a resume request
sends the same pointer to the queue again; a delete request and the cleanup
worker remove the job's directory and the repository entry under it.

What is hard about it: the state file is read and written back by two
goroutines with two separate lock acquisitions; every stop channel is
unbuffered, so stopping needs the other side alive; a job is visible as FAILED
while it is still being worked on, which lets a resume start a second `Execute`;
files and repository entries disappear under a running job; a command that the
watchdog gave up goes on writing where the retry writes; an error text, not
an error value, decides whether a job is retried. PROJECT.json lists these
hazards with their lines.

What makes each part correct: the copies of the state never claim work that was
not done and every attempt can resume from any of them (state); every `Execute`
returns and leaves a final status, a dead letter entry was earned by its
retries, a status means what the API says (execution); nothing queued or
scheduled is lost and no more than the configured workers run (dispatch); the
final status of a batch is backed by its jobs (batches); a full disk is freed
again, and the cache names only jobs that published an output (storage);
broadcasts reach whoever stays connected and never a closed connection
(WebSocket); a key gets its rate and keeps getting it (rate limiter); a late
result never counts for a retry, and what a job lists as its output is whole
(watchdog and FFmpeg commands).

## The modules

### JobTypes

The data of `pkg/types`: statuses, the `JobState` record with its mark
operations, the retry table, and `extractErrorCode` over the error texts
`process()` returns. `contains` in the code is not a substring test: it finds a
keyword only at the start (or one character after it) or at the end of the text,
so each text is modelled by its first and last word. That is why an error that
mentions the disk in the middle is classified as `ERR_FFMPEG_FAILED` and
retried.

### JobExecution

One job and everything that happens to it from its hand-over to a worker.
`Runs` are the goroutines that may execute it; `pc[r]` is where one of them is.
Each location stands for the code between two points at which another goroutine
can change what the next call reads:

| Locations | Code |
|---|---|
| `load`, `running` | `process`: getOrCreateState, start of the goroutines, status RUNNING |
| `hash`, `dedup`, `analysis` | the idempotent steps of `executeSteps` |
| `limit`, `encode`, `encoding` | `stepEncoding`, `encodeWithResume` |
| `audio`, `sound`, `tracks`, `track` | `encodeSeparateAV`, `EncodeSeparateAV` |
| `metadata`, `flag`, `cleanup`, `publish`, `store` | `stepFinalization` |
| `stop_watcher`, `stop_heartbeat` | the deferred sends of `process`, last started first |
| `result`, `bury`, `sleep`, `done` | the retry loop of `Execute` and what follows it |

`file` is the state file, `state[r]` the copy in the run, `beat[r]` the copy its
heartbeat has loaded and not yet saved. `dirs` is the directories of the job's
output, whose number stands for its size: the job is over its limit when there
are more than `SizeLimit`. `cache` is what the deduplication cache answers for
the job's hash. The environment resumes, deletes, cleans up and lets another job
with the same input store its hash; `Events` selects which of these, and which
failures of the steps, an instance has.

A size that cannot be read is handled in two ways, as in the code: the check before
the encoding passes it (`CheckJobDiskLimit`), the one after a variant fails the
attempt and keeps the files (`EncodeUnmeasured`).

Abstracted: progress percentages and broadcasts, previews, metrics (its
goroutine always takes its stop signal), the contents of metadata, and time: a
heartbeat or a disk check may come at any moment, and a backoff takes a step.
The status and the error of `SetError` are one step, as are the status, error
and deletion of an over-limit job: nothing reads between them what they change
last. A nil dereference after the job was deleted (`stepDeduplication`,
`stepFinalization`) ends the process: `up` becomes FALSE. Whether an input has
audio is fixed, here and in `Encoder`: `HasAudioStream` (`probe.go:122`) takes a
failing `ffprobe` for an input without audio, so in the code a retry may follow the
other path. PROJECT.json lists this as a hazard without a property.

### JobContract

What a client is promised of one job, without steps, files or counters: the
status it polls, executions asked for (`waiting`), under way (`active`) and past
their result (`published`). An execution begins only if it was asked for, a job
that is gone keeps its status, a published result is taken back by the disk
check only, and the last execution to end leaves a final status.

`JobExecution` implements it (`ImplementsContract`): `waiting` is the queued job
and the accepted resumes, `Active` the runs between their delivery and their
return, `Published` those of them past the step that set COMPLETED or
PARTIAL_SUCCESS. Two things of the code are in the abstract specification
because of this mapping, and were not in its first form: an execution may show
FAILED and still publish a result (`SetError` of a partial success, then
`PublishStatus`), and a periodic check under way may set FAILED after the result
was published (`Withdraw`).

### Encoder

The ffmpeg commands of one job. An attempt is the encoding and the previews of
one call of `process`: a list of tasks (`Scripts`), one command each, in the
order of `EncodeSeparateAV` or `encodeWithResume`, the master playlist, and
`generatePreviews`. `pc[a]` says whether attempt `a` is between two commands, in
an `ffprobe`, or waits for an ffmpeg.

| State | Code |
|---|---|
| `exit[a][f]` | the process that writes `f`: running, or its exit code until `Run` or `fn` returns |
| `done[a][q]` | what `Watch` has received for a quality; "ok" is kept, so the history is visible |
| `late` | calls whose `Watch` has returned at its timeout |
| `complete`, `known[a]` | `QualitiesComplete` in the state file and in the attempt's copy |
| `listed[a]` | the files the result of the attempt names |
| `content[f]`, `hurt[a]` | absent, in part or whole; commands that cannot do their work any more |

A command is hurt when another process begins to write its file or one it reads,
when it starts to read what is not whole, or when its file is removed; a hurt
command may fail, or exit with 0 and leave its file in part. Only
`EncodeQuality` has a watchdog (`Watched`). Its timeout may come at any moment
(`TimesOut`): `NewWatchdog` computes a time that ffmpeg may or may not need. The
goroutine of the call then sends into a channel of its own that nobody reads
(`FnReturns`), and the process keeps running, since `fn` gets no context.
`RemoveFiles` is the directory removed by a cleanup, a request or a size limit;
overlapping attempts are two executions of the job. `JobExecution` has the same
attempts with their commands reduced to success or failure.

The two master playlists are not alike. With audio a write that fails fails the
attempt, and leaves a part of the file or none (`MasterFails`,
`master_playlist.go:84`). Without audio the errors of the writes are ignored
(`encoder.go:151-167`), so `MasterPlaylist` may leave a part, which is listed as the
whole is.

The duration, the bitrates and the arguments of the commands are left out, and so
are log files and the read of the chunk directory, which only finds whether it
is there.

### Dispatch

How several jobs get from a request to a goroutine: the create, schedule and
resume handlers, the scheduler with its mutex and timers, the queue, the
workers, the shutdown signal. An execution is reduced to what dispatch sees of
it: it marks the job RUNNING, may show FAILED while it goes on, ends with a
final status, or fails before it was RUNNING.

| State | Code |
|---|---|
| `jobQueue`, `sending` | the channel; goroutines blocked in `h.jobQueue <- job` without a lock |
| `arriving`, `holder` | `SchedulerService.ScheduleJob` waiting for `s.mu`; the job it sends with `s.mu` held |
| `scheduled`, `fired` | `scheduledJobs` and their timers; timers that went off and wait for `s.mu` |
| `resuming`, `resumes` | `ResumeJob` between its check and its update; requests accepted so far |
| `starting`, `running` | goroutines started by a worker before and after `UpdateStatus(RUNNING)` |
| `stopped`, `scheduler`, `ctx` | workers that returned; `Stop`, which never returns; the signal |

`executeScheduledJob` sets the status after it has released the mutex: nobody
else can change the job then, so the two are one step. So are `jobService.CreateJob`
and the assignment of SCHEDULED in the handler. A request that fails validation
or whose identifier exists changes nothing and has no action. `JobExecution`
refines what `starting` and `running` stand for, one job at a time.

### Storage

What lies in the output directories and what is decided from it: jobs that
write, fail, are resumed, deleted, or answered from the deduplication cache,
and the cleanup worker, which sorts the jobs once (`CleanupOrder`, by the
priority of the status in the state file and then by age) and removes them one by
one until the usage is below its target. The disk's usage is the number of
directories with output; how old a directory is, in the classes that
`getCleanupPriority` tells apart, is chosen when the cleanup lists it. The
directories of the jobs in `Stuck` cannot be removed. The dead letter directory lies
among the job directories, so the cleanup removes it like a job's; its entries are in
`JobExecution`.

| State | Code |
|---|---|
| `dir`, `Usage` | the directories under `outputs` with the status in their `state.json` |
| `phase`, `mark`, `wrote` | the execution of each job: its place, its copy of the state, its outputs |
| `known` | the jobs in the repository, in memory only: `Restart` empties it |
| `deleting` | requests of `DeleteJob` between `DeleteJobFiles` and the repository's `Delete` |
| `cache`, `file`, `saving` | `hashMap`, `dedup.json`, a `Store` that holds the cache's mutex while it writes |
| `list`, `target` | `AutoCleanup` under way |
| `orphans` | `resumeOrphanedJobs`: the states it has found and not yet looked up |

An execution is reduced to what it leaves on the disk. It publishes its output
(`Publish` is `SetMetadata`), stores its hash (`Store` opens `dedup.json` anew,
`Finish` has written it or not: a crash or a full disk leaves a file that `load`
cannot read, and `Restart` then begins with an empty cache) and ends. `DeleteFiles`
and `DeleteRecord` are the two halves of `DeleteJob`, which looks at no status: a
job may be deleted while it is queued, running, or between the two halves of a
resume (`ResumeCheck`, `ResumeSend`). Its execution goes on without a record, makes
its directory anew, fails (`AttemptLeadsTo`, `GiveUp`) or takes the process with it
(`Panic`). `Restart` also finds the states of the jobs that were being processed
(`Orphaned`), and `ResumeOrphan` looks each up in the repository, which knows none of
them.

Assumed: a job has one execution at a time (two are in `JobExecution`) and one
`DeleteJob` at a time, and an execution that waits for ever after its size limit
(see Findings) is not counted as at rest.

### Batch

`CreateBatchJob` creates and sends the jobs of a batch one after the other
(`AddJob`, `RejectFile`) and only then the batch (`CreateBatch`). A poll
(`BeginUpdate`, `ReadJob`, `EndUpdate`) holds `BatchService`'s mutex, but the
statuses it counts are changed by executions and resumes that do not. A job is
its status, which follows the way of one execution (`Start`, `Settle`) and may
leave it for any other status as often as `MaxAgain` says (`Again`: a resume, or one
of two executions that the other has overtaken). `history` remembers which final
statuses it has had. `Counted` drops a PARTIAL_SUCCESS, as the code does: a
batch with such a job shows PENDING for good, although all its jobs are final.

### WebSocketManager

A handler per progress connection, and the executions that broadcast.
`handler[c]` is where `HandleConnection` stands, `stage[s]` where
`BroadcastProgress` does. A Go map is a reference, so the inner maps have
identities: `table` says which map a job has now, `map[s]` which one a broadcast
looked up before it dropped the lock. `writer` and `readers` are the
`sync.RWMutex`: a handler that has called `Lock` keeps new readers out and waits
for those inside. Clients stall and disconnect. A second writer on one
connection makes the library panic: in a handler `net/http` recovers and the
deferred calls run; in an execution the process ends (`ProcessDies`) and starts
again without connections.

### RateLimiter

The token buckets of `allow`, one for each key. A key is what `GetClientIP` makes of
a request: the value of `X-Forwarded-For` or of `X-Real-IP` as it came, or the
connection's address with its port. A client has as many buckets as it has
connections, or sends header values; what the model says of a rate is said of a
key. `LookUp` is under the limiter's mutex, `Allow` under the visitor's, and `Forget`
is one visitor of a cleanup round, which may come between the two. Visitors are
objects, since a request may hold one that the table has lost. Time is the age of a
visitor since its `lastSeen`; tokens are whole and the division truncates, as in the
code. `credit` is an exact bucket that the code is compared with.

## The runs

TLC checks `MCJobExecution`, `MCEncoder`, `MCStorage` and `MCWebSocketManager`,
which give constants of `JobExecution`, `Encoder`, `Storage` and
`WebSocketManager` their values, and `Dispatch`, `Batch` and `RateLimiter`
themselves.

| Run | Instance | Shows |
|---|---|---|
| `exec_limits` | one run, two variants, with and without audio, a limit of one output, one retry, one resume, every event | types; no copy of the state claims a hash the job has not (`HashKnown`) or a step without its predecessors (`TrailInOrder`), whatever is saved late, lost, deleted; the cache names the job only after its output is published (`CacheAfterOutput`); the run implements `JobContract`, over its limit, deleted, or with the process dead under it (`ImplementsContract`) |
| `exec_shared` | two runs of the same job, no audio, failing encoders, one retry, one resume | a dead letter entry was earned by its retries (`DeadLetterEarned`); COMPLETED means every quality (`CompletedMeansAll`), and so does PARTIAL_SUCCESS, which is only reached once a retry or the other run has encoded what failed (`PartialMeansAll`); two runs at once implement `JobContract` (`ImplementsContract`) |
| `exec_returns` | one run, failing encoders, a retry budget above the backoff table, one resume, fairness | every `Execute` returns (`EveryRunReturns`); the polled status settles (`StatusSettles`) |
| `exec_over_limit` | one run over its size limit, fairness | refutes `OverLimitTerminates` |
| `exec_audio` | one run, an input with audio, failing encoders | refutes `CompletedMeansAll` |
| `encoder` | two attempts, an input without audio (two qualities) or with audio (one), a bitrate, a thumbnail, and one removal or overlap; fairness | a quality the state names was encoded by a command that ended well while it was waited for, never by a late one (`EncodedInTime`); a result lists whole files only, unless a command was given up, two executions overlap or files were removed, and but for the master playlist of an input without audio (`PublishedWhole`); a hung command holds up an attempt only where no watchdog is (`OnlyUnwatchedHold`); abandoned goroutines leave (`GoroutinesLeave`) |
| `dispatch` | two jobs, two workers, a queue of one, two resumes each, shutdown at any moment, fairness | a QUEUED, SCHEDULED or RUNNING job always has somebody to take it on (`StatusBacked`); timer, mutex and shutdown never add an execution (`AskedFor`); every waiting job is taken up while the service lives (`EveryJobRuns`) |
| `dispatch_workers` | two jobs, one worker | refutes `WorkersBounded` |
| `storage` | two jobs with one input, one of whose directories cannot be removed, one crash, the cleanup worker fair | an entry of the cache or its file names a job that published its output (`CacheSound`); a full disk is freed again, whatever the cleanup stumbles over (`AcceptsAgain`); a job deleted while it was at rest, with no resume in between, has no directory and no execution any more (`DeletedForGood`) |
| `batch` | two requests, two identifiers, two jobs whose status may jump once to any other, every batch polled for ever | a final status of a batch is backed by what each job was (`VerdictEarned`); no request changes or shares another's jobs (`BatchesKept`); of jobs that rest, polling says what the documentation has the statuses mean, but that PENDING may mean more (`StatusCatchesUp`) |
| `websocket` | two connections and two executions, of one job or of two, fairness | no write to a closed connection (`NoWriteAfterClose`); a broadcast reaches everybody connected from its lookup to its end (`AllConnectedWritten`); broadcasts end and handlers leave unless a client stalls for good (`BroadcastsEnd`, `HandlersLeave`) |
| `ratelimiter` | two keys, a connection and a header's value, two requests at a time, a token every two units of time | the rate of each key is kept up to a token per request in flight and the rest of one (`KeyRateKept`); being denied does not put off the next token (`AskersAdmitted`) |

Bounds. Two variants are the least that make a partial success, a skipped
variant and a resumed ladder possible. `SizeLimit` 1 is crossed by the second
variant, after a first one was kept. One retry makes a second attempt from a
state file; `MaxRetries` 4 in `exec_returns` is above the three backoffs of the
table, so the loop ends through the table too. One resume makes a second run of
the same job; two runs are the overlap of an `Execute` and a resumed one. In
`dispatch` a queue of one makes a second sender block, with or without the
scheduler's mutex; two resumes of a job pass the same check together.

In `encoder` two qualities make a partial failure and a skipped quality, two
attempts a retry whose predecessor's command still runs, and one overlap two
executions in the same files. One fault is enough: `PublishedWhole` says nothing
after one, and a second only repeats the first for the other properties. The
sprite sheet and the clip, which are passed over when they fail as a quality is,
are left out of the instance (`Extras`) but not of the module.

In `storage` two jobs are the least that the cleanup can order and that can share a
hash. `MaxAge` 1 lets two directories with the same status go in either order; the
older classes, which can also put a partial success before a completed job or an
unfinished one before both, are in no run (`CacheSound` and `DeletedForGood` are
proved for them). One output per job and process fills the disk with either job, and
one crash tears the file and empties the repository once. In `batch` two jobs make
every mixture of final statuses, and two requests for one identifier meet in any
order; a status that jumps once is what a poll can be overtaken by. In `websocket` a
client stalls once; two connections make a job's map lose its last connection and be
made anew under a broadcast that holds the old one. In `ratelimiter` a request is
between its two locks at the end of one unit of time at most (a unit is most of a
second, the code between the locks takes microseconds); the two keys are those of
one client with and without a proxy's header, and the two requests meet at one key
or are at both. `RateLimiterAssumption` asks that an age of `Cleanup` refills any
bucket, which 100 tokens a minute, a burst of 20 and five minutes do.

Fairness. Every step of a run, the delivery of a queued job, the second half of a
heartbeat and of a request are weakly fair: the Go scheduler runs every runnable
goroutine, and the steps' external commands end. `StopHeartbeat` is strongly fair:
the heartbeat's `select` chooses among ready cases at random, so an offered stop
signal is taken. Nothing is assumed of tickers, failures or clients. In `Encoder`
the service's own steps and the goroutines of `Watch` run and timers go off, but no
ffprobe or ffmpeg is assumed to end. In `Dispatch` timers go off, free mutexes are
taken, a channel serves its waiting senders (Go keeps them in a first-in first-out
list) and workers receive; executions are not assumed to end. In `Storage` only the
cleanup worker is fair. In `Batch` a client polls each batch for ever: `BeginUpdate`
is strongly fair, since it waits for a mutex that polls of other batches also take.
In `WebSocketManager` goroutines run and a client that stalls reads on or is gone
some day. The last is an assumption on the clients: the writes have no deadline, and
a client that stalls for good stops every broadcast. In `RateLimiter` time passes
and a request that came in is answered.

The systems of `batch`, `encoder` and `storage` may stop, and their runs do
not look for deadlocks: a request that was refused is not made again, the
attempts of a job are used up, and a job that is final or gone with the
directories cleaned leaves nothing to do.

## Findings

- The periodic disk check returns when it has failed a job over its limit
  (`transcode_usecase.go:792`). `process()` then waits for ever in its deferred
  `stopDiskCheck <- true` (line 610): the job is never retried nor buried, and
  its goroutines leak. The comment above says the job "will be terminated".
- An input with audio is COMPLETED even when a quality failed:
  `separate_av_encoder.go:73-76` passes over it and nothing records it.
  `docs/API.md:234` says COMPLETED is "all qualities".
- A worker starts a goroutine for each job it receives (`job_handler.go:299`)
  and receives the next, so any number of jobs encode at once.
  `docs/FEATURES.md:50` gives the number of workers as the limit.

More disagreements have no run of their own. The properties state what holds, and
their exceptions and the actions named here show what does not:

- The cleanup takes a job's status from its state file, where no failure but a
  size limit writes "failed" (`GiveUp` in `Storage` leaves it alone): a job whose
  retries are exhausted stays "processing" there and goes after recent completed
  jobs (`disk_service.go:246`). The comment at `disk_service.go:198` puts failed
  jobs first.
- No orphaned job is ever resumed: `main.go:160` looks it up in the repository
  of a process that has just started (no orphan is in `known`), although line 90 says
  "Resume orphaned jobs".
- The watchdog does not cancel what it gives up (`watchdog.go:9` says it does).
  Without the exception for `late`, `PublishedWhole` does not hold: the retry
  encodes the quality in the directory the old ffmpeg still writes, and may list
  it and end while it is in part.
- A disk that is full while the master playlist of an input without audio is
  written leaves a part of it, and the job is published with it and without an error
  (`encoder.go:151-167`; `Unchecked` in `Encoder`).
- `docs/API.md:235` says of PARTIAL_SUCCESS that "some qualities failed". An attempt
  in which one failed is returned as an error and retried
  (`transcode_usecase.go:316`, `687`). The status is only published by an attempt
  that found every quality, after an earlier one had failed (`PartialMeansAll`); a
  quality that keeps failing ends the job as FAILED.
- A job can be deleted whatever it is doing (`job_handler.go:161-190`). One that is
  queued, running, or being resumed is still executed: it makes its directory anew,
  or ends the process with a nil dereference. `docs/API.md:289` answers "Job and all
  associated files deleted successfully". `DeletedForGood` is therefore stated of jobs
  deleted at rest that no resume crossed.
- The cache keeps naming a job that was deleted or whose directory was cleaned up:
  a duplicate is COMPLETED with an output that is gone, where `docs/FEATURES.md:16`
  speaks of reused outputs. And a crash while `dedup.json` is written loses every
  entry, where `docs/FEATURES.md:18` says that the cache survives restarts
  (`CacheSound` says only that no entry is wrong).
- The rate limiter counts raw header values, or addresses with their ports
  (`rate_limiter.go:112-126`). `docs/ADVANCED_FEATURES.md:515` and `529` say per IP
  address and per client, and `docs/API.md:321` that no limits are enforced.
- A batch one of whose jobs ends in PARTIAL_SUCCESS shows PENDING for good, which
  `docs/ADVANCED_FEATURES.md:273` explains as "No jobs started yet"; so does one with
  queued jobs beside finished ones, for the time (`StatusCatchesUp` leaves PENDING
  open for this reason).

## The proofs

`JobExecutionProofs` proves, for any set of runs, any ladder and any limits:

- `TypeCorrect`: `TypeOK`, with `InLadder` (a run that encodes a variant points
  into the ladder), which typing needs to know that a variant is a quality.
- `CopiesCorrect`: the invariant behind the next two. `StepsBehind` bounds from
  below, for each location, the steps a run's state has marked; `CopiesSound`
  says every copy (file, run, heartbeat) is ordered and claims the hash only of
  a job that has one. Neither is inductive alone: a step may be marked because
  of where the run is, and a run may be there because of what its copy says.
  The lemma `WriteState` does the work once for every operation that saves.
- `HashKnownCorrect`, `TrailInOrderCorrect`: from `CopiesCorrect`.
- `CacheAfterOutputCorrect`: with `OutputKnown`, a run past `SetMetadata` has
  published its output and nothing withdraws it (the lemma `OutputFirst`).
- `DeadLetterEarnedCorrect`: with `Counted`, the shared retry counter is at
  least each run's loop variable, but for the retry whose backoff it is
  sleeping. More runs only add to the counter.
- `CompletedMeansAllCorrect`: `CompletedMeansAll`, under `Undisturbed`: no audio,
  nothing deletes or cleans up the job's files, and the whole ladder fits in the
  size limit. These are the conditions the code needs, not those of an instance:
  with audio TLC refutes the property (`exec_audio`), and a directory that is
  removed makes `SkipVariant` list fewer qualities. `AllKept` says that every
  copy of the state names only qualities whose directories are there (`Kept`), and
  that a run has every quality behind it in its result or among its failures
  (`Covers`). `LadderFits` counts: a ladder's directories are not over the limit.
- `PartialMeansAllCorrect`: `PartialMeansAll`, under the same conditions, for any
  number of executions: from `AllKept`, since the output a run publishes is its
  result, and `OutputFirst`, which has the output known before the status.

`JobContractProofs` proves on top of it that `JobExecution` implements
`JobContract` (`ContractKept`), for any runs, ladder, retries and resumes. The
forty steps of a run are sorted by what a client can see of them (`StepKinds`:
labouring, burying, publishing, tidying, ending, dying), and the kinds, not the
steps, are shown to be steps of `JobContract`. The one promise that needs an
invariant is that the last execution to end leaves a final status: `StatusOwed`
(`StatusOwedCorrect`) says that a status that is not final is owed by a hand-over
or by a run that still has a final one to set, and `Attended` that a periodic
check fires only while its run is inside `process`.

`StorageProofs` proves, for any jobs, hashes, limits, stuck directories and
crashes:

- `TypeCorrect`: `TypeOK`; a job in a cleanup's list is a directory, whatever
  order `CleanupOrder` gives them.
- `CacheSoundCorrect`: `CacheSound`. `Store` alone writes the cache, and of a job past
  `Publish` (`StoresFinished`); `Finish` saves it, `Restart` reads back what was saved.
- `DeletedForGoodCorrect`: `DeletedForGood`. The invariant `DeletionInv` says the same of a
  deletion at rest that has removed the files and not yet the record, where a resume
  can still come in between; that a job which is gone has no record, by which every
  request and every orphan is turned away; and that no orphan has one.

`EncoderProofs` proves, for any inputs, ladder, attempts and faults:

- `EncodedInTimeCorrect`: `EncodedInTime`. The invariant is `InTime`: whatever a
  channel holds was received by the attempt that waits for this quality, or by
  one that knows it (`ReceivedInTime`), a goroutine that is not given up belongs
  to the call waited for (`InsideInTime`), and for each quality in the state some
  attempt vouches (`AllVouched`). The proof needs that an attempt never encodes
  what it knows (`EncodesUnknown`), or its second call would find the first one's
  result.
- `TypeCorrect`: `TypeOK`, with `AtTask` (who waits is at a task of the script).
  `ScriptGood` says of every script that it names no file twice and that what a
  command reads is written by an earlier one: it is put together from the lemmas
  `PlainGood`, `AudioGood` and `PreviewsGood` by `GoodJoin`, and `Increasing`
  gives the selected rungs their order.
- `PublishedWholeCorrect`: the action property `PublishedWhole`. The invariant
  `Whole` adds to `InTime` who may write a file: a process that was not given up
  is the one its attempt waits for (`Owned`), and without a fault one attempt is
  at work, which knows what the state says (`Alone`). So a command at peace is
  not disturbed and leaves its file whole (`WrittenWell`), if what it reads is
  whole when it starts (`SourcesReady`). A file that is listed, or that the state
  names, is not written again (`ListedDone`, `CompleteWhole`); the master playlist of an
  input without audio is listed whole or not (`Unchecked`). A fault, or a
  command given up, is not undone (`Calm`), so each conjunct holds again after a
  step from itself and the others.

`DispatchProofs` proves, for any jobs, workers, queue capacity and resumes:

- `DispatchTypeCorrect`: `TypeOK`.
- `StatusBackedCorrect`: `StatusBacked`, inductive with the types. The lemmas
  `AppendKeeps` and `TailKeeps` say what a send and a receive leave in the queue.
- `AskedForCorrect`: `AskedFor`. The invariant adds that a job nobody has created
  weighs nothing (`Weighed`), without which `CreateJob` could add to an execution
  under way. How often the queue holds a job is a cardinality; `CountAppend` and
  `CountTail` say what a send and a receive make of it.

`BatchProofs` proves, for any requests, identifiers, jobs and files:

- `TypeCorrect`: `TypeOK`.
- `VerdictEarnedCorrect`: `VerdictEarned`. An update reads the jobs one by one
  while they change, so its counts are not true of any one moment; what they are
  true of is `Earned`: counts that add up to the jobs read so far say of each that
  it has been `COMPLETED` or `FAILED` at some time. `CountSound` keeps this of the
  update under way, `StatusRecorded` that a status shown now has been shown.
- `BatchesKeptCorrect`: the action property `BatchesKept`, because every batch is
  of one answered request (`BatchesAnswered`) and no job is listed by two
  requests (`JobsApart`).

`WebSocketProofs` proves, for any connections, executions and jobs:

- `TypeCorrect`: `TypeOK`.
- `NoWriteAfterCloseCorrect` and `AllConnectedWrittenCorrect`:
  `NoWriteAfterClose` and `AllConnectedWritten`, from one invariant. `MapsSound`
  ties the maps to the handlers: a connection is in the map its job has now and in
  none it had before, and a handler is connected only if its connection is there.
  `SenderSound` follows a broadcast between and under its two read locks. The
  second keeps every connection it goes through listed, so unclosed; between the
  two, what it still owes is in the map it looked up, which is dropped only when
  it is empty.

`RateLimiterProofs` proves, for any headers, connections, requests, rate, burst and
cleanup age under the named assumption (a visitor that is forgotten has had the time
to fill its bucket):

- `TypeCorrect`: `TypeOK`, which needs that a visitor is always free for a new
  key (`SomeUnused`, by counting those in use).
- `KeyRateKeptCorrect`: `KeyRateKept`. The invariant compares the key's exact credit
  with what its visitor can still give (`Covered`), less one token for each
  request that is not stale (`Done`): a request that holds a forgotten visitor can
  take one token more, and only once. `Recovers` says that a resting bucket makes
  good what was taken so, `StaleSoon` that a request is stale for one unit of time
  at most, and `VisitorsApart` that no two keys share a visitor. It bounds no
  client, which may use any number of keys.

The proofs use the named assumptions on the constants, which TLC evaluates in
every run of the module. Every safety property of a passing run is stated by a
theorem; what stays model-checked only is liveness, which is out of the prover's
reach: `EveryRunReturns`, `StatusSettles`, `EveryJobRuns`, `BroadcastsEnd`,
`HandlersLeave`, `AskersAdmitted`, `AcceptsAgain`, `StatusCatchesUp`,
`OnlyUnwatchedHold` and `GoroutinesLeave`.

## Plan

What is left is to relate the two models of an attempt's encoding: `Encoder` and
the encoding steps of `JobExecution` are translated from the same functions, and
no run compares them yet. A refinement would hide the processes and channels of
`Encoder`, and take `next` from the place in the script.

A restart is in `Storage` and not in `Dispatch`: the queue, the timers and the
repository are in memory only, so all three are as in `Init` after it.

## Not modelled

- Metrics: counters that no decision reads; their goroutine always takes its
  stop signal.
- Webhooks, the priority queue, `CancelScheduledJob`, `EndpointRateLimiter`,
  `DeleteBatch`, `EncodeHLS` and its helpers, `GenerateSingleThumbnail`,
  `audio_normalizer.go`: nothing calls them.
- CDN service and storage adapters: placeholders. The handlers hold the one and
  never call it, and nothing creates the others.
- Input validation: pure checks of one file through `ffprobe`, whose failure is
  the failure of a request or of a step.
- Configuration, response helpers, routing, logging: no state.
- Wall-clock time is reduced to the order of events, the arguments of commands
  to the files they read and write.
