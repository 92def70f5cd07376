-------------------------- MODULE JobContractProofs --------------------------
(***************************************************************************)
(* JobExecution implements JobContract, for every number of runs and       *)
(* resumes, every ladder and every value of the limits.                    *)
(*                                                                         *)
(* The only promise that is not local to a step is the last one: no        *)
(* execution is the last to end with QUEUED or RUNNING shown.  It needs    *)
(* StatusOwed: as long as the status is not final, a hand-over is on its   *)
(* way or a run is before the point where it sets a final one.  The rest   *)
(* of the proof sorts the forty steps of a run by what a client can see of *)
(* them (StepKinds) and reasons about those kinds only.                    *)
(***************************************************************************)
EXTENDS JobExecutionProofs

-----------------------------------------------------------------------------
(* The invariant.                                                          *)

\* The run has yet to set a final status: one of the publishing steps, or
\* SetError after process() has returned an error, is still before it.
Owes(r) == r \in Active \ Published /\ pc[r] # "bury"

StatusOwed ==
    Present /\ job.status \notin Contract!Final
        => queued + resuming > 0 \/ \E r \in Runs : Owes(r)

\* The disk check of a run ticks only inside process().
Attended ==
    \A r \in Runs : watcher[r] = "ticking" =>
        pc[r] \notin {"idle", "done", "load", "stop_heartbeat", "result", "bury", "sleep"}

-----------------------------------------------------------------------------
(* What a client can see of one step of a run.                             *)

Alone(r) ==
    /\ r \in Runs /\ UNCHANGED <<queued, resuming>>
    /\ job'.present = job.present
    /\ \A p \in Runs \ {r} : pc'[p] = pc[p] /\ failure'[p] = failure[p]

SameStatus    == up' = up /\ job'.status = job.status
FailsIfThere  == up' = up /\ job'.status = IF Present THEN "FAILED" ELSE job.status

\* Before the result is known.
Labours(r) ==
    /\ Owes(r) /\ Owes(r)'
    /\ up' = up
    /\ \/ job'.status = job.status
       \/ Present /\ job'.status \in {"RUNNING", "FAILED"}

\* ExhaustRetries.
Buries(r) == Owes(r) /\ pc'[r] = "bury" /\ FailsIfThere

\* PublishStatus and StepDuplicateFound.
Publishes(r) ==
    /\ Owes(r) /\ r \in Published'
    /\ up' = up
    /\ IF Present THEN job'.status \in {"COMPLETED", "PARTIAL_SUCCESS"}
       ELSE job'.status = job.status

\* StoreInCache and the deferred calls of a successful process().
Tidies(r) == r \in Published /\ r \in Published' /\ SameStatus

\* Succeed, MoveToDLQ and GiveUp.
Returns(r) ==
    /\ pc'[r] = "done"
    /\ \/ r \in Active /\ (r \in Published \/ pc[r] = "bury") /\ SameStatus
       \/ Owes(r) /\ FailsIfThere

\* Panic.
Dies(r) == r \in Active /\ up' = FALSE /\ UNCHANGED <<pc, failure, job>>

Kind(r) == \/ Labours(r) \/ Buries(r) \/ Publishes(r)
           \/ Tidies(r) \/ Returns(r) \/ Dies(r)

\* Every step of Execute and process() is of one of these kinds.
LEMMA StepKinds ==
    ASSUME TypeOK, NEW r \in Runs, Step(r)
    PROVE  Alone(r) /\ Kind(r)
<1>. USE DEF handlers, stored, loop, attendant, TypeOK, Alone, Kind, Active,
             Published, Owes, SameStatus, FailsIfThere, Goto, Leave, Present
<1>1. CASE \/ GetOrCreateState(r) \/ CreateStateFails(r) \/ MarkRunning(r)
           \/ StepHashComputation(r) \/ StepHashFails(r)
  <2>1. Alone(r) /\ Labours(r)
    BY <1>1 DEF GetOrCreateState, CreateStateFails, MarkRunning,
        StepHashComputation, StepHashFails, SaveOrFail, UpdateStatus, Labours, Job
  <2>. QED BY <2>1
<1>2. CASE StepDeduplication(r) \/ StepAnalysis(r) \/ StepAnalysisFails(r)
  <2>1. Alone(r) /\ Labours(r)
    BY <1>2 DEF StepDeduplication, StepAnalysis, StepAnalysisFails, SaveOrFail,
        Labours
  <2>. QED BY <2>1
<1>3. CASE SkipStep(r)
  <2>1. Alone(r) /\ Labours(r)
    BY <1>3 DEF SkipStep, Labours
  <2>. QED BY <2>1
<1>4. CASE DiskLimitExceeded(r)
  <2>1. Alone(r) /\ Labours(r)
    BY <1>4 DEF DiskLimitExceeded, SetError, Labours, Job
  <2>. QED BY <2>1
<1>5. CASE CheckJobDiskLimit(r)
  <2>1. PICK l \in {"audio", "encode"} : Goto(r, l)
    BY <1>5 DEF CheckJobDiskLimit
  <2>2. Alone(r) /\ Labours(r)
    BY <1>5, <2>1 DEF CheckJobDiskLimit, Labours
  <2>. QED BY <2>2
<1>6. CASE \/ SkipVariant(r) \/ StartVariant(r) \/ EncodeSucceeds(r)
           \/ EncodeExceedsLimit(r) \/ EncodeUnmeasured(r) \/ EncodeFails(r)
           \/ EncodingComplete(r) \/ EncodingPartial(r) \/ EncodingFails(r)
  <2>1. Alone(r) /\ Labours(r)
    BY <1>6 DEF SkipVariant, StartVariant, EncodeSucceeds, EncodeExceedsLimit,
        EncodeUnmeasured, EncodeFails, EncodingComplete, EncodingPartial, EncodingFails,
        UpdateStatus, Labours, Job
  <2>. QED BY <2>1
<1>7. CASE \/ StartAudio(r) \/ AudioSucceeds(r) \/ AudioFails(r)
           \/ StartTrack(r) \/ TrackSucceeds(r) \/ TrackFails(r)
           \/ TracksComplete(r) \/ TracksFail(r)
  <2>1. Alone(r) /\ Labours(r)
    BY <1>7 DEF StartAudio, AudioSucceeds, AudioFails, StartTrack,
        TrackSucceeds, TrackFails, TracksComplete, TracksFail, Labours
  <2>. QED BY <2>1
<1>8. CASE SetMetadata(r) \/ SetMetadataFails(r) \/ FlagPartial(r)
  <2>1. Alone(r) /\ Labours(r)
    <3>1. CASE SetMetadata(r)
      BY <3>1 DEF SetMetadata, Labours, Job
    <3>2. CASE SetMetadataFails(r)
      BY <3>2 DEF SetMetadataFails, Labours, Job
    <3>3. CASE FlagPartial(r)
      BY <3>3 DEF FlagPartial, SetError, Labours, Job
    <3>. QED BY <1>8, <3>1, <3>2, <3>3
  <2>. QED BY <2>1
<1>9. CASE CleanupIntermediate(r) \/ Backoff(r) \/ Retry(r)
  <2>1. Alone(r) /\ Labours(r)
    BY <1>9 DEF CleanupIntermediate, Backoff, Retry, Labours, Job
  <2>. QED BY <2>1
<1>10. CASE StepDuplicateFound(r) \/ PublishStatus(r)
  <2>1. Alone(r) /\ Publishes(r)
    BY <1>10 DEF StepDuplicateFound, PublishStatus, UpdateStatus, Publishes, Job
  <2>. QED BY <2>1
<1>11. CASE StoreInCache(r)
  <2>1. Alone(r) /\ Tidies(r)
    BY <1>11 DEF StoreInCache, Tidies
  <2>. QED BY <2>1
<1>12. CASE StopWatcher(r) \/ StopHeartbeat(r)
  <2>1. CASE failure[r] = "none"
    <3>1. Alone(r) /\ Tidies(r)
      BY <1>12, <2>1 DEF StopWatcher, StopHeartbeat, Tidies
    <3>. QED BY <3>1
  <2>2. CASE failure[r] # "none"
    <3>1. Alone(r) /\ Labours(r)
      BY <1>12, <2>2 DEF StopWatcher, StopHeartbeat, Labours
    <3>. QED BY <3>1
  <2>. QED BY <2>1, <2>2
<1>13. CASE Succeed(r) \/ MoveToDLQ(r) \/ GiveUp(r)
  <2>1. Alone(r) /\ Returns(r)
    <3>1. CASE Succeed(r)
      BY <3>1 DEF Succeed, Returns, Job
    <3>2. CASE MoveToDLQ(r)
      BY <3>2 DEF MoveToDLQ, Returns, Job
    <3>3. CASE GiveUp(r)
      BY <3>3 DEF GiveUp, SetError, Returns, Job
    <3>. QED BY <1>13, <3>1, <3>2, <3>3
  <2>. QED BY <2>1
<1>14. CASE ExhaustRetries(r)
  <2>1. Alone(r) /\ Buries(r)
    BY <1>14 DEF ExhaustRetries, SetError, Buries, Job
  <2>. QED BY <2>1
<1>15. CASE Panic(r)
  <2>1. Alone(r) /\ Dies(r)
    BY <1>15 DEF Panic, Dies
  <2>. QED BY <2>1
<1>. QED BY <1>1, <1>2, <1>3, <1>4, <1>5, <1>6, <1>7, <1>8, <1>9, <1>10,
         <1>11, <1>12, <1>13, <1>14, <1>15 DEF Step

-----------------------------------------------------------------------------
(* The invariant holds.                                                    *)

\* A final status is owed after every step: what takes a run off the debt, the
\* publishing steps and SetError, shows a final status in the same step, and
\* what shows another one leaves a hand-over or a run behind it.
LEMMA StatusOwedStep ==
    ASSUME TypeOK, StatusOwed, [Next]_vars
    PROVE  StatusOwed'
<1>. USE DEF TypeOK, StatusOwed, Contract!Final, Present, Owes
<1>1. ASSUME NEW r \in Runs, Deliver(r) PROVE StatusOwed'
  <2>1. Owes(r)'
    BY <1>1 DEF Deliver, Active, Published
  <2>. QED BY <2>1
<1>2. ASSUME NEW r \in Runs, Step(r) PROVE StatusOwed'
  <2>1. Alone(r) /\ Kind(r)
    BY <1>2, StepKinds
  <2>2. \A p \in Runs \ {r} : Owes(p) = Owes(p)'
    BY <2>1 DEF Alone, Active, Published
  <2>3. CASE Labours(r)
    BY <2>3 DEF Labours
  <2>4. CASE Buries(r) \/ Publishes(r)
    BY <2>1, <2>4 DEF Buries, Publishes, Alone, FailsIfThere
  <2>5. CASE Tidies(r)
    BY <2>1, <2>2, <2>5 DEF Tidies, Alone, SameStatus
  <2>6. CASE Returns(r)
    <3>1. CASE Owes(r) /\ FailsIfThere
      BY <2>1, <3>1 DEF Alone, FailsIfThere
    <3>2. CASE ~Owes(r) /\ SameStatus
      BY <2>1, <2>2, <3>2 DEF Alone, SameStatus
    <3>. QED BY <2>6, <3>1, <3>2 DEF Returns
  <2>7. CASE Dies(r)
    BY <2>1, <2>2, <2>7 DEF Dies, Alone, Active, Published
  <2>. QED BY <2>1, <2>3, <2>4, <2>5, <2>7, <2>6 DEF Kind
<1>3. ASSUME NEW r \in Runs,
             WatcherFires(r) \/ HeartbeatLoads(r) \/ HeartbeatSaves(r)
      PROVE  StatusOwed'
  <2>1. CASE WatcherFires(r)
    BY <2>1 DEF WatcherFires, handlers, SetError, Active, Published, Job
  <2>2. CASE HeartbeatLoads(r)
    BY <2>2 DEF HeartbeatLoads, handlers, Active, Published, Job
  <2>3. CASE HeartbeatSaves(r)
    BY <2>3 DEF HeartbeatSaves, handlers, Active, Published, Job
  <2>. QED BY <1>3, <2>1, <2>2, <2>3
<1>4. ASSUME Environment PROVE StatusOwed'
  <2>1. \A p \in Runs : Owes(p) = Owes(p)'
    BY <1>4 DEF Environment, ResumeCheck, ResumeEnqueue, DeleteFiles,
        DeleteFromRepository, AutoCleanup, OtherJobStores, Active, Published
  <2>2. CASE ResumeCheck \/ ResumeEnqueue \/ DeleteFromRepository
    BY <2>1, <2>2 DEF ResumeCheck, ResumeEnqueue, DeleteFromRepository, Job,
        UpdateStatus
  <2>3. CASE DeleteFiles \/ AutoCleanup \/ OtherJobStores
    BY <2>1, <2>3 DEF DeleteFiles, AutoCleanup, OtherJobStores, handlers
  <2>. QED BY <1>4, <2>2, <2>3 DEF Environment
<1>5. CASE UNCHANGED vars
  BY <1>5 DEF vars, handlers, Active, Published
<1>. QED BY <1>1, <1>2, <1>3, <1>4, <1>5 DEF Next, Rest

\* The disk check is started inside process() and stopped before it returns.
LEMMA AttendedStep ==
    ASSUME TypeOK, Attended, [Next]_vars
    PROVE  Attended'
<1>. USE DEF handlers, stored, loop, attendant, TypeOK, Attended, Goto, Leave
<1>1. ASSUME NEW r \in Runs,
             Deliver(r) \/ GetOrCreateState(r) \/ CreateStateFails(r)
      PROVE  Attended'
  BY <1>1 DEF Deliver, GetOrCreateState, CreateStateFails, Finished
<1>2. ASSUME NEW r \in Runs,
             MarkRunning(r) \/ StepHashFails(r) \/ StepDuplicateFound(r)
      PROVE  Attended'
  BY <1>2 DEF MarkRunning, StepHashFails, StepDuplicateFound
<1>3. ASSUME NEW r \in Runs, StepHashComputation(r) \/ StepDeduplication(r)
      PROVE  Attended'
  BY <1>3 DEF StepHashComputation, StepDeduplication, SaveOrFail
<1>4. ASSUME NEW r \in Runs,
             \/ StepAnalysis(r) \/ StepAnalysisFails(r) \/ SkipStep(r)
             \/ Panic(r) \/ CheckJobDiskLimit(r) \/ DiskLimitExceeded(r)
             \/ SkipVariant(r) \/ StartVariant(r)
      PROVE  Attended'
  BY <1>4 DEF StepAnalysis, StepAnalysisFails, SkipStep, Panic,
      CheckJobDiskLimit, DiskLimitExceeded, SkipVariant, StartVariant
<1>5. ASSUME NEW r \in Runs,
             \/ EncodeSucceeds(r) \/ EncodeExceedsLimit(r)
             \/ EncodeUnmeasured(r) \/ EncodeFails(r)
             \/ EncodingComplete(r) \/ EncodingPartial(r) \/ EncodingFails(r)
      PROVE  Attended'
  BY <1>5 DEF EncodeSucceeds, EncodeExceedsLimit, EncodeUnmeasured, EncodeFails,
      EncodingComplete, EncodingPartial, EncodingFails
<1>6. ASSUME NEW r \in Runs,
             \/ StartAudio(r) \/ AudioSucceeds(r) \/ AudioFails(r)
             \/ StartTrack(r) \/ TrackSucceeds(r) \/ TrackFails(r)
             \/ TracksComplete(r) \/ TracksFail(r)
      PROVE  Attended'
  BY <1>6 DEF StartAudio, AudioSucceeds, AudioFails, StartTrack,
      TrackSucceeds, TrackFails, TracksComplete, TracksFail
<1>7. ASSUME NEW r \in Runs,
             \/ SetMetadata(r) \/ SetMetadataFails(r) \/ FlagPartial(r)
             \/ CleanupIntermediate(r) \/ PublishStatus(r) \/ StoreInCache(r)
             \/ StopWatcher(r) \/ StopHeartbeat(r)
      PROVE  Attended'
  BY <1>7 DEF SetMetadata, SetMetadataFails, FlagPartial, CleanupIntermediate,
      PublishStatus, StoreInCache, StopWatcher, StopHeartbeat
<1>8. ASSUME NEW r \in Runs,
             \/ Succeed(r) \/ ExhaustRetries(r) \/ MoveToDLQ(r) \/ GiveUp(r)
             \/ Backoff(r) \/ Retry(r)
      PROVE  Attended'
  BY <1>8 DEF Succeed, ExhaustRetries, MoveToDLQ, GiveUp, Backoff, Retry
<1>9. ASSUME NEW r \in Runs,
             WatcherFires(r) \/ HeartbeatLoads(r) \/ HeartbeatSaves(r)
      PROVE  Attended'
  BY <1>9 DEF WatcherFires, HeartbeatLoads, HeartbeatSaves
<1>10. ASSUME Environment PROVE Attended'
  BY <1>10 DEF Environment, ResumeCheck, ResumeEnqueue, DeleteFiles,
      DeleteFromRepository, AutoCleanup, OtherJobStores
<1>11. CASE UNCHANGED vars
  BY <1>11 DEF vars
<1>. QED BY <1>1, <1>2, <1>3, <1>4, <1>5, <1>6, <1>7, <1>8, <1>9, <1>10, <1>11
    DEF Next, Step, Rest

\* Whatever the interleaving, a status that is not final is owed a final one.
THEOREM StatusOwedCorrect == Spec => [](TypeOK /\ StatusOwed /\ Attended)
<1>1. Init => StatusOwed /\ Attended
  BY DEF Init, StatusOwed, Attended
<1>2. TypeOK /\ StatusOwed /\ Attended /\ [Next]_vars => (StatusOwed /\ Attended)'
  BY StatusOwedStep, AttendedStep
<1>. QED BY <1>1, <1>2, TypeCorrect, PTL DEF Spec

-----------------------------------------------------------------------------
(* The refinement.                                                         *)

\* A step of a run, of whatever kind, is a step of the contract or invisible.
LEMMA KindImplements ==
    ASSUME TypeOK, StatusOwed', up, NEW r \in Runs, Alone(r), Kind(r)
    PROVE  [Contract!Next]_Contract!vars
<1>. USE DEF Contract!Next, Contract!vars
<1>1. \A p \in Runs \ {r} : /\ p \in Active' <=> p \in Active
                            /\ p \in Published' <=> p \in Published
  BY DEF Alone, Active, Published
<1>2. Published \subseteq Active /\ Active \subseteq Runs /\ Active' \subseteq Runs
      /\ Published' \subseteq Active'
  BY DEF Active, Published
<1>3. (queued + resuming)' = queued + resuming /\ job'.present = job.present
  BY DEF Alone
<1>4. CASE Labours(r)
  <2>1. Active' = Active /\ Published' = Published
    BY <1>1, <1>2, <1>4 DEF Labours, Owes
  <2>2. (UNCHANGED job.status) \/ Contract!Show(r)
    BY <1>3, <1>4, <2>1 DEF Labours, Owes, Contract!Show, Present
  <2>. QED BY <1>3, <1>4, <2>1, <2>2 DEF Labours
<1>5. CASE Buries(r)
  <2>1. Active' = Active /\ Published' = Published
    BY <1>1, <1>2, <1>5 DEF Buries, Owes, Active, Published
  <2>2. (UNCHANGED job.status) \/ Contract!Show(r)
    BY <1>3, <1>5, <2>1 DEF Buries, Owes, Contract!Show, Present, FailsIfThere
  <2>. QED BY <1>3, <1>5, <2>1, <2>2 DEF Buries, FailsIfThere
<1>6. CASE Publishes(r)
  <2>1. Active' = Active /\ Published' = Published \cup {r}
    BY <1>1, <1>2, <1>6 DEF Publishes, Owes
  <2>2. Contract!Publish(r)
    BY <1>3, <1>6, <2>1 DEF Publishes, Owes, Contract!Publish, Present
  <2>. QED BY <2>2
<1>7. CASE Tidies(r)
  <2>1. Active' = Active /\ Published' = Published
    BY <1>1, <1>2, <1>7 DEF Tidies
  <2>. QED BY <1>3, <1>7, <2>1 DEF Tidies, SameStatus
<1>8. CASE Returns(r)
  <2>1. r \in Active /\ Active' = Active \ {r} /\ Published' = Published \ {r}
    BY <1>1, <1>2, <1>8 DEF Returns, Owes, Active, Published
  <2>2. job'.present /\ Active' = {} /\ (queued + resuming)' = 0
          => job'.status \in Contract!Final
    BY DEF StatusOwed, Owes, Present
  <2>3. \/ UNCHANGED job.status
        \/ Present /\ r \notin Published /\ job'.status = "FAILED"
    BY <1>8 DEF Returns, Owes, SameStatus, FailsIfThere
  <2>4. Contract!End(r)
    BY <1>3, <1>8, <2>1, <2>2, <2>3 DEF Contract!End, Present, Returns,
        SameStatus, FailsIfThere
  <2>. QED BY <2>4
<1>9. CASE Dies(r)
  <2>1. Active' = Active /\ Published' = Published
    BY <1>9 DEF Dies, Active, Published
  <2>2. Contract!Die
    BY <1>3, <1>9, <2>1 DEF Dies, Contract!Die
  <2>. QED BY <2>2
<1>. QED BY <1>4, <1>5, <1>6, <1>7, <1>8, <1>9 DEF Kind

\* Every step of the program is a step of the contract or invisible in it.
LEMMA StepImplements ==
    ASSUME TypeOK, StatusOwed, Attended, StatusOwed', [Next]_vars
    PROVE  [Contract!Next]_Contract!vars
<1>. USE DEF TypeOK, handlers, Contract!Next, Contract!vars
<1>1. ASSUME up, NEW r \in Runs, Deliver(r) PROVE Contract!Begin(r)
  <2>1. r \notin Active /\ Active' = Active \cup {r} /\ Published' = Published
    BY <1>1 DEF Deliver, Finished, Active, Published
  <2>2. queued + resuming > 0 /\ (queued + resuming)' = queued + resuming - 1
    BY <1>1 DEF Deliver
  <2>. QED BY <1>1, <2>1, <2>2 DEF Deliver, Contract!Begin
<1>2. ASSUME up, NEW r \in Runs, Step(r) PROVE [Contract!Next]_Contract!vars
  BY <1>2, StepKinds, KindImplements
<1>3. ASSUME up, NEW r \in Runs, WatcherFires(r)
      PROVE  [Contract!Next]_Contract!vars
  <2>1. Active' = Active /\ Published' = Published /\ r \in Active
    BY <1>3 DEF WatcherFires, Attended, Active, Published
  <2>2. Contract!Withdraw(r) \/ UNCHANGED job
    BY <1>3, <2>1 DEF WatcherFires, SetError, Contract!Withdraw, Present, Job
  <2>. QED BY <1>3, <2>1, <2>2 DEF WatcherFires
<1>4. ASSUME NEW r \in Runs, HeartbeatLoads(r) \/ HeartbeatSaves(r)
      PROVE  UNCHANGED Contract!vars
  BY <1>4 DEF HeartbeatLoads, HeartbeatSaves, Active, Published
<1>5. ASSUME up, Environment PROVE [Contract!Next]_Contract!vars
  <2>1. UNCHANGED <<up, pc, failure>>
    BY <1>5 DEF Environment, ResumeCheck, ResumeEnqueue, DeleteFiles,
        DeleteFromRepository, AutoCleanup, OtherJobStores
  <2>2. Active' = Active /\ Published' = Published /\ up' = up
    BY <2>1 DEF Active, Published
  <2>3. ASSUME ResumeCheck PROVE Contract!Request
    <3>1. (queued + resuming)' = queued + resuming + 1
      BY <2>3 DEF ResumeCheck
    <3>. QED BY <2>2, <2>3, <3>1 DEF ResumeCheck, Contract!Request, Present
  <2>4. ResumeEnqueue => Contract!Requeue \/ UNCHANGED Contract!vars
    BY <2>2 DEF ResumeEnqueue, UpdateStatus, Contract!Requeue, Present, Job
  <2>5. DeleteFromRepository => Contract!Remove
    BY <2>2 DEF DeleteFromRepository, Contract!Remove, Job
  <2>6. DeleteFiles \/ AutoCleanup \/ OtherJobStores => UNCHANGED Contract!vars
    BY <2>2 DEF DeleteFiles, AutoCleanup, OtherJobStores
  <2>. QED BY <1>5, <2>3, <2>4, <2>5, <2>6 DEF Environment
<1>6. CASE UNCHANGED vars
  BY <1>6 DEF vars, Active, Published
<1>. QED BY <1>1, <1>2, <1>3, <1>4, <1>5, <1>6 DEF Next, Rest

\* JobExecution implements JobContract: executions are only those asked for, a
\* published result is withdrawn by nothing but the disk check, and the last
\* execution to end leaves a final status (Execute, process, ResumeJob).
THEOREM ContractKept == Spec => ImplementsContract
<1>1. Init => Contract!Init
  BY DEF Init, Contract!Init, Active, Published
<1>2. TypeOK /\ StatusOwed /\ Attended /\ StatusOwed' /\ [Next]_vars
        => [Contract!Next]_Contract!vars
  BY StepImplements
<1>. QED BY <1>1, <1>2, StatusOwedCorrect, PTL DEF Spec, ImplementsContract, Contract!Spec

=============================================================================
