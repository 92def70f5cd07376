------------------------- MODULE JobExecutionProofs -------------------------
(***************************************************************************)
(* Theorems about JobExecution, for every number of runs, every ladder and *)
(* every value of the limits.                                              *)
(*                                                                         *)
(* None of the invariants is inductive alone.  Typing needs InLadder: the  *)
(* variant being encoded is an element of the ladder.  What the copies of  *)
(* the state say needs StepsBehind, which ties the steps a run has marked  *)
(* to where the run is.  The cache needs OutputKnown and the dead letter   *)
(* queue needs Counted, each again a relation between a run's location and *)
(* the shared job.  That COMPLETED and PARTIAL_SUCCESS mean every quality  *)
(* needs AllKept, and holds only under the conditions Undisturbed names.   *)
(***************************************************************************)
EXTENDS JobExecution, FunctionTheorems, FiniteSetTheorems, TLAPS

-----------------------------------------------------------------------------
(* The strengthened invariants.                                            *)

\* A run that is encoding a variant points into the ladder.
InLadder ==
    \A r \in Runs : pc[r] \in {"encoding", "track"} => next[r] \in DOMAIN Ladder

\* The steps a run at location l has marked or found marked, S being the steps
\* of its state: executeSteps reaches a step only past the ones before it.
Behind(l, S) ==
    /\ l = "dedup"    => "hash_computation" \in S
    /\ l = "analysis" => "deduplication" \in S
    /\ l \in {"limit", "encode", "encoding", "audio", "sound", "tracks", "track"}
          => "analysis" \in S
    /\ l \in {"metadata", "flag", "cleanup"} => "master_playlist" \in S
    /\ l \in {"publish", "store"} => "cleanup" \in S

StepsBehind == \A r \in Runs : Behind(pc[r], state[r].steps)

\* What one copy of the state may say, and the same for every copy.
Sound(s) == InOrder(s.steps) /\ ("hash_computation" \in s.steps => job.hashed)

CopiesSound ==
    Sound(file) /\ \A r \in Runs : Sound(state[r]) /\ Sound(beat[r])

\* A run past SetMetadata has published the output.
OutputKnown ==
    \A r \in Runs : pc[r] \in {"flag", "cleanup", "publish", "store"} => job.output.known

\* A partial success was published after its output.
PartialKnown == job.status = "PARTIAL_SUCCESS" => job.output.known

\* The job's retry counter keeps up with every run's loop, but for the retry
\* whose backoff is being slept; a run buries the job only after its last one.
Counted ==
    /\ Present => \A r \in Runs :
           attempt[r] <= job.retries + (IF pc[r] = "sleep" THEN 1 ELSE 0)
    /\ \A r \in Runs : pc[r] = "bury" => attempt[r] >= MaxRetries

-----------------------------------------------------------------------------
(* What the operators of the model return.                                 *)

\* A new state is a state (CreateState).
LEMMA NewStateType == NewState \in State
  BY DEF NewState, State, JobState, StateStatus

\* Marking a step keeps the type of the state (MarkStepCompleted).
LEMMA MarkStepType ==
    ASSUME NEW s \in State, NEW step \in EncodingStep
    PROVE  MarkStepCompleted(s, step) \in State
  BY DEF State, JobState, MarkStepCompleted

\* So does marking a quality (MarkQualityCompleted, MarkQualityFailed).
LEMMA MarkQualityType ==
    ASSUME NEW s \in State, NEW q \in Qualities
    PROVE  MarkQualityCompleted(s, q) \in State /\ MarkQualityFailed(s, q) \in State
  BY DEF State, JobState, MarkQualityCompleted, MarkQualityFailed

\* So do the assignments to single fields in stepFinalization and the encoders.
LEMMA StateUpdateType ==
    ASSUME NEW s \in State
    PROVE  /\ \A x \in StateStatus : [s EXCEPT !.status = x] \in State
           /\ \A Q \in SUBSET Qualities : /\ [s EXCEPT !.failed = @ \cup Q] \in State
                                          /\ [s EXCEPT !.complete = @ \cup Q] \in State
  BY DEF State, JobState

\* UpdateStatus keeps the type of the job.
LEMMA UpdateStatusType ==
    ASSUME job \in Job, NEW s \in JobStatus, UpdateStatus(s)
    PROVE  job' \in Job
  BY DEF Job, UpdateStatus

\* SetError keeps the type of the job.
LEMMA SetErrorType ==
    ASSUME job \in Job, NEW e \in JobError, SetError(e)
    PROVE  job' \in Job
  BY DEF Job, SetError, JobStatus

\* SaveState, its error ignored, keeps the types of what it writes.
LEMMA SaveType ==
    ASSUME TypeOK, NEW r \in Runs, NEW s \in State, Save(r, s)
    PROVE  state' \in [Runs -> State] /\ file' \in State \cup {NoState}
  BY DEF TypeOK, Save

\* Going on keeps the types of the control state.
LEMMA GotoType ==
    ASSUME TypeOK, NEW r \in Runs, NEW l \in Location, Goto(r, l)
    PROVE  pc' \in [Runs -> Location] /\ failure' \in [Runs -> Result]
  BY DEF TypeOK, Goto

\* So does returning from process().
LEMMA LeaveType ==
    ASSUME TypeOK, NEW r \in Runs, NEW f \in Result, Leave(r, f)
    PROVE  pc' \in [Runs -> Location] /\ failure' \in [Runs -> Result]
  BY DEF TypeOK, Leave, Location

\* SaveState, its error returned, keeps the types of both.
LEMMA SaveOrFailType ==
    ASSUME TypeOK, NEW r \in Runs, NEW s \in State, NEW l \in Location,
           SaveOrFail(r, s, l)
    PROVE  /\ state' \in [Runs -> State] /\ file' \in State \cup {NoState}
           /\ pc' \in [Runs -> Location] /\ failure' \in [Runs -> Result]
  BY DEF TypeOK, SaveOrFail, Goto, Leave, Location, Result, Failure

\* The variant at an index of the ladder is a quality (SelectVariants).
LEMMA CurrentType ==
    ASSUME NEW r \in Runs, next[r] \in DOMAIN Ladder
    PROVE  Current(r) \in Qualities
  BY QualitiesAssumption DEF Current

-----------------------------------------------------------------------------
(* Type correctness.                                                       *)

\* A run enters a variant only from the guard of the ladder loop, and leaves
\* it before it advances (encodeWithResume, EncodeSeparateAV).
LEMMA InLadderStep ==
    ASSUME TypeOK, InLadder, [Next]_vars
    PROVE  InLadder'
<1>. USE DEF handlers, stored, loop, attendant, TypeOK, InLadder
<1>1. ASSUME NEW r \in Runs, Deliver(r) PROVE InLadder'
  BY <1>1 DEF Deliver
<1>2. ASSUME NEW r \in Runs,
           GetOrCreateState(r) \/ CreateStateFails(r) \/ MarkRunning(r) \/
           StepHashComputation(r) \/ StepHashFails(r) \/ StepDeduplication(r)
           \/ StepDuplicateFound(r) \/ StepAnalysis(r) \/ StepAnalysisFails(r)
           \/ SkipStep(r) \/ Panic(r)
     PROVE  InLadder'
  BY <1>2 DEF GetOrCreateState, CreateStateFails, MarkRunning,
      StepHashComputation, StepHashFails, StepDeduplication, StepDuplicateFound,
      StepAnalysis, StepAnalysisFails, SkipStep, Panic, Goto, Leave, SaveOrFail
<1>3. ASSUME NEW r \in Runs,
           CheckJobDiskLimit(r) \/ DiskLimitExceeded(r) \/ SkipVariant(r) \/
           EncodeSucceeds(r) \/ EncodeExceedsLimit(r) \/ EncodeUnmeasured(r) \/
           EncodeFails(r) \/ EncodingComplete(r) \/ EncodingPartial(r) \/
           EncodingFails(r)
     PROVE  InLadder'
  BY <1>3 DEF CheckJobDiskLimit, DiskLimitExceeded, SkipVariant,
      EncodeSucceeds, EncodeExceedsLimit, EncodeUnmeasured, EncodeFails,
      EncodingComplete, EncodingPartial, EncodingFails, Goto, Leave, Advance
<1>4. ASSUME NEW r \in Runs, StartVariant(r) \/ StartTrack(r) PROVE InLadder'
  <2>1. next[r] \in DOMAIN Ladder
    BY <1>4, QualitiesAssumption DEF StartVariant, StartTrack
  <2>. QED BY <1>4, <2>1 DEF StartVariant, StartTrack, Goto
<1>5. ASSUME NEW r \in Runs,
           StartAudio(r) \/ AudioSucceeds(r) \/ AudioFails(r) \/
           TrackSucceeds(r) \/ TrackFails(r) \/ TracksComplete(r) \/
           TracksFail(r)
     PROVE  InLadder'
  BY <1>5 DEF StartAudio, AudioSucceeds, AudioFails, TrackSucceeds,
      TrackFails, TracksComplete, TracksFail, Goto, Leave, Advance
<1>6. ASSUME NEW r \in Runs,
           SetMetadata(r) \/ SetMetadataFails(r) \/ FlagPartial(r) \/
           CleanupIntermediate(r) \/ PublishStatus(r) \/ StoreInCache(r) \/
           StopWatcher(r) \/ StopHeartbeat(r)
     PROVE  InLadder'
  BY <1>6 DEF SetMetadata, SetMetadataFails, FlagPartial,
      CleanupIntermediate, PublishStatus, StoreInCache, StopWatcher,
      StopHeartbeat, Goto, Leave
<1>7. ASSUME NEW r \in Runs,
           Succeed(r) \/ ExhaustRetries(r) \/ MoveToDLQ(r) \/ GiveUp(r) \/
           Backoff(r) \/ Retry(r)
     PROVE  InLadder'
  BY <1>7 DEF Succeed, ExhaustRetries, MoveToDLQ, GiveUp, Backoff, Retry, Goto
<1>8. ASSUME NEW r \in Runs,
           WatcherFires(r) \/ HeartbeatLoads(r) \/ HeartbeatSaves(r)
     PROVE  InLadder'
  BY <1>8 DEF WatcherFires, HeartbeatLoads, HeartbeatSaves
<1>9. ASSUME Environment PROVE InLadder'
  BY <1>9 DEF Environment, ResumeCheck, ResumeEnqueue, DeleteFiles,
      DeleteFromRepository, AutoCleanup, OtherJobStores
<1>10. CASE UNCHANGED vars
  BY <1>10 DEF vars
<1>. QED BY <1>1, <1>2, <1>3, <1>4, <1>5, <1>6, <1>7, <1>8, <1>9, <1>10 DEF
    Next, Step, Rest

\* Every step of the program keeps every variable in its type.
LEMMA TypeStep ==
    ASSUME TypeOK, InLadder, [Next]_vars
    PROVE  TypeOK'
<1>. USE DEF handlers, stored, loop, attendant
<1>1. ASSUME NEW r \in Runs, Deliver(r) PROVE TypeOK'
  BY <1>1 DEF Deliver, TypeOK, Location
<1>2. ASSUME NEW r \in Runs, GetOrCreateState(r) PROVE TypeOK'
  BY <1>2, NewStateType, GotoType DEF GetOrCreateState, TypeOK, Location
<1>3. ASSUME NEW r \in Runs, CreateStateFails(r) PROVE TypeOK'
  BY <1>3 DEF CreateStateFails, TypeOK, Location, Result, Failure
<1>4. ASSUME NEW r \in Runs, MarkRunning(r) PROVE TypeOK'
  BY <1>4, GotoType, LeaveType, UpdateStatusType DEF MarkRunning, TypeOK,
      Location, Result, Failure, JobStatus
<1>5. ASSUME NEW r \in Runs, StepHashComputation(r) PROVE TypeOK'
  <2>1. MarkStepCompleted(state[r], "hash_computation") \in State
    BY MarkStepType DEF TypeOK, EncodingStep
  <2>. QED BY <1>5, <2>1, SaveOrFailType DEF StepHashComputation, TypeOK,
      Location, Job
<1>6. ASSUME NEW r \in Runs, StepHashFails(r) PROVE TypeOK'
  BY <1>6, LeaveType DEF StepHashFails, TypeOK, Result, Failure
<1>7. ASSUME NEW r \in Runs, StepDeduplication(r) PROVE TypeOK'
  <2>1. MarkStepCompleted(state[r], "deduplication") \in State
    BY MarkStepType DEF TypeOK, EncodingStep
  <2>. QED BY <1>7, <2>1, SaveOrFailType, LeaveType DEF StepDeduplication,
      TypeOK, Location, Result, Failure
<1>8. ASSUME NEW r \in Runs, StepDuplicateFound(r) PROVE TypeOK'
  <2>1. MarkStepCompleted([state[r] EXCEPT !.status = "completed"], "deduplication") \in State
    BY MarkStepType, StateUpdateType DEF TypeOK, EncodingStep, StateStatus
  <2>. QED BY <1>8, <2>1, SaveType, LeaveType, UpdateStatusType DEF
      StepDuplicateFound, TypeOK, Result, JobStatus
<1>9. ASSUME NEW r \in Runs, StepAnalysis(r) PROVE TypeOK'
  <2>1. MarkStepCompleted(state[r], "analysis") \in State
    BY MarkStepType DEF TypeOK, EncodingStep
  <2>. QED BY <1>9, <2>1, SaveType, GotoType DEF StepAnalysis, TypeOK, Location
<1>10. ASSUME NEW r \in Runs, StepAnalysisFails(r) PROVE TypeOK'
  BY <1>10, LeaveType DEF StepAnalysisFails, TypeOK, Result, Failure
<1>11. ASSUME NEW r \in Runs, SkipStep(r) PROVE TypeOK'
  BY <1>11, GotoType DEF SkipStep, TypeOK, Location
<1>12. ASSUME NEW r \in Runs, Panic(r) PROVE TypeOK'
  BY <1>12 DEF Panic, TypeOK
<1>13. ASSUME NEW r \in Runs, CheckJobDiskLimit(r) PROVE TypeOK'
  BY <1>13, GotoType DEF CheckJobDiskLimit, TypeOK, Location
<1>14. ASSUME NEW r \in Runs, DiskLimitExceeded(r) PROVE TypeOK'
  BY <1>14, LeaveType, SetErrorType DEF DiskLimitExceeded, TypeOK, Result,
      Failure, JobError, DeleteJobFiles
<1>15. ASSUME NEW r \in Runs, SkipVariant(r) PROVE TypeOK'
  BY <1>15, QualitiesAssumption DEF SkipVariant, TypeOK, Advance, Current
<1>16. ASSUME NEW r \in Runs, StartVariant(r) PROVE TypeOK'
  <2>1. Current(r) \in Qualities
    BY <1>16, QualitiesAssumption DEF StartVariant, TypeOK, Current
  <2>2. state[r] \in State
    BY DEF TypeOK
  <2>. QED BY <1>16, <2>1, <2>2, SaveType, GotoType DEF StartVariant,
      TypeOK, Location
<1>17. ASSUME NEW r \in Runs, EncodeSucceeds(r) PROVE TypeOK'
  <2>1. Current(r) \in Qualities
    BY <1>17, CurrentType DEF EncodeSucceeds, InLadder
  <2>2. MarkQualityCompleted(state[r], Current(r)) \in State
    BY <2>1, MarkQualityType DEF TypeOK
  <2>3. /\ good' \in [Runs -> SUBSET Qualities]
        /\ bad' \in [Runs -> SUBSET Qualities]
        /\ next' \in [Runs -> Nat \ {0}]
    BY <1>17, <2>1 DEF EncodeSucceeds, TypeOK, Advance
  <2>. QED BY <1>17, <2>2, <2>3, SaveType, GotoType DEF EncodeSucceeds,
      TypeOK, Location
<1>18. ASSUME NEW r \in Runs, EncodeExceedsLimit(r) PROVE TypeOK'
  <2>1. Current(r) \in Qualities
    BY <1>18, CurrentType DEF EncodeExceedsLimit, InLadder
  <2>2. MarkQualityCompleted([state[r] EXCEPT !.status = "failed"], Current(r)) \in State
    BY <2>1, MarkQualityType, StateUpdateType DEF TypeOK, StateStatus
  <2>3. /\ good' \in [Runs -> SUBSET Qualities]
        /\ bad' \in [Runs -> SUBSET Qualities]
        /\ next' \in [Runs -> Nat \ {0}]
    BY <1>18, <2>1 DEF EncodeExceedsLimit, TypeOK, Advance
  <2>. QED BY <1>18, <2>2, <2>3, LeaveType, UpdateStatusType DEF
      EncodeExceedsLimit, TypeOK, Result, Failure, JobStatus
<1>unmeasured. ASSUME NEW r \in Runs, EncodeUnmeasured(r) PROVE TypeOK'
  <2>1. Current(r) \in Qualities
    BY <1>unmeasured, CurrentType DEF EncodeUnmeasured, InLadder
  <2>2. MarkQualityCompleted([state[r] EXCEPT !.status = "failed"], Current(r)) \in State
    BY <2>1, MarkQualityType, StateUpdateType DEF TypeOK, StateStatus
  <2>. QED BY <1>unmeasured, <2>2, SaveType, LeaveType, UpdateStatusType DEF
      EncodeUnmeasured, TypeOK, Result, Failure, JobStatus
<1>19. ASSUME NEW r \in Runs, EncodeFails(r) PROVE TypeOK'
  <2>1. Current(r) \in Qualities
    BY <1>19, CurrentType DEF EncodeFails, InLadder
  <2>2. MarkQualityFailed(state[r], Current(r)) \in State
    BY <2>1, MarkQualityType DEF TypeOK
  <2>3. /\ good' \in [Runs -> SUBSET Qualities]
        /\ bad' \in [Runs -> SUBSET Qualities]
        /\ next' \in [Runs -> Nat \ {0}]
    BY <1>19, <2>1 DEF EncodeFails, TypeOK, Advance
  <2>. QED BY <1>19, <2>2, <2>3, SaveType, GotoType DEF EncodeFails, TypeOK,
      Location
<1>20. ASSUME NEW r \in Runs, EncodingComplete(r) PROVE TypeOK'
  <2>1. MarkStepCompleted(state[r], "master_playlist") \in State
    BY MarkStepType DEF TypeOK, EncodingStep
  <2>. QED BY <1>20, <2>1, SaveType, GotoType DEF EncodingComplete, TypeOK,
      Location
<1>21. ASSUME NEW r \in Runs, EncodingPartial(r) PROVE TypeOK'
  <2>1. MarkStepCompleted([state[r] EXCEPT !.failed = @ \cup bad[r]], "master_playlist") \in State
    BY MarkStepType, StateUpdateType DEF TypeOK, EncodingStep
  <2>. QED BY <1>21, <2>1, SaveType, LeaveType DEF EncodingPartial, TypeOK,
      Result, Failure
<1>22. ASSUME NEW r \in Runs, EncodingFails(r) PROVE TypeOK'
  BY <1>22, LeaveType DEF EncodingFails, TypeOK, Result, Failure
<1>23. ASSUME NEW r \in Runs, StartAudio(r) PROVE TypeOK'
  BY <1>23, GotoType DEF StartAudio, TypeOK, Location
<1>24. ASSUME NEW r \in Runs, AudioSucceeds(r) PROVE TypeOK'
  BY <1>24, GotoType DEF AudioSucceeds, TypeOK, Location
<1>25. ASSUME NEW r \in Runs, AudioFails(r) PROVE TypeOK'
  BY <1>25, LeaveType DEF AudioFails, TypeOK, Result, Failure
<1>26. ASSUME NEW r \in Runs, StartTrack(r) PROVE TypeOK'
  BY <1>26, GotoType, QualitiesAssumption DEF StartTrack, TypeOK, Location,
      Current
<1>27. ASSUME NEW r \in Runs, TrackSucceeds(r) PROVE TypeOK'
  BY <1>27, GotoType, QualitiesAssumption DEF TrackSucceeds, TypeOK,
      Location, Advance, Current, InLadder
<1>28. ASSUME NEW r \in Runs, TrackFails(r) PROVE TypeOK'
  BY <1>28, GotoType DEF TrackFails, TypeOK, Location, Advance
<1>29. ASSUME NEW r \in Runs, TracksComplete(r) PROVE TypeOK'
  <2>1. MarkStepCompleted([state[r] EXCEPT !.complete = @ \cup good[r]],
                          "master_playlist") \in State
    BY MarkStepType, StateUpdateType DEF TypeOK, EncodingStep
  <2>. QED BY <1>29, <2>1, SaveType, GotoType DEF TracksComplete, TypeOK,
      Location
<1>30. ASSUME NEW r \in Runs, TracksFail(r) PROVE TypeOK'
  BY <1>30, LeaveType DEF TracksFail, TypeOK, Result, Failure
<1>31. ASSUME NEW r \in Runs, SetMetadata(r) PROVE TypeOK'
  BY <1>31, GotoType DEF SetMetadata, TypeOK, Location, Job
<1>32. ASSUME NEW r \in Runs, SetMetadataFails(r) PROVE TypeOK'
  BY <1>32, LeaveType DEF SetMetadataFails, TypeOK, Result, Failure
<1>33. ASSUME NEW r \in Runs, FlagPartial(r) PROVE TypeOK'
  BY <1>33, GotoType, SetErrorType DEF FlagPartial, TypeOK, Location, JobError
<1>34. ASSUME NEW r \in Runs, CleanupIntermediate(r) PROVE TypeOK'
  <2>1. MarkStepCompleted(state[r], "cleanup") \in State
    BY MarkStepType DEF TypeOK, EncodingStep
  <2>. QED BY <1>34, <2>1, SaveType, GotoType DEF CleanupIntermediate,
      TypeOK, Location
<1>35. ASSUME NEW r \in Runs, PublishStatus(r) PROVE TypeOK'
  <2>1. state' \in [Runs -> State]
    BY <1>35, StateUpdateType DEF PublishStatus, TypeOK, StateStatus
  <2>2. job' \in Job
    BY <1>35, UpdateStatusType DEF PublishStatus, TypeOK, JobStatus
  <2>. QED BY <1>35, <2>1, <2>2, GotoType DEF PublishStatus, TypeOK, Location
<1>36. ASSUME NEW r \in Runs, StoreInCache(r) PROVE TypeOK'
  <2>1. MarkStepCompleted(state[r], "finalization") \in State
    BY MarkStepType DEF TypeOK, EncodingStep
  <2>. QED BY <1>36, <2>1, SaveType, LeaveType DEF StoreInCache, TypeOK, Result
<1>37. ASSUME NEW r \in Runs, StopWatcher(r) PROVE TypeOK'
  BY <1>37, GotoType DEF StopWatcher, TypeOK, Location
<1>38. ASSUME NEW r \in Runs, StopHeartbeat(r) PROVE TypeOK'
  BY <1>38, GotoType, NewStateType DEF StopHeartbeat, TypeOK, Location
<1>39. ASSUME NEW r \in Runs, Succeed(r) PROVE TypeOK'
  BY <1>39, GotoType DEF Succeed, TypeOK, Location
<1>40. ASSUME NEW r \in Runs, ExhaustRetries(r) PROVE TypeOK'
  BY <1>40, GotoType, SetErrorType DEF ExhaustRetries, TypeOK, Location,
      JobError
<1>41. ASSUME NEW r \in Runs, MoveToDLQ(r) PROVE TypeOK'
  BY <1>41, GotoType DEF MoveToDLQ, TypeOK, Location, Job
<1>42. ASSUME NEW r \in Runs, GiveUp(r) PROVE TypeOK'
  BY <1>42, GotoType, SetErrorType DEF GiveUp, TypeOK, Location, JobError
<1>43. ASSUME NEW r \in Runs, Backoff(r) PROVE TypeOK'
  BY <1>43, GotoType DEF Backoff, TypeOK, Location
<1>44. ASSUME NEW r \in Runs, Retry(r) PROVE TypeOK'
  BY <1>44, GotoType DEF Retry, TypeOK, Location, Job
<1>45. ASSUME NEW r \in Runs, WatcherFires(r) PROVE TypeOK'
  BY <1>45, SetErrorType DEF WatcherFires, TypeOK, JobError, DeleteJobFiles
<1>46. ASSUME NEW r \in Runs, HeartbeatLoads(r) PROVE TypeOK'
  BY <1>46 DEF HeartbeatLoads, TypeOK
<1>47. ASSUME NEW r \in Runs, HeartbeatSaves(r) PROVE TypeOK'
  BY <1>47, NewStateType DEF HeartbeatSaves, TypeOK
<1>48. ASSUME ResumeCheck PROVE TypeOK'
  BY <1>48 DEF ResumeCheck, TypeOK
<1>49. ASSUME ResumeEnqueue PROVE TypeOK'
  BY <1>49, UpdateStatusType DEF ResumeEnqueue, TypeOK, JobStatus
<1>50. ASSUME DeleteFiles PROVE TypeOK'
  BY <1>50 DEF DeleteFiles, TypeOK, DeleteJobFiles
<1>51. ASSUME DeleteFromRepository PROVE TypeOK'
  BY <1>51 DEF DeleteFromRepository, TypeOK, Job
<1>52. ASSUME AutoCleanup PROVE TypeOK'
  BY <1>52 DEF AutoCleanup, TypeOK, DeleteJobFiles
<1>53. ASSUME OtherJobStores PROVE TypeOK'
  BY <1>53 DEF OtherJobStores, TypeOK
<1>54. CASE UNCHANGED vars
  BY <1>54 DEF vars, TypeOK
<1>. QED BY <1>1, <1>2, <1>3, <1>4, <1>5, <1>6, <1>7, <1>8, <1>9, <1>10,
    <1>11, <1>12, <1>13, <1>14, <1>15, <1>16, <1>17, <1>18, <1>unmeasured, <1>19,
    <1>20, <1>21, <1>22, <1>23, <1>24, <1>25, <1>26, <1>27, <1>28, <1>29, <1>30, <1>31, <1>32,
    <1>33, <1>34, <1>35, <1>36, <1>37, <1>38, <1>39, <1>40, <1>41, <1>42, <1>43,
    <1>44, <1>45, <1>46, <1>47, <1>48, <1>49, <1>50, <1>51, <1>52, <1>53, <1>54
  DEF Next, Step, Environment, Rest, vars

\* The initial state is typed, and no run is at a variant.
LEMMA TypeInit ==
    ASSUME Init
    PROVE  TypeOK /\ InLadder
<1>1. TypeOK
  <2>1. job \in Job
    BY DEF Init, Job, JobStatus, JobError, NoOutput
  <2>2. hasAudio \in BOOLEAN
    BY InputsAssumption DEF Init
  <2>3. /\ state \in [Runs -> State] /\ beat \in [Runs -> State]
        /\ pc \in [Runs -> Location] /\ failure \in [Runs -> Result]
    BY NewStateType DEF Init, Location, Result
  <2>4. /\ attempt \in [Runs -> Nat] /\ next \in [Runs -> Nat \ {0}]
        /\ good \in [Runs -> SUBSET Qualities] /\ bad \in [Runs -> SUBSET Qualities]
        /\ heartbeat \in [Runs -> {"off", "idle", "loaded"}]
        /\ watcher \in [Runs -> {"off", "ticking", "gone"}]
    BY DEF Init
  <2>5. /\ up \in BOOLEAN /\ deleting \in BOOLEAN
        /\ queued \in Nat /\ resuming \in Nat /\ resumes \in Nat
        /\ file \in State \cup {NoState} /\ dirs \subseteq Qualities \cup {"audio"}
        /\ cache \in {"none", "self", "other"}
        /\ dlq \in [retries : Nat, status : JobStatus] \cup {NoEntry}
    BY DEF Init
  <2>. QED BY <2>1, <2>2, <2>3, <2>4, <2>5 DEF TypeOK
<1>2. InLadder
  BY DEF Init, InLadder
<1>. QED BY <1>1, <1>2

\* Type correctness: no run of the program puts a value of the wrong kind in
\* the job, its state file, the dead letter entry or a run's own variables; in
\* particular the hand-overs of a job never go below zero (StartWorker).
THEOREM TypeCorrect == Spec => [](TypeOK /\ InLadder)
<1>1. Init => TypeOK /\ InLadder
  BY TypeInit
<1>2. TypeOK /\ InLadder /\ [Next]_vars => (TypeOK /\ InLadder)'
  BY TypeStep, InLadderStep
<1>. QED BY <1>1, <1>2, PTL DEF Spec

-----------------------------------------------------------------------------
(* The copies of the state: on disk, in a run, in a heartbeat.             *)

\* What each update of a state does to its list of steps.
LEMMA MarkedSteps ==
    ASSUME NEW s \in State
    PROVE  /\ \A step \in EncodingStep :
                MarkStepCompleted(s, step).steps = s.steps \cup {step}
           /\ \A q \in Qualities : /\ MarkQualityCompleted(s, q).steps = s.steps
                                   /\ MarkQualityFailed(s, q).steps = s.steps
           /\ \A x \in StateStatus : [s EXCEPT !.status = x].steps = s.steps
           /\ \A Q \in SUBSET Qualities :
                /\ [s EXCEPT !.failed = @ \cup Q].steps = s.steps
                /\ [s EXCEPT !.complete = @ \cup Q].steps = s.steps
  BY DEF State, JobState, MarkStepCompleted, MarkQualityCompleted,
      MarkQualityFailed

\* A run that writes a sound state with the steps behind its next location
\* keeps both invariants, whether or not the write reaches the disk.
LEMMA WriteState ==
    ASSUME TypeOK, CopiesSound, StepsBehind, NEW r \in Runs, NEW s, NEW l,
           InOrder(s.steps), "hash_computation" \in s.steps => job'.hashed,
           Behind(l, s.steps), job.hashed => job'.hashed,
           state' = [state EXCEPT ![r] = s], file' \in {s, file, NoState},
           pc' = [pc EXCEPT ![r] = l], beat' = beat
    PROVE  (CopiesSound /\ StepsBehind)'
<1>1. InOrder(NoState.steps) /\ "hash_computation" \notin NoState.steps
  BY DEF NoState, InOrder
<1>2. CopiesSound'
  BY <1>1 DEF CopiesSound, Sound, TypeOK
<1>3. StepsBehind'
  BY DEF StepsBehind, TypeOK
<1>. QED BY <1>2, <1>3

\* A run that leaves its state alone and moves where its steps let it keeps
\* both; so does the deletion of the file.
LEMMA KeepState ==
    ASSUME TypeOK, CopiesSound, StepsBehind, NEW r \in Runs, NEW l,
           Behind(l, state[r].steps), job.hashed => job'.hashed,
           state' = state, file' \in {file, NoState},
           pc' = [pc EXCEPT ![r] = l], beat' = beat
    PROVE  (CopiesSound /\ StepsBehind)'
<1>1. InOrder(NoState.steps) /\ "hash_computation" \notin NoState.steps
  BY DEF NoState, InOrder
<1>2. CopiesSound'
  BY <1>1 DEF CopiesSound, Sound, TypeOK
<1>3. StepsBehind'
  BY DEF StepsBehind, TypeOK
<1>. QED BY <1>2, <1>3

\* Nothing removes a job's hash (SetHash is its only writer).
LEMMA HashedStays ==
    ASSUME TypeOK, [Next]_vars
    PROVE  job.hashed => job'.hashed
<1>. USE DEF handlers, stored, loop, attendant, TypeOK, Job
<1>1. ASSUME NEW r \in Runs,
           Deliver(r) \/ GetOrCreateState(r) \/ CreateStateFails(r) \/
           MarkRunning(r)
     PROVE  (job.hashed => job'.hashed)
  BY <1>1 DEF Deliver, GetOrCreateState, CreateStateFails, MarkRunning, Goto,
      Leave, UpdateStatus
<1>2. ASSUME NEW r \in Runs,
           StepHashComputation(r) \/ StepHashFails(r) \/ StepDeduplication(r)
           \/ StepDuplicateFound(r) \/ StepAnalysis(r) \/ StepAnalysisFails(r)
           \/ SkipStep(r) \/ Panic(r)
     PROVE  (job.hashed => job'.hashed)
  BY <1>2 DEF StepHashComputation, StepHashFails, StepDeduplication,
      StepDuplicateFound, StepAnalysis, StepAnalysisFails, SkipStep, Panic, Goto,
      Leave, Save, SaveOrFail, UpdateStatus
<1>3. ASSUME NEW r \in Runs,
           CheckJobDiskLimit(r) \/ DiskLimitExceeded(r) \/ SkipVariant(r) \/
           StartVariant(r)
     PROVE  (job.hashed => job'.hashed)
  <2>1. CASE CheckJobDiskLimit(r)
    BY <2>1 DEF CheckJobDiskLimit, Goto
  <2>2. CASE DiskLimitExceeded(r)
    BY <2>2 DEF DiskLimitExceeded, DeleteJobFiles, Leave, SetError
  <2>3. CASE SkipVariant(r)
    BY <2>3 DEF SkipVariant, Advance
  <2>4. CASE StartVariant(r)
    BY <2>4 DEF StartVariant, Goto, Save
  <2>. QED BY <1>3, <2>1, <2>2, <2>3, <2>4
<1>4. ASSUME NEW r \in Runs,
           EncodeSucceeds(r) \/ EncodeExceedsLimit(r) \/ EncodeUnmeasured(r)
           \/ EncodeFails(r)
     PROVE  (job.hashed => job'.hashed)
  BY <1>4 DEF EncodeSucceeds, EncodeExceedsLimit, EncodeUnmeasured, EncodeFails,
      Advance, Goto, Leave, Save, UpdateStatus
<1>5. ASSUME NEW r \in Runs,
           EncodingComplete(r) \/ EncodingPartial(r) \/ EncodingFails(r)
     PROVE  (job.hashed => job'.hashed)
  BY <1>5 DEF EncodingComplete, EncodingPartial, EncodingFails, Goto, Leave,
      Save
<1>6. ASSUME NEW r \in Runs,
           StartAudio(r) \/ AudioSucceeds(r) \/ AudioFails(r) \/ StartTrack(r)
           \/ TrackSucceeds(r) \/ TrackFails(r) \/ TracksComplete(r) \/
           TracksFail(r)
     PROVE  (job.hashed => job'.hashed)
  BY <1>6 DEF StartAudio, AudioSucceeds, AudioFails, StartTrack,
      TrackSucceeds, TrackFails, TracksComplete, TracksFail, Advance, Goto, Leave,
      Save
<1>7. ASSUME NEW r \in Runs,
           SetMetadata(r) \/ SetMetadataFails(r) \/ FlagPartial(r)
     PROVE  (job.hashed => job'.hashed)
  <2>1. CASE SetMetadata(r)
    BY <2>1 DEF SetMetadata, Goto
  <2>2. CASE SetMetadataFails(r)
    BY <2>2 DEF SetMetadataFails, Leave
  <2>3. CASE FlagPartial(r)
    BY <2>3 DEF FlagPartial, Goto, SetError
  <2>. QED BY <1>7, <2>1, <2>2, <2>3
<1>8. ASSUME NEW r \in Runs,
           CleanupIntermediate(r) \/ PublishStatus(r) \/ StoreInCache(r)
     PROVE  (job.hashed => job'.hashed)
  BY <1>8 DEF CleanupIntermediate, PublishStatus, StoreInCache, Goto, Leave,
      Save, UpdateStatus
<1>9. ASSUME NEW r \in Runs,
           StopWatcher(r) \/ StopHeartbeat(r)
     PROVE  (job.hashed => job'.hashed)
  BY <1>9 DEF StopWatcher, StopHeartbeat, Goto
<1>10. ASSUME NEW r \in Runs,
           Succeed(r) \/ ExhaustRetries(r) \/ MoveToDLQ(r)
     PROVE  (job.hashed => job'.hashed)
  <2>1. CASE Succeed(r)
    BY <2>1 DEF Succeed, Goto
  <2>2. CASE ExhaustRetries(r)
    BY <2>2 DEF ExhaustRetries, Goto, SetError
  <2>3. CASE MoveToDLQ(r)
    BY <2>3 DEF MoveToDLQ, Goto
  <2>. QED BY <1>10, <2>1, <2>2, <2>3
<1>11. ASSUME NEW r \in Runs,
           GiveUp(r) \/ Backoff(r) \/ Retry(r)
     PROVE  (job.hashed => job'.hashed)
  <2>1. CASE GiveUp(r)
    BY <2>1 DEF GiveUp, Goto, SetError
  <2>2. CASE Backoff(r)
    BY <2>2 DEF Backoff, Goto
  <2>3. CASE Retry(r)
    BY <2>3 DEF Retry, Goto
  <2>. QED BY <1>11, <2>1, <2>2, <2>3
<1>12. ASSUME NEW r \in Runs,
           WatcherFires(r) \/ HeartbeatLoads(r) \/ HeartbeatSaves(r)
     PROVE  (job.hashed => job'.hashed)
  BY <1>12 DEF WatcherFires, HeartbeatLoads, HeartbeatSaves, DeleteJobFiles,
      SetError
<1>13. ASSUME Environment PROVE (job.hashed => job'.hashed)
  BY <1>13 DEF Environment, ResumeCheck, ResumeEnqueue, DeleteFiles,
      DeleteFromRepository, AutoCleanup, OtherJobStores, UpdateStatus,
      DeleteJobFiles
<1>14. CASE UNCHANGED vars
  BY <1>14 DEF vars
<1>. QED BY <1>1, <1>2, <1>3, <1>4, <1>5, <1>6, <1>7, <1>8, <1>9, <1>10,
    <1>11, <1>12, <1>13, <1>14 DEF Next, Step, Rest

\* Every step keeps every copy of the state sound: one step per operation that
\* writes a copy, the others grouped by the part of the code they are in.
LEMMA CopiesStep ==
    ASSUME TypeOK, InLadder, CopiesSound, StepsBehind, [Next]_vars
    PROVE  (CopiesSound /\ StepsBehind)'
<1>. USE DEF handlers, stored, loop, attendant
<1>1. job.hashed => job'.hashed
  BY HashedStays
<1>2. ASSUME NEW r \in Runs,
           StepHashComputation(r)
     PROVE  (CopiesSound /\ StepsBehind)'
  <2>. DEFINE s == MarkStepCompleted(state[r], "hash_computation")
  <2>1. s.steps = state[r].steps \cup {"hash_computation"}
    BY MarkedSteps DEF TypeOK, EncodingStep
  <2>2. InOrder(s.steps) /\ ("hash_computation" \in s.steps => job'.hashed)
    BY <1>1, <1>2, <2>1 DEF StepHashComputation, CopiesSound, Sound,
        StepsBehind, Behind, InOrder, TypeOK, Job
  <2>3. \E l : pc' = [pc EXCEPT ![r] = l] /\ Behind(l, s.steps)
    BY <1>2, <2>1 DEF StepHashComputation, SaveOrFail, Goto, Leave, Behind
  <2>4. state' = [state EXCEPT ![r] = s] /\ file' \in {s, file} /\ beat' = beat
    BY <1>2 DEF StepHashComputation, SaveOrFail
  <2>. QED BY <1>1, <2>2, <2>3, <2>4, WriteState
<1>3. ASSUME NEW r \in Runs,
           StepDuplicateFound(r)
     PROVE  (CopiesSound /\ StepsBehind)'
  <2>. DEFINE s ==
         MarkStepCompleted([state[r] EXCEPT !.status = "completed"], "deduplication")
  <2>1. s.steps = state[r].steps \cup {"deduplication"}
    <3>1. /\ [state[r] EXCEPT !.status = "completed"] \in State
          /\ [state[r] EXCEPT !.status = "completed"].steps = state[r].steps
      BY StateUpdateType, MarkedSteps DEF TypeOK, StateStatus
    <3>. QED BY <3>1, MarkedSteps DEF EncodingStep
  <2>2. InOrder(s.steps) /\ ("hash_computation" \in s.steps => job'.hashed)
    BY <1>1, <1>3, <2>1 DEF StepDuplicateFound, CopiesSound, Sound,
        StepsBehind, Behind, InOrder
  <2>3. pc' = [pc EXCEPT ![r] = "stop_watcher"] /\ Behind("stop_watcher", s.steps)
    BY <1>3, <2>1 DEF StepDuplicateFound, Leave, Behind
  <2>4. state' = [state EXCEPT ![r] = s] /\ file' \in {s, file} /\ beat' = beat
    BY <1>3 DEF StepDuplicateFound, Save
  <2>. QED BY <1>1, <2>2, <2>3, <2>4, WriteState
<1>4. ASSUME NEW r \in Runs,
           StepAnalysis(r)
     PROVE  (CopiesSound /\ StepsBehind)'
  <2>. DEFINE s == MarkStepCompleted(state[r], "analysis")
  <2>1. s.steps = state[r].steps \cup {"analysis"}
    BY MarkedSteps DEF TypeOK, EncodingStep
  <2>2. InOrder(s.steps) /\ ("hash_computation" \in s.steps => job'.hashed)
    BY <1>1, <1>4, <2>1 DEF StepAnalysis, CopiesSound, Sound, StepsBehind,
        Behind, InOrder
  <2>3. CASE "analysis" \in state[r].steps
    BY <1>1, <1>4, <2>3, KeepState DEF StepAnalysis, Goto, Behind
  <2>4. CASE "analysis" \notin state[r].steps
    <3>1. pc' = [pc EXCEPT ![r] = "limit"] /\ Behind("limit", s.steps)
      BY <1>4, <2>1 DEF StepAnalysis, Goto, Behind
    <3>2. state' = [state EXCEPT ![r] = s] /\ file' \in {s, file} /\ beat' = beat
      BY <1>4, <2>4 DEF StepAnalysis, Save
    <3>. QED BY <1>1, <2>2, <3>1, <3>2, WriteState
  <2>. QED BY <2>3, <2>4
<1>5. ASSUME NEW r \in Runs,
           EncodingComplete(r)
     PROVE  (CopiesSound /\ StepsBehind)'
  <2>. DEFINE s == MarkStepCompleted(state[r], "master_playlist")
  <2>1. s.steps = state[r].steps \cup {"master_playlist"}
    BY MarkedSteps DEF TypeOK, EncodingStep
  <2>2. InOrder(s.steps) /\ ("hash_computation" \in s.steps => job'.hashed)
    BY <1>1, <1>5, <2>1 DEF EncodingComplete, CopiesSound, Sound,
        StepsBehind, Behind, InOrder
  <2>3. pc' = [pc EXCEPT ![r] = "metadata"] /\ Behind("metadata", s.steps)
    BY <1>5, <2>1 DEF EncodingComplete, Goto, Behind
  <2>4. state' = [state EXCEPT ![r] = s] /\ file' \in {s, file} /\ beat' = beat
    BY <1>5 DEF EncodingComplete, Save
  <2>. QED BY <1>1, <2>2, <2>3, <2>4, WriteState
<1>6. ASSUME NEW r \in Runs,
           EncodingPartial(r)
     PROVE  (CopiesSound /\ StepsBehind)'
  <2>. DEFINE s ==
         MarkStepCompleted([state[r] EXCEPT !.failed = @ \cup bad[r]], "master_playlist")
  <2>1. s.steps = state[r].steps \cup {"master_playlist"}
    <3>1. /\ [state[r] EXCEPT !.failed = @ \cup bad[r]] \in State
          /\ [state[r] EXCEPT !.failed = @ \cup bad[r]].steps = state[r].steps
      BY StateUpdateType, MarkedSteps DEF TypeOK
    <3>. QED BY <3>1, MarkedSteps DEF EncodingStep
  <2>2. InOrder(s.steps) /\ ("hash_computation" \in s.steps => job'.hashed)
    BY <1>1, <1>6, <2>1 DEF EncodingPartial, CopiesSound, Sound,
        StepsBehind, Behind, InOrder
  <2>3. pc' = [pc EXCEPT ![r] = "stop_watcher"] /\ Behind("stop_watcher", s.steps)
    BY <1>6, <2>1 DEF EncodingPartial, Leave, Behind
  <2>4. state' = [state EXCEPT ![r] = s] /\ file' \in {s, file} /\ beat' = beat
    BY <1>6 DEF EncodingPartial, Save
  <2>. QED BY <1>1, <2>2, <2>3, <2>4, WriteState
<1>7. ASSUME NEW r \in Runs,
           TracksComplete(r)
     PROVE  (CopiesSound /\ StepsBehind)'
  <2>. DEFINE s ==
         MarkStepCompleted([state[r] EXCEPT !.complete = @ \cup good[r]], "master_playlist")
  <2>1. s.steps = state[r].steps \cup {"master_playlist"}
    <3>1. /\ [state[r] EXCEPT !.complete = @ \cup good[r]] \in State
          /\ [state[r] EXCEPT !.complete = @ \cup good[r]].steps = state[r].steps
      BY StateUpdateType, MarkedSteps DEF TypeOK
    <3>. QED BY <3>1, MarkedSteps DEF EncodingStep
  <2>2. InOrder(s.steps) /\ ("hash_computation" \in s.steps => job'.hashed)
    BY <1>1, <1>7, <2>1 DEF TracksComplete, CopiesSound, Sound, StepsBehind,
        Behind, InOrder
  <2>3. pc' = [pc EXCEPT ![r] = "metadata"] /\ Behind("metadata", s.steps)
    BY <1>7, <2>1 DEF TracksComplete, Goto, Behind
  <2>4. state' = [state EXCEPT ![r] = s] /\ file' \in {s, file} /\ beat' = beat
    BY <1>7 DEF TracksComplete, Save
  <2>. QED BY <1>1, <2>2, <2>3, <2>4, WriteState
<1>8. ASSUME NEW r \in Runs,
           CleanupIntermediate(r)
     PROVE  (CopiesSound /\ StepsBehind)'
  <2>. DEFINE s == MarkStepCompleted(state[r], "cleanup")
  <2>1. s.steps = state[r].steps \cup {"cleanup"}
    BY MarkedSteps DEF TypeOK, EncodingStep
  <2>2. InOrder(s.steps) /\ ("hash_computation" \in s.steps => job'.hashed)
    BY <1>1, <1>8, <2>1 DEF CleanupIntermediate, CopiesSound, Sound,
        StepsBehind, Behind, InOrder
  <2>3. pc' = [pc EXCEPT ![r] = "publish"] /\ Behind("publish", s.steps)
    BY <1>8, <2>1 DEF CleanupIntermediate, Goto, Behind
  <2>4. state' = [state EXCEPT ![r] = s] /\ file' \in {s, file} /\ beat' = beat
    BY <1>8 DEF CleanupIntermediate, Save
  <2>. QED BY <1>1, <2>2, <2>3, <2>4, WriteState
<1>9. ASSUME NEW r \in Runs,
           StoreInCache(r)
     PROVE  (CopiesSound /\ StepsBehind)'
  <2>. DEFINE s == MarkStepCompleted(state[r], "finalization")
  <2>1. s.steps = state[r].steps \cup {"finalization"}
    BY MarkedSteps DEF TypeOK, EncodingStep
  <2>2. InOrder(s.steps) /\ ("hash_computation" \in s.steps => job'.hashed)
    BY <1>1, <1>9, <2>1 DEF StoreInCache, CopiesSound, Sound, StepsBehind,
        Behind, InOrder
  <2>3. pc' = [pc EXCEPT ![r] = "stop_watcher"] /\ Behind("stop_watcher", s.steps)
    BY <1>9, <2>1 DEF StoreInCache, Leave, Behind
  <2>4. state' = [state EXCEPT ![r] = s] /\ file' \in {s, file} /\ beat' = beat
    BY <1>9 DEF StoreInCache, Save
  <2>. QED BY <1>1, <2>2, <2>3, <2>4, WriteState
<1>10. ASSUME NEW r \in Runs,
           StepDeduplication(r)
     PROVE  (CopiesSound /\ StepsBehind)'
  <2>. DEFINE s == MarkStepCompleted(state[r], "deduplication")
  <2>1. s.steps = state[r].steps \cup {"deduplication"}
    BY MarkedSteps DEF TypeOK, EncodingStep
  <2>2. InOrder(s.steps) /\ ("hash_computation" \in s.steps => job'.hashed)
    BY <1>1, <1>10, <2>1 DEF StepDeduplication, CopiesSound, Sound,
        StepsBehind, Behind, InOrder
  <2>3. CASE job.hashed
    <3>1. \E l : pc' = [pc EXCEPT ![r] = l] /\ Behind(l, s.steps)
      BY <1>10, <2>1, <2>3 DEF StepDeduplication, SaveOrFail, Goto, Leave,
          Behind
    <3>2. state' = [state EXCEPT ![r] = s] /\ file' \in {s, file} /\ beat' = beat
      BY <1>10, <2>3 DEF StepDeduplication, SaveOrFail
    <3>. QED BY <1>1, <2>2, <3>1, <3>2, WriteState
  <2>4. CASE ~job.hashed
    BY <1>1, <1>10, <2>4, KeepState DEF StepDeduplication, Leave, Behind
  <2>. QED BY <2>3, <2>4
<1>11. ASSUME NEW r \in Runs,
           StartVariant(r)
     PROVE  (CopiesSound /\ StepsBehind)'
  <2>. DEFINE s == state[r]
  <2>1. s.steps = state[r].steps
    OBVIOUS
  <2>2. InOrder(s.steps) /\ ("hash_computation" \in s.steps => job'.hashed)
    BY <1>1, <2>1 DEF CopiesSound, Sound
  <2>3. pc' = [pc EXCEPT ![r] = "encoding"] /\ Behind("encoding", s.steps)
    BY <1>11, <2>1 DEF StartVariant, Goto, StepsBehind, Behind
  <2>4. state' = [state EXCEPT ![r] = s] /\ file' \in {s, file, NoState} /\ beat' = beat
    BY <1>11 DEF StartVariant, Save
  <2>. QED BY <1>1, <2>2, <2>3, <2>4, WriteState
<1>12. ASSUME NEW r \in Runs,
           EncodeSucceeds(r)
     PROVE  (CopiesSound /\ StepsBehind)'
  <2>. DEFINE s == MarkQualityCompleted(state[r], Current(r))
  <2>1. s.steps = state[r].steps
    BY <1>12, CurrentType, MarkedSteps DEF EncodeSucceeds, InLadder, TypeOK
  <2>2. InOrder(s.steps) /\ ("hash_computation" \in s.steps => job'.hashed)
    BY <1>1, <2>1 DEF CopiesSound, Sound
  <2>3. pc' = [pc EXCEPT ![r] = "encode"] /\ Behind("encode", s.steps)
    BY <1>12, <2>1 DEF EncodeSucceeds, Goto, StepsBehind, Behind
  <2>4. state' = [state EXCEPT ![r] = s] /\ file' \in {s, file, NoState} /\ beat' = beat
    BY <1>12 DEF EncodeSucceeds, Save
  <2>. QED BY <1>1, <2>2, <2>3, <2>4, WriteState
<1>13. ASSUME NEW r \in Runs,
           EncodeExceedsLimit(r) \/ EncodeUnmeasured(r)
     PROVE  (CopiesSound /\ StepsBehind)'
  <2>. DEFINE s ==
         MarkQualityCompleted([state[r] EXCEPT !.status = "failed"], Current(r))
  <2>1. s.steps = state[r].steps
    <3>1. /\ [state[r] EXCEPT !.status = "failed"] \in State
          /\ [state[r] EXCEPT !.status = "failed"].steps = state[r].steps
      BY StateUpdateType, MarkedSteps DEF TypeOK, StateStatus
    <3>2. Current(r) \in Qualities
      BY <1>13, CurrentType DEF EncodeExceedsLimit, EncodeUnmeasured, InLadder
    <3>. QED BY <3>1, <3>2, MarkedSteps
  <2>2. InOrder(s.steps) /\ ("hash_computation" \in s.steps => job'.hashed)
    BY <1>1, <2>1 DEF CopiesSound, Sound
  <2>3. pc' = [pc EXCEPT ![r] = "stop_watcher"] /\ Behind("stop_watcher", s.steps)
    BY <1>13, <2>1 DEF EncodeExceedsLimit, EncodeUnmeasured, Leave, StepsBehind, Behind
  <2>4. state' = [state EXCEPT ![r] = s] /\ file' \in {s, file, NoState} /\ beat' = beat
    BY <1>13 DEF EncodeExceedsLimit, EncodeUnmeasured, Save
  <2>. QED BY <1>1, <2>2, <2>3, <2>4, WriteState
<1>14. ASSUME NEW r \in Runs,
           EncodeFails(r)
     PROVE  (CopiesSound /\ StepsBehind)'
  <2>. DEFINE s == MarkQualityFailed(state[r], Current(r))
  <2>1. s.steps = state[r].steps
    BY <1>14, CurrentType, MarkedSteps DEF EncodeFails, InLadder, TypeOK
  <2>2. InOrder(s.steps) /\ ("hash_computation" \in s.steps => job'.hashed)
    BY <1>1, <2>1 DEF CopiesSound, Sound
  <2>3. pc' = [pc EXCEPT ![r] = "encode"] /\ Behind("encode", s.steps)
    BY <1>14, <2>1 DEF EncodeFails, Goto, StepsBehind, Behind
  <2>4. state' = [state EXCEPT ![r] = s] /\ file' \in {s, file, NoState} /\ beat' = beat
    BY <1>14 DEF EncodeFails, Save
  <2>. QED BY <1>1, <2>2, <2>3, <2>4, WriteState
<1>15. ASSUME NEW r \in Runs,
           PublishStatus(r)
     PROVE  (CopiesSound /\ StepsBehind)'
  <2>. DEFINE s ==
         [state[r] EXCEPT !.status = IF state[r].failed # {}
                                     THEN "partial_success" ELSE "completed"]
  <2>1. s.steps = state[r].steps
    BY MarkedSteps DEF TypeOK, StateStatus
  <2>2. InOrder(s.steps) /\ ("hash_computation" \in s.steps => job'.hashed)
    BY <1>1, <2>1 DEF CopiesSound, Sound
  <2>3. pc' = [pc EXCEPT ![r] = "store"] /\ Behind("store", s.steps)
    BY <1>15, <2>1 DEF PublishStatus, Goto, StepsBehind, Behind
  <2>4. state' = [state EXCEPT ![r] = s] /\ file' \in {s, file, NoState} /\ beat' = beat
    BY <1>15 DEF PublishStatus, Save
  <2>. QED BY <1>1, <2>2, <2>3, <2>4, WriteState
<1>16. ASSUME NEW r \in Runs,
           CreateStateFails(r) \/ MarkRunning(r) \/ StepHashFails(r)
     PROVE  (CopiesSound /\ StepsBehind)'
  <2>1. \E l : pc' = [pc EXCEPT ![r] = l] /\ Behind(l, state[r].steps)
    BY <1>16 DEF CreateStateFails, MarkRunning, StepHashFails, Goto, Leave,
        StepsBehind, Behind, TypeOK
  <2>2. state' = state /\ file' \in {file, NoState} /\ beat' = beat
    BY <1>16 DEF CreateStateFails, MarkRunning, StepHashFails
  <2>. QED BY <1>1, <2>1, <2>2, KeepState
<1>17. ASSUME NEW r \in Runs,
           StepAnalysisFails(r) \/ SkipStep(r) \/ Panic(r) \/
           CheckJobDiskLimit(r) \/ DiskLimitExceeded(r) \/ SkipVariant(r)
     PROVE  (CopiesSound /\ StepsBehind)'
  <2>1. \E l : pc' = [pc EXCEPT ![r] = l] /\ Behind(l, state[r].steps)
    BY <1>17 DEF StepAnalysisFails, SkipStep, Panic, CheckJobDiskLimit,
        DiskLimitExceeded, SkipVariant, Goto, Leave, StepsBehind, Behind, TypeOK
  <2>2. state' = state /\ file' \in {file, NoState} /\ beat' = beat
    BY <1>17 DEF StepAnalysisFails, SkipStep, Panic, CheckJobDiskLimit,
        DiskLimitExceeded, SkipVariant, DeleteJobFiles
  <2>. QED BY <1>1, <2>1, <2>2, KeepState
<1>18. ASSUME NEW r \in Runs,
           EncodingFails(r) \/ StartAudio(r) \/ AudioSucceeds(r) \/
           AudioFails(r) \/ StartTrack(r)
     PROVE  (CopiesSound /\ StepsBehind)'
  <2>1. \E l : pc' = [pc EXCEPT ![r] = l] /\ Behind(l, state[r].steps)
    BY <1>18 DEF EncodingFails, StartAudio, AudioSucceeds, AudioFails,
        StartTrack, Goto, Leave, StepsBehind, Behind, TypeOK
  <2>2. state' = state /\ file' \in {file, NoState} /\ beat' = beat
    BY <1>18 DEF EncodingFails, StartAudio, AudioSucceeds, AudioFails,
        StartTrack
  <2>. QED BY <1>1, <2>1, <2>2, KeepState
<1>19. ASSUME NEW r \in Runs,
           TrackSucceeds(r) \/ TrackFails(r) \/ TracksFail(r) \/
           SetMetadata(r) \/ SetMetadataFails(r) \/ FlagPartial(r)
     PROVE  (CopiesSound /\ StepsBehind)'
  <2>1. \E l : pc' = [pc EXCEPT ![r] = l] /\ Behind(l, state[r].steps)
    BY <1>19 DEF TrackSucceeds, TrackFails, TracksFail, SetMetadata,
        SetMetadataFails, FlagPartial, Goto, Leave, StepsBehind, Behind, TypeOK
  <2>2. state' = state /\ file' \in {file, NoState} /\ beat' = beat
    BY <1>19 DEF TrackSucceeds, TrackFails, TracksFail, SetMetadata,
        SetMetadataFails, FlagPartial
  <2>. QED BY <1>1, <2>1, <2>2, KeepState
<1>20. ASSUME NEW r \in Runs,
           StopWatcher(r) \/ Succeed(r) \/ ExhaustRetries(r) \/ MoveToDLQ(r)
           \/ GiveUp(r) \/ Backoff(r) \/ Retry(r) \/ Deliver(r)
     PROVE  (CopiesSound /\ StepsBehind)'
  <2>1. \E l : pc' = [pc EXCEPT ![r] = l] /\ Behind(l, state[r].steps)
    BY <1>20 DEF StopWatcher, Succeed, ExhaustRetries, MoveToDLQ, GiveUp,
        Backoff, Retry, Deliver, Goto, StepsBehind, Behind, TypeOK
  <2>2. state' = state /\ file' \in {file, NoState} /\ beat' = beat
    BY <1>20 DEF StopWatcher, Succeed, ExhaustRetries, MoveToDLQ, GiveUp,
        Backoff, Retry, Deliver
  <2>. QED BY <1>1, <2>1, <2>2, KeepState
<1>21. ASSUME NEW r \in Runs,
           GetOrCreateState(r)
     PROVE  (CopiesSound /\ StepsBehind)'
  <2>. DEFINE s == IF file = NoState THEN NewState ELSE file
  <2>1. InOrder(s.steps) /\ ("hash_computation" \in s.steps => job'.hashed)
    BY <1>1 DEF CopiesSound, Sound, NewState, InOrder
  <2>2. pc' = [pc EXCEPT ![r] = "running"] /\ Behind("running", s.steps)
    BY <1>21 DEF GetOrCreateState, Goto, Behind
  <2>3. state' = [state EXCEPT ![r] = s] /\ file' = s /\ beat' = beat
    BY <1>21 DEF GetOrCreateState
  <2>. QED BY <1>1, <2>1, <2>2, <2>3, WriteState
<1>22. ASSUME NEW r \in Runs,
           StopHeartbeat(r)
     PROVE  (CopiesSound /\ StepsBehind)'
  <2>1. InOrder(NewState.steps) /\ "hash_computation" \notin NewState.steps
    BY DEF NewState, InOrder
  <2>2. pc' = [pc EXCEPT ![r] = "result"] /\ Behind("result", NewState.steps)
    BY <1>22 DEF StopHeartbeat, Goto, Behind
  <2>3. state' = [state EXCEPT ![r] = NewState] /\ file' = file /\ beat' = beat
    BY <1>22 DEF StopHeartbeat
  <2>. QED BY <1>1, <2>1, <2>2, <2>3, WriteState
<1>23. ASSUME NEW r \in Runs,
           HeartbeatLoads(r) \/ HeartbeatSaves(r)
     PROVE  (CopiesSound /\ StepsBehind)'
  <2>1. InOrder(NewState.steps) /\ "hash_computation" \notin NewState.steps
    BY DEF NewState, InOrder
  <2>2. CopiesSound'
    BY <1>1, <1>23, <2>1 DEF HeartbeatLoads, HeartbeatSaves, CopiesSound,
        Sound, TypeOK
  <2>3. StepsBehind'
    BY <1>23 DEF HeartbeatLoads, HeartbeatSaves, StepsBehind
  <2>. QED BY <2>2, <2>3
<1>24. ASSUME (\E r \in Runs : WatcherFires(r)) \/ Environment \/ UNCHANGED vars
      PROVE  (CopiesSound /\ StepsBehind)'
  <2>1. UNCHANGED <<pc, state, beat>> /\ file' \in {file, NoState}
    BY <1>24 DEF WatcherFires, Environment, ResumeCheck, ResumeEnqueue,
        DeleteFiles,
        DeleteFromRepository, AutoCleanup, OtherJobStores, DeleteJobFiles, vars
  <2>2. InOrder(NoState.steps) /\ "hash_computation" \notin NoState.steps
    BY DEF NoState, InOrder
  <2>. QED BY <1>1, <2>1, <2>2 DEF CopiesSound, Sound, StepsBehind
<1>. QED BY <1>2, <1>3, <1>4, <1>5, <1>6, <1>7, <1>8, <1>9, <1>10, <1>11,
    <1>12, <1>13, <1>14, <1>15, <1>16, <1>17, <1>18, <1>19, <1>20, <1>21, <1>22,
    <1>23, <1>24 DEF Next, Step, Rest

\* Every copy of the state is sound in every behaviour, whatever is saved,
\* lost, deleted or written back late (SaveState, UpdateState).
THEOREM CopiesCorrect == Spec => [](CopiesSound /\ StepsBehind)
<1>1. Init => CopiesSound /\ StepsBehind
  BY DEF Init, CopiesSound, Sound, StepsBehind, Behind, InOrder, NewState, NoState
<1>2. TypeOK /\ InLadder /\ CopiesSound /\ StepsBehind /\ [Next]_vars
        => (CopiesSound /\ StepsBehind)'
  BY CopiesStep
<1>. QED BY <1>1, <1>2, TypeCorrect, PTL DEF Spec

\* A run that skips the hash step never works on a job without a hash
\* (executeSteps, transcode_usecase.go:651-666).
THEOREM HashKnownCorrect == Spec => []HashKnown
<1>1. CopiesSound => HashKnown
  BY DEF CopiesSound, Sound, HashKnown, Copies
<1>. QED BY <1>1, CopiesCorrect, PTL

\* No copy of the state claims a step without the ones before it (executeSteps).
THEOREM TrailInOrderCorrect == Spec => []TrailInOrder
<1>1. CopiesSound => TrailInOrder
  BY DEF CopiesSound, Sound, TrailInOrder, Copies
<1>. QED BY <1>1, CopiesCorrect, PTL

-----------------------------------------------------------------------------
(* The deduplication cache.                                                *)

\* Every step keeps the cache behind the output (stepFinalization).
LEMMA CacheStep ==
    ASSUME TypeOK, OutputKnown, CacheAfterOutput, PartialKnown, [Next]_vars
    PROVE  (OutputKnown /\ CacheAfterOutput /\ PartialKnown)'
<1>. USE DEF handlers, stored, loop, attendant, TypeOK, OutputKnown,
         CacheAfterOutput, PartialKnown, Job
<1>1. ASSUME NEW r \in Runs,
           Deliver(r) \/ GetOrCreateState(r) \/ CreateStateFails(r) \/
           MarkRunning(r)
     PROVE  (OutputKnown /\ CacheAfterOutput /\ PartialKnown)'
  BY <1>1 DEF Deliver, GetOrCreateState, CreateStateFails, MarkRunning, Goto,
      Leave, UpdateStatus
<1>2. ASSUME NEW r \in Runs,
           StepHashComputation(r) \/ StepHashFails(r) \/ StepDeduplication(r)
           \/ StepDuplicateFound(r) \/ StepAnalysis(r) \/ StepAnalysisFails(r)
           \/ SkipStep(r) \/ Panic(r)
     PROVE  (OutputKnown /\ CacheAfterOutput /\ PartialKnown)'
  BY <1>2 DEF StepHashComputation, StepHashFails, StepDeduplication,
      StepDuplicateFound, StepAnalysis, StepAnalysisFails, SkipStep, Panic, Goto,
      Leave, Save, SaveOrFail, UpdateStatus
<1>3. ASSUME NEW r \in Runs,
           CheckJobDiskLimit(r) \/ DiskLimitExceeded(r) \/ SkipVariant(r) \/
           StartVariant(r)
     PROVE  (OutputKnown /\ CacheAfterOutput /\ PartialKnown)'
  <2>1. CASE CheckJobDiskLimit(r)
    BY <2>1 DEF CheckJobDiskLimit, Goto
  <2>2. CASE DiskLimitExceeded(r)
    BY <2>2 DEF DiskLimitExceeded, DeleteJobFiles, Leave, SetError
  <2>3. CASE SkipVariant(r)
    BY <2>3 DEF SkipVariant, Advance
  <2>4. CASE StartVariant(r)
    BY <2>4 DEF StartVariant, Goto, Save
  <2>. QED BY <1>3, <2>1, <2>2, <2>3, <2>4
<1>4. ASSUME NEW r \in Runs,
           EncodeSucceeds(r) \/ EncodeExceedsLimit(r) \/ EncodeUnmeasured(r)
           \/ EncodeFails(r)
     PROVE  (OutputKnown /\ CacheAfterOutput /\ PartialKnown)'
  BY <1>4 DEF EncodeSucceeds, EncodeExceedsLimit, EncodeUnmeasured, EncodeFails,
      Advance, Goto, Leave, Save, UpdateStatus
<1>5. ASSUME NEW r \in Runs,
           EncodingComplete(r) \/ EncodingPartial(r) \/ EncodingFails(r)
     PROVE  (OutputKnown /\ CacheAfterOutput /\ PartialKnown)'
  BY <1>5 DEF EncodingComplete, EncodingPartial, EncodingFails, Goto, Leave,
      Save
<1>6. ASSUME NEW r \in Runs,
           StartAudio(r) \/ AudioSucceeds(r) \/ AudioFails(r) \/ StartTrack(r)
           \/ TrackSucceeds(r) \/ TrackFails(r) \/ TracksComplete(r) \/
           TracksFail(r)
     PROVE  (OutputKnown /\ CacheAfterOutput /\ PartialKnown)'
  BY <1>6 DEF StartAudio, AudioSucceeds, AudioFails, StartTrack,
      TrackSucceeds, TrackFails, TracksComplete, TracksFail, Advance, Goto, Leave,
      Save
<1>7. ASSUME NEW r \in Runs,
           SetMetadata(r)
     PROVE  (OutputKnown /\ CacheAfterOutput /\ PartialKnown)'
  BY <1>7 DEF SetMetadata, Goto
<1>8. ASSUME NEW r \in Runs,
           SetMetadataFails(r) \/ FlagPartial(r)
     PROVE  (OutputKnown /\ CacheAfterOutput /\ PartialKnown)'
  <2>1. CASE SetMetadataFails(r)
    BY <2>1 DEF SetMetadataFails, Leave
  <2>2. CASE FlagPartial(r)
    BY <2>2 DEF FlagPartial, Goto, SetError
  <2>. QED BY <1>8, <2>1, <2>2
<1>9. ASSUME NEW r \in Runs,
           CleanupIntermediate(r) \/ PublishStatus(r) \/ StoreInCache(r)
     PROVE  (OutputKnown /\ CacheAfterOutput /\ PartialKnown)'
  BY <1>9 DEF CleanupIntermediate, PublishStatus, StoreInCache, Goto, Leave,
      Save, UpdateStatus
<1>10. ASSUME NEW r \in Runs,
           StopWatcher(r) \/ StopHeartbeat(r)
     PROVE  (OutputKnown /\ CacheAfterOutput /\ PartialKnown)'
  BY <1>10 DEF StopWatcher, StopHeartbeat, Goto
<1>11. ASSUME NEW r \in Runs,
           Succeed(r) \/ ExhaustRetries(r) \/ MoveToDLQ(r)
     PROVE  (OutputKnown /\ CacheAfterOutput /\ PartialKnown)'
  <2>1. CASE Succeed(r)
    BY <2>1 DEF Succeed, Goto
  <2>2. CASE ExhaustRetries(r)
    BY <2>2 DEF ExhaustRetries, Goto, SetError
  <2>3. CASE MoveToDLQ(r)
    BY <2>3 DEF MoveToDLQ, Goto
  <2>. QED BY <1>11, <2>1, <2>2, <2>3
<1>12. ASSUME NEW r \in Runs,
           GiveUp(r) \/ Backoff(r) \/ Retry(r)
     PROVE  (OutputKnown /\ CacheAfterOutput /\ PartialKnown)'
  <2>1. CASE GiveUp(r)
    BY <2>1 DEF GiveUp, Goto, SetError
  <2>2. CASE Backoff(r)
    BY <2>2 DEF Backoff, Goto
  <2>3. CASE Retry(r)
    BY <2>3 DEF Retry, Goto
  <2>. QED BY <1>12, <2>1, <2>2, <2>3
<1>13. ASSUME NEW r \in Runs,
           WatcherFires(r) \/ HeartbeatLoads(r) \/ HeartbeatSaves(r)
     PROVE  (OutputKnown /\ CacheAfterOutput /\ PartialKnown)'
  <2>1. CASE WatcherFires(r)
    BY <2>1 DEF WatcherFires, DeleteJobFiles, SetError
  <2>2. CASE HeartbeatLoads(r)
    BY <2>2 DEF HeartbeatLoads
  <2>3. CASE HeartbeatSaves(r)
    BY <2>3 DEF HeartbeatSaves
  <2>. QED BY <1>13, <2>1, <2>2, <2>3
<1>14. ASSUME Environment PROVE (OutputKnown /\ CacheAfterOutput /\ PartialKnown)'
  BY <1>14 DEF Environment, ResumeCheck, ResumeEnqueue, DeleteFiles,
      DeleteFromRepository, AutoCleanup, OtherJobStores, UpdateStatus,
      DeleteJobFiles
<1>15. CASE UNCHANGED vars
  BY <1>15 DEF vars
<1>. QED BY <1>1, <1>2, <1>3, <1>4, <1>5, <1>6, <1>7, <1>8, <1>9, <1>10,
    <1>11, <1>12, <1>13, <1>14, <1>15 DEF Next, Step, Rest

\* An execution publishes the output before its status, and both before it stores
\* the hash (stepFinalization).
LEMMA OutputFirst == Spec => [](OutputKnown /\ CacheAfterOutput /\ PartialKnown)
<1>1. Init => OutputKnown /\ CacheAfterOutput /\ PartialKnown
  BY DEF Init, OutputKnown, CacheAfterOutput, PartialKnown
<1>2. TypeOK /\ OutputKnown /\ CacheAfterOutput /\ PartialKnown /\ [Next]_vars
        => (OutputKnown /\ CacheAfterOutput /\ PartialKnown)'
  BY CacheStep
<1>. QED BY <1>1, <1>2, TypeCorrect, PTL DEF Spec

\* The cache never answers with a job that has published no output
\* (stepFinalization stores the hash after SetMetadata).
THEOREM CacheAfterOutputCorrect == Spec => []CacheAfterOutput
<1>. QED BY OutputFirst, PTL

-----------------------------------------------------------------------------
(* The dead letter queue.                                                  *)

\* Every step keeps the counter and the dead letter entry right (Execute).
LEMMA DeadLetterStep ==
    ASSUME TypeOK, Counted, DeadLetterEarned, [Next]_vars
    PROVE  (Counted /\ DeadLetterEarned)'
<1>. USE DEF handlers, stored, loop, attendant, TypeOK, Counted,
DeadLetterEarned, Job, Present, NoEntry
<1>1. ASSUME NEW r \in Runs,
           Deliver(r) \/ GetOrCreateState(r) \/ CreateStateFails(r) \/
           MarkRunning(r)
     PROVE  (Counted /\ DeadLetterEarned)'
  BY <1>1, BoundsAssumption DEF Deliver, GetOrCreateState, CreateStateFails,
      MarkRunning, Goto, Leave, UpdateStatus
<1>2. ASSUME NEW r \in Runs,
           StepHashComputation(r) \/ StepHashFails(r) \/ StepDeduplication(r)
           \/ StepDuplicateFound(r) \/ StepAnalysis(r) \/ StepAnalysisFails(r)
           \/ SkipStep(r) \/ Panic(r)
     PROVE  (Counted /\ DeadLetterEarned)'
  BY <1>2, BoundsAssumption DEF StepHashComputation, StepHashFails,
      StepDeduplication, StepDuplicateFound, StepAnalysis, StepAnalysisFails,
      SkipStep, Panic, Goto, Leave, Save, SaveOrFail, UpdateStatus
<1>3. ASSUME NEW r \in Runs,
           CheckJobDiskLimit(r)
     PROVE  (Counted /\ DeadLetterEarned)'
  BY <1>3, BoundsAssumption DEF CheckJobDiskLimit, Goto
<1>4. ASSUME NEW r \in Runs,
           DiskLimitExceeded(r)
     PROVE  (Counted /\ DeadLetterEarned)'
  BY <1>4, BoundsAssumption DEF DiskLimitExceeded, DeleteJobFiles, Leave,
      SetError
<1>5. ASSUME NEW r \in Runs,
           SkipVariant(r) \/ StartVariant(r)
     PROVE  (Counted /\ DeadLetterEarned)'
  BY <1>5, BoundsAssumption DEF SkipVariant, StartVariant, Advance, Goto, Save
<1>6. ASSUME NEW r \in Runs,
           EncodeSucceeds(r) \/ EncodeExceedsLimit(r) \/ EncodeUnmeasured(r)
           \/ EncodeFails(r)
     PROVE  (Counted /\ DeadLetterEarned)'
  BY <1>6, BoundsAssumption DEF EncodeSucceeds, EncodeExceedsLimit,
      EncodeUnmeasured, EncodeFails, Advance, Goto, Leave, Save, UpdateStatus
<1>7. ASSUME NEW r \in Runs,
           EncodingComplete(r) \/ EncodingPartial(r) \/ EncodingFails(r)
     PROVE  (Counted /\ DeadLetterEarned)'
  BY <1>7, BoundsAssumption DEF EncodingComplete, EncodingPartial,
      EncodingFails, Goto, Leave, Save
<1>8. ASSUME NEW r \in Runs,
           StartAudio(r) \/ AudioSucceeds(r) \/ AudioFails(r) \/ StartTrack(r)
           \/ TrackSucceeds(r) \/ TrackFails(r) \/ TracksComplete(r) \/
           TracksFail(r)
     PROVE  (Counted /\ DeadLetterEarned)'
  BY <1>8, BoundsAssumption DEF StartAudio, AudioSucceeds, AudioFails,
      StartTrack, TrackSucceeds, TrackFails, TracksComplete, TracksFail, Advance,
      Goto, Leave, Save
<1>9. ASSUME NEW r \in Runs,
           SetMetadata(r)
     PROVE  (Counted /\ DeadLetterEarned)'
  BY <1>9, BoundsAssumption DEF SetMetadata, Goto
<1>10. ASSUME NEW r \in Runs,
           SetMetadataFails(r)
     PROVE  (Counted /\ DeadLetterEarned)'
  BY <1>10, BoundsAssumption DEF SetMetadataFails, Leave
<1>11. ASSUME NEW r \in Runs,
           FlagPartial(r)
     PROVE  (Counted /\ DeadLetterEarned)'
  BY <1>11, BoundsAssumption DEF FlagPartial, Goto, SetError
<1>12. ASSUME NEW r \in Runs,
           CleanupIntermediate(r) \/ PublishStatus(r) \/ StoreInCache(r)
     PROVE  (Counted /\ DeadLetterEarned)'
  BY <1>12, BoundsAssumption DEF CleanupIntermediate, PublishStatus,
      StoreInCache, Goto, Leave, Save, UpdateStatus
<1>13. ASSUME NEW r \in Runs,
           StopWatcher(r) \/ StopHeartbeat(r)
     PROVE  (Counted /\ DeadLetterEarned)'
  BY <1>13, BoundsAssumption DEF StopWatcher, StopHeartbeat, Goto
<1>14. ASSUME NEW r \in Runs,
           Succeed(r)
     PROVE  (Counted /\ DeadLetterEarned)'
  BY <1>14, BoundsAssumption DEF Succeed, Goto
<1>15. ASSUME NEW r \in Runs,
           ExhaustRetries(r)
     PROVE  (Counted /\ DeadLetterEarned)'
  BY <1>15, BoundsAssumption DEF ExhaustRetries, Goto, SetError
<1>16. ASSUME NEW r \in Runs,
           MoveToDLQ(r)
     PROVE  (Counted /\ DeadLetterEarned)'
  BY <1>16, BoundsAssumption DEF MoveToDLQ, Goto
<1>17. ASSUME NEW r \in Runs,
           GiveUp(r)
     PROVE  (Counted /\ DeadLetterEarned)'
  BY <1>17, BoundsAssumption DEF GiveUp, Goto, SetError
<1>18. ASSUME NEW r \in Runs,
           Backoff(r)
     PROVE  (Counted /\ DeadLetterEarned)'
  BY <1>18, BoundsAssumption DEF Backoff, Goto
<1>19. ASSUME NEW r \in Runs,
           Retry(r)
     PROVE  (Counted /\ DeadLetterEarned)'
  BY <1>19, BoundsAssumption DEF Retry, Goto
<1>20. ASSUME NEW r \in Runs,
           WatcherFires(r) \/ HeartbeatLoads(r) \/ HeartbeatSaves(r)
     PROVE  (Counted /\ DeadLetterEarned)'
  <2>1. CASE WatcherFires(r)
    BY <2>1, BoundsAssumption DEF WatcherFires, DeleteJobFiles, SetError
  <2>2. CASE HeartbeatLoads(r)
    BY <2>2, BoundsAssumption DEF HeartbeatLoads
  <2>3. CASE HeartbeatSaves(r)
    BY <2>3, BoundsAssumption DEF HeartbeatSaves
  <2>. QED BY <1>20, <2>1, <2>2, <2>3
<1>21. ASSUME Environment PROVE (Counted /\ DeadLetterEarned)'
  BY <1>21 DEF Environment, ResumeCheck, ResumeEnqueue, DeleteFiles,
      DeleteFromRepository, AutoCleanup, OtherJobStores, UpdateStatus,
      DeleteJobFiles
<1>22. CASE UNCHANGED vars
  BY <1>22 DEF vars
<1>. QED BY <1>1, <1>2, <1>3, <1>4, <1>5, <1>6, <1>7, <1>8, <1>9, <1>10,
    <1>11, <1>12, <1>13, <1>14, <1>15, <1>16, <1>17, <1>18, <1>19, <1>20, <1>21,
    <1>22 DEF Next, Step, Rest

\* No job is in the dead letter queue before it was retried MaxRetries times,
\* however many runs share its counter (Execute, transcode_usecase.go:132-173).
THEOREM DeadLetterEarnedCorrect == Spec => []DeadLetterEarned
<1>1. Init => Counted /\ DeadLetterEarned
  BY DEF Init, Counted, DeadLetterEarned, Present
<1>2. TypeOK /\ Counted /\ DeadLetterEarned /\ [Next]_vars
        => (Counted /\ DeadLetterEarned)'
  BY DeadLetterStep
<1>. QED BY <1>1, <1>2, TypeCorrect, PTL DEF Spec

-----------------------------------------------------------------------------
(* When COMPLETED means every quality.                                     *)

Rungs == {Ladder[i] : i \in DOMAIN Ladder}

\* The inputs have no audio, nothing but a full job removes a job's files, and
\* the whole ladder fits in its size limit.
Undisturbed ==
    /\ AudioInputs \subseteq {FALSE}
    /\ "delete" \notin Events /\ "cleanup" \notin Events
    /\ Len(Ladder) <= SizeLimit

\* What a run at location l with n next, and g and b done, has accounted for.
Covers(l, n, g, b) ==
    /\ g \subseteq Rungs
    /\ l \notin {"audio", "sound", "tracks", "track"}
    /\ l \in {"encode", "encoding"} => \A i \in DOMAIN Ladder : i < n => Ladder[i] \in g \cup b
    /\ l = "metadata" => g = Rungs

\* A quality that some copy of the state names has its directory, so that
\* SkipVariant lists it.
Kept(s) == s.complete \subseteq dirs

AllKept ==
    /\ hasAudio = FALSE
    /\ dirs \subseteq Rungs
    /\ Kept(file)
    /\ \A r \in Runs : Kept(state[r]) /\ Kept(beat[r])
    /\ \A r \in Runs : Covers(pc[r], next[r], good[r], bad[r])
    /\ job.output.known => job.output.qualities = Rungs

\* The directories of a whole ladder are not over the limit (Over).
LEMMA LadderFits ==
    ASSUME Undisturbed, dirs \subseteq Rungs
    PROVE  ~Over
<1>1. Len(Ladder) \in Nat /\ DOMAIN Ladder = 1..Len(Ladder)
  BY QualitiesAssumption
<1>2. Ladder \in Surjection(DOMAIN Ladder, Rungs)
  <2>1. Ladder = [i \in DOMAIN Ladder |-> Ladder[i]]
    BY QualitiesAssumption
  <2>2. Ladder \in [DOMAIN Ladder -> Rungs]
    BY <2>1 DEF Rungs
  <2>3. \A q \in Rungs : \E i \in DOMAIN Ladder : Ladder[i] = q
    BY DEF Rungs
  <2>. QED BY <2>2, <2>3, Fun_IsSurj
<1>3. IsFiniteSet(DOMAIN Ladder) /\ Cardinality(DOMAIN Ladder) = Len(Ladder)
  <2>1. /\ IsFiniteSet(1..Len(Ladder))
        /\ Cardinality(1..Len(Ladder)) =
               IF 1 > Len(Ladder) THEN 0 ELSE Len(Ladder) - 1 + 1
    BY <1>1, FS_Interval
  <2>. QED BY <1>1, <2>1
<1>4. IsFiniteSet(Rungs) /\ Cardinality(Rungs) <= Len(Ladder)
  BY <1>2, <1>3, FS_Surjection
<1>5. IsFiniteSet(dirs) /\ Cardinality(dirs) <= Cardinality(Rungs)
  BY <1>4, FS_Subset
<1>6. Cardinality(dirs) \in Nat /\ Cardinality(Rungs) \in Nat
  BY <1>4, <1>5, FS_CardinalityType
<1>. QED BY <1>1, <1>4, <1>5, <1>6, BoundsAssumption DEF Over, Undisturbed

\* Marking a step leaves the completed qualities alone (MarkStepCompleted).
LEMMA MarkStepKeeps ==
    ASSUME NEW s \in State, NEW step \in EncodingStep
    PROVE  MarkStepCompleted(s, step).complete = s.complete
  BY DEF State, JobState, MarkStepCompleted

\* A run that accounts for what it does, and removes nothing, keeps the rest.
LEMMA OneRunKeeps ==
    ASSUME TypeOK, AllKept, NEW r \in Runs,
           hasAudio' = hasAudio, beat' = beat,
           dirs \subseteq dirs', dirs' \subseteq Rungs,
           file' \in {file, state'[r]}, state'[r].complete \subseteq dirs',
           \A x \in Runs \ {r} :
               /\ pc'[x] = pc[x] /\ state'[x] = state[x]
               /\ next'[x] = next[x] /\ good'[x] = good[x] /\ bad'[x] = bad[x],
           Covers(pc'[r], next'[r], good'[r], bad'[r]),
           job'.output = job.output \/ job'.output = [known |-> TRUE, qualities |-> Rungs]
    PROVE  AllKept'
<1>1. Kept(file)'
  BY DEF AllKept, Kept
<1>2. \A x \in Runs : Kept(state[x])' /\ Kept(beat[x])'
  BY DEF AllKept, Kept
<1>3. \A x \in Runs : Covers(pc[x], next[x], good[x], bad[x])'
  <2>. SUFFICES ASSUME NEW x \in Runs
                PROVE  Covers(pc'[x], next'[x], good'[x], bad'[x])
    BY DEF Covers, Rungs
  <2>. QED BY DEF AllKept
<1>4. (job.output.known => job.output.qualities = Rungs)'
  BY DEF AllKept, Rungs
<1>. QED BY <1>1, <1>2, <1>3, <1>4 DEF AllKept, Rungs

\* The next quality is in the result or has failed, and the run goes on.
LEMMA CoversOneMore ==
    ASSUME NEW l \in {"encode", "encoding"}, NEW n \in Nat, NEW g, NEW b, NEW g2, NEW b2,
           Covers(l, n, g, b), g \subseteq g2, b \subseteq b2, g2 \subseteq Rungs,
           Ladder[n] \in g2 \cup b2
    PROVE  Covers("encode", n + 1, g2, b2)
<1>1. \A i \in DOMAIN Ladder : i \in Nat
  BY QualitiesAssumption
<1>2. ASSUME NEW i \in DOMAIN Ladder, i < n + 1 PROVE Ladder[i] \in g2 \cup b2
  <2>1. i < n \/ i = n
    BY <1>1, <1>2
  <2>. QED BY <2>1 DEF Covers
<1>. QED BY <1>2 DEF Covers

\* Every step of an undisturbed job accounts for the ladder: in encodeWithResume
\* a quality is in the result or has failed, and only if none failed is the result
\* published (encodeWithResume, stepFinalization).
LEMMA AllKeptStep ==
    ASSUME TypeOK, InLadder, Undisturbed, AllKept, [Next]_vars
    PROVE  AllKept'
<1>. USE DEF handlers, stored, loop, attendant, TypeOK
<1>1. ~Over
  BY LadderFits DEF AllKept
<1>2. NewState.complete = {} /\ NoState.complete = {}
  BY DEF NewState, NoState
<1>3. ASSUME NEW r \in Runs, GetOrCreateState(r) PROVE AllKept'
  <2>1. /\ state'[r].complete \subseteq dirs /\ file' = state'[r] /\ pc'[r] = "running"
        /\ \A x \in Runs \ {r} : pc'[x] = pc[x] /\ state'[x] = state[x]
    BY <1>2, <1>3 DEF GetOrCreateState, Goto, AllKept, Kept
  <2>2. Covers(pc'[r], next'[r], good'[r], bad'[r])
    BY <1>3, <2>1 DEF GetOrCreateState, AllKept, Covers
  <2>. QED BY <1>3, <2>1, <2>2, OneRunKeeps DEF GetOrCreateState, AllKept
<1>4. ASSUME NEW r \in Runs,
           MarkRunning(r)
     PROVE  AllKept'
  <2>1. /\ \A x \in Runs \ {r} :
               /\ pc'[x] = pc[x] /\ state'[x] = state[x]
               /\ next'[x] = next[x] /\ good'[x] = good[x] /\ bad'[x] = bad[x]
        /\ hasAudio' = hasAudio /\ beat' = beat /\ file' \in {file, state'[r]}
    BY <1>4 DEF MarkRunning, Goto, Leave
  <2>2. /\ state'[r].complete \subseteq dirs' /\ dirs \subseteq dirs' /\ dirs' \subseteq Rungs
    BY <1>4, <1>2 DEF AllKept, Kept, MarkRunning, Goto, Leave, UpdateStatus,
        Job
  <2>3. Covers(pc'[r], next'[r], good'[r], bad'[r])
    BY <1>4 DEF AllKept, Covers, MarkRunning, Goto, Leave, UpdateStatus, Job
  <2>4. job'.output = job.output \/ job'.output = [known |-> TRUE, qualities |-> Rungs]
    BY <1>4 DEF MarkRunning, Goto, UpdateStatus, Job
  <2>. QED BY <2>1, <2>2, <2>3, <2>4, OneRunKeeps
<1>5. ASSUME NEW r \in Runs,
           CreateStateFails(r) \/ Deliver(r)
     PROVE  AllKept'
  <2>1. /\ \A x \in Runs \ {r} :
               /\ pc'[x] = pc[x] /\ state'[x] = state[x]
               /\ next'[x] = next[x] /\ good'[x] = good[x] /\ bad'[x] = bad[x]
        /\ hasAudio' = hasAudio /\ beat' = beat /\ file' \in {file, state'[r]}
    BY <1>5 DEF CreateStateFails, Deliver
  <2>2. /\ state'[r].complete \subseteq dirs' /\ dirs \subseteq dirs' /\ dirs' \subseteq Rungs
    BY <1>5, <1>2 DEF AllKept, Kept, CreateStateFails, Deliver
  <2>3. Covers(pc'[r], next'[r], good'[r], bad'[r])
    BY <1>5 DEF AllKept, Covers, CreateStateFails, Deliver
  <2>4. job'.output = job.output \/ job'.output = [known |-> TRUE, qualities |-> Rungs]
    BY <1>5 DEF CreateStateFails, Deliver
  <2>. QED BY <2>1, <2>2, <2>3, <2>4, OneRunKeeps
<1>6. ASSUME NEW r \in Runs,
           StepHashComputation(r)
     PROVE  AllKept'
  <2>1. /\ \A x \in Runs \ {r} :
               /\ pc'[x] = pc[x] /\ state'[x] = state[x]
               /\ next'[x] = next[x] /\ good'[x] = good[x] /\ bad'[x] = bad[x]
        /\ hasAudio' = hasAudio /\ beat' = beat /\ file' \in {file, state'[r]}
    BY <1>6 DEF StepHashComputation, SaveOrFail, Goto, Leave
  <2>2. /\ state'[r].complete \subseteq dirs' /\ dirs \subseteq dirs' /\ dirs' \subseteq Rungs
    BY <1>6, <1>2 DEF AllKept, Kept, StepHashComputation, SaveOrFail,
        MarkStepCompleted, State, JobState, Goto, Leave, Job
  <2>3. Covers(pc'[r], next'[r], good'[r], bad'[r])
    BY <1>6 DEF AllKept, Covers, StepHashComputation, SaveOrFail,
        MarkStepCompleted, State, JobState, Goto, Leave, Job
  <2>4. job'.output = job.output \/ job'.output = [known |-> TRUE, qualities |-> Rungs]
    BY <1>6 DEF StepHashComputation, Goto, Job
  <2>. QED BY <2>1, <2>2, <2>3, <2>4, OneRunKeeps
<1>7. ASSUME NEW r \in Runs,
           StepDeduplication(r)
     PROVE  AllKept'
  <2>1. /\ \A x \in Runs \ {r} :
               /\ pc'[x] = pc[x] /\ state'[x] = state[x]
               /\ next'[x] = next[x] /\ good'[x] = good[x] /\ bad'[x] = bad[x]
        /\ hasAudio' = hasAudio /\ beat' = beat /\ file' \in {file, state'[r]}
    BY <1>7 DEF StepDeduplication, SaveOrFail, Goto, Leave
  <2>2. /\ state'[r].complete \subseteq dirs' /\ dirs \subseteq dirs' /\ dirs' \subseteq Rungs
    <3>1. state'[r].complete = state[r].complete /\ dirs' = dirs
      BY <1>7, MarkStepKeeps DEF StepDeduplication, SaveOrFail, EncodingStep
    <3>. QED BY <3>1 DEF AllKept, Kept
  <2>3. Covers(pc'[r], next'[r], good'[r], bad'[r])
    <3>1. /\ pc'[r] \in {"analysis", "stop_watcher"}
          /\ next' = next /\ good' = good /\ bad' = bad
      BY <1>7 DEF StepDeduplication, SaveOrFail, Goto, Leave
    <3>. QED BY <3>1 DEF AllKept, Covers
  <2>4. job'.output = job.output \/ job'.output = [known |-> TRUE, qualities |-> Rungs]
    BY <1>7 DEF StepDeduplication, Goto
  <2>. QED BY <2>1, <2>2, <2>3, <2>4, OneRunKeeps
<1>8. ASSUME NEW r \in Runs,
           StepDuplicateFound(r)
     PROVE  AllKept'
  <2>1. /\ \A x \in Runs \ {r} :
               /\ pc'[x] = pc[x] /\ state'[x] = state[x]
               /\ next'[x] = next[x] /\ good'[x] = good[x] /\ bad'[x] = bad[x]
        /\ hasAudio' = hasAudio /\ beat' = beat /\ file' \in {file, state'[r]}
    BY <1>8 DEF StepDuplicateFound, Save, Leave
  <2>2. /\ state'[r].complete \subseteq dirs' /\ dirs \subseteq dirs' /\ dirs' \subseteq Rungs
    BY <1>8, <1>2 DEF AllKept, Kept, StepDuplicateFound, Save,
        MarkStepCompleted, State, JobState, Leave, UpdateStatus, Job
  <2>3. Covers(pc'[r], next'[r], good'[r], bad'[r])
    BY <1>8 DEF AllKept, Covers, StepDuplicateFound, Save, MarkStepCompleted,
        State, JobState, Leave, UpdateStatus, Job
  <2>4. job'.output = job.output \/ job'.output = [known |-> TRUE, qualities |-> Rungs]
    BY <1>8 DEF StepDuplicateFound, UpdateStatus, Job
  <2>. QED BY <2>1, <2>2, <2>3, <2>4, OneRunKeeps
<1>9. ASSUME NEW r \in Runs,
           StepAnalysis(r)
     PROVE  AllKept'
  <2>1. /\ \A x \in Runs \ {r} :
               /\ pc'[x] = pc[x] /\ state'[x] = state[x]
               /\ next'[x] = next[x] /\ good'[x] = good[x] /\ bad'[x] = bad[x]
        /\ hasAudio' = hasAudio /\ beat' = beat /\ file' \in {file, state'[r]}
    BY <1>9 DEF StepAnalysis, Save, Goto
  <2>2. /\ state'[r].complete \subseteq dirs' /\ dirs \subseteq dirs' /\ dirs' \subseteq Rungs
    <3>1. state'[r].complete = state[r].complete /\ dirs' = dirs
      BY <1>9, MarkStepKeeps DEF StepAnalysis, Save, EncodingStep
    <3>. QED BY <3>1 DEF AllKept, Kept
  <2>3. Covers(pc'[r], next'[r], good'[r], bad'[r])
    <3>1. pc'[r] = "limit" /\ next' = next /\ good' = good /\ bad' = bad
      BY <1>9 DEF StepAnalysis, Goto
    <3>. QED BY <3>1 DEF AllKept, Covers
  <2>4. job'.output = job.output \/ job'.output = [known |-> TRUE, qualities |-> Rungs]
    BY <1>9 DEF StepAnalysis, Goto
  <2>. QED BY <2>1, <2>2, <2>3, <2>4, OneRunKeeps
<1>10. ASSUME NEW r \in Runs,
           StepHashFails(r) \/ StepAnalysisFails(r) \/ SkipStep(r) \/ Panic(r)
     PROVE  AllKept'
  <2>1. /\ \A x \in Runs \ {r} :
               /\ pc'[x] = pc[x] /\ state'[x] = state[x]
               /\ next'[x] = next[x] /\ good'[x] = good[x] /\ bad'[x] = bad[x]
        /\ hasAudio' = hasAudio /\ beat' = beat /\ file' \in {file, state'[r]}
    BY <1>10 DEF StepHashFails, StepAnalysisFails, SkipStep, Panic, Goto,
        Leave
  <2>2. /\ state'[r].complete \subseteq dirs' /\ dirs \subseteq dirs' /\ dirs' \subseteq Rungs
    BY <1>10, <1>2 DEF AllKept, Kept, StepHashFails, StepAnalysisFails,
        SkipStep, Panic, Goto, Leave
  <2>3. Covers(pc'[r], next'[r], good'[r], bad'[r])
    BY <1>10 DEF AllKept, Covers, StepHashFails, StepAnalysisFails, SkipStep,
        Panic, Goto, Leave
  <2>4. job'.output = job.output \/ job'.output = [known |-> TRUE, qualities |-> Rungs]
    BY <1>10 DEF StepHashFails, StepAnalysisFails, SkipStep, Panic, Goto
  <2>. QED BY <2>1, <2>2, <2>3, <2>4, OneRunKeeps
<1>11. ASSUME NEW r \in Runs,
           CheckJobDiskLimit(r)
     PROVE  AllKept'
  <2>1. /\ \A x \in Runs \ {r} :
               /\ pc'[x] = pc[x] /\ state'[x] = state[x]
               /\ next'[x] = next[x] /\ good'[x] = good[x] /\ bad'[x] = bad[x]
        /\ hasAudio' = hasAudio /\ beat' = beat /\ file' \in {file, state'[r]}
    BY <1>11 DEF CheckJobDiskLimit, Goto
  <2>2. /\ state'[r].complete \subseteq dirs' /\ dirs \subseteq dirs' /\ dirs' \subseteq Rungs
    BY <1>11, <1>2 DEF AllKept, Kept, CheckJobDiskLimit, Goto
  <2>3. Covers(pc'[r], next'[r], good'[r], bad'[r])
    <3>1. \A i \in DOMAIN Ladder : ~(i < 1)
      BY QualitiesAssumption
    <3>2. pc'[r] = "encode" /\ next'[r] = 1 /\ good'[r] = {}
      BY <1>11 DEF CheckJobDiskLimit, Goto, AllKept
    <3>. QED BY <3>1, <3>2 DEF Covers
  <2>4. job'.output = job.output \/ job'.output = [known |-> TRUE, qualities |-> Rungs]
    BY <1>11 DEF CheckJobDiskLimit, Goto
  <2>. QED BY <2>1, <2>2, <2>3, <2>4, OneRunKeeps
<1>12. ASSUME NEW r \in Runs,
           SkipVariant(r)
     PROVE  AllKept'
  <2>1. /\ \A x \in Runs \ {r} :
               /\ pc'[x] = pc[x] /\ state'[x] = state[x]
               /\ next'[x] = next[x] /\ good'[x] = good[x] /\ bad'[x] = bad[x]
        /\ hasAudio' = hasAudio /\ beat' = beat /\ file' \in {file, state'[r]}
    BY <1>12 DEF SkipVariant, Advance
  <2>2. /\ state'[r].complete \subseteq dirs' /\ dirs \subseteq dirs' /\ dirs' \subseteq Rungs
    BY <1>12, <1>2 DEF AllKept, Kept, SkipVariant, Advance, Current, Kept,
        Rungs
  <2>3. Covers(pc'[r], next'[r], good'[r], bad'[r])
    BY <1>12 DEF AllKept, Covers, SkipVariant, Advance, Current, Kept, Rungs
  <2>4. job'.output = job.output \/ job'.output = [known |-> TRUE, qualities |-> Rungs]
    BY <1>12 DEF SkipVariant
  <2>. QED BY <2>1, <2>2, <2>3, <2>4, OneRunKeeps
<1>13. ASSUME NEW r \in Runs,
           StartVariant(r)
     PROVE  AllKept'
  <2>1. /\ \A x \in Runs \ {r} :
               /\ pc'[x] = pc[x] /\ state'[x] = state[x]
               /\ next'[x] = next[x] /\ good'[x] = good[x] /\ bad'[x] = bad[x]
        /\ hasAudio' = hasAudio /\ beat' = beat /\ file' \in {file, state'[r]}
    BY <1>13 DEF StartVariant, Save, Goto
  <2>2. /\ state'[r].complete \subseteq dirs' /\ dirs \subseteq dirs' /\ dirs' \subseteq Rungs
    BY <1>13, <1>2 DEF AllKept, Kept, StartVariant, Save, Goto, Current,
        Rungs, Kept
  <2>3. Covers(pc'[r], next'[r], good'[r], bad'[r])
    BY <1>13 DEF AllKept, Covers, StartVariant, Save, Goto, Current, Rungs,
        Kept
  <2>4. job'.output = job.output \/ job'.output = [known |-> TRUE, qualities |-> Rungs]
    BY <1>13 DEF StartVariant, Goto
  <2>. QED BY <2>1, <2>2, <2>3, <2>4, OneRunKeeps
<1>14. ASSUME NEW r \in Runs,
           EncodeSucceeds(r)
     PROVE  AllKept'
  <2>1. /\ \A x \in Runs \ {r} :
               /\ pc'[x] = pc[x] /\ state'[x] = state[x]
               /\ next'[x] = next[x] /\ good'[x] = good[x] /\ bad'[x] = bad[x]
        /\ hasAudio' = hasAudio /\ beat' = beat /\ file' \in {file, state'[r]}
    BY <1>14 DEF EncodeSucceeds, Save, Advance, Goto
  <2>2. /\ state'[r].complete \subseteq dirs' /\ dirs \subseteq dirs' /\ dirs' \subseteq Rungs
    BY <1>14, <1>2 DEF AllKept, Kept, EncodeSucceeds, Save,
        MarkQualityCompleted, State, JobState, Advance, Goto, Current, Rungs,
        Kept
  <2>3. Covers(pc'[r], next'[r], good'[r], bad'[r])
    <3>1. /\ pc'[r] = "encode" /\ next'[r] = next[r] + 1
          /\ good'[r] = good[r] \cup {Current(r)} /\ bad'[r] = bad[r]
      BY <1>14 DEF EncodeSucceeds, Goto, Advance
    <3>2. /\ pc[r] \in {"encode", "encoding"} /\ next[r] \in Nat
          /\ Covers(pc[r], next[r], good[r], bad[r])
      BY <1>14 DEF AllKept, EncodeSucceeds
    <3>3. Current(r) = Ladder[next[r]] /\ Current(r) \in Rungs
      BY <1>14 DEF EncodeSucceeds, Current, Rungs, InLadder
    <3>4. good[r] \subseteq Rungs
      BY <3>2 DEF Covers
    <3>. DEFINE g == good[r] \cup {Current(r)}
                b == bad[r]
    <3>5. /\ good[r] \subseteq g /\ bad[r] \subseteq b /\ g \subseteq Rungs
          /\ Ladder[next[r]] \in g \cup b
      BY <3>3, <3>4
    <3>. HIDE DEF g, b, TypeOK
    <3>6. Covers("encode", next[r] + 1, g, b)
      BY <3>2, <3>5, CoversOneMore
    <3>. QED BY <3>1, <3>6 DEF g, b
  <2>4. job'.output = job.output \/ job'.output = [known |-> TRUE, qualities |-> Rungs]
    BY <1>14 DEF EncodeSucceeds, Goto
  <2>. QED BY <2>1, <2>2, <2>3, <2>4, OneRunKeeps
<1>15. ASSUME NEW r \in Runs,
           EncodeFails(r)
     PROVE  AllKept'
  <2>1. /\ \A x \in Runs \ {r} :
               /\ pc'[x] = pc[x] /\ state'[x] = state[x]
               /\ next'[x] = next[x] /\ good'[x] = good[x] /\ bad'[x] = bad[x]
        /\ hasAudio' = hasAudio /\ beat' = beat /\ file' \in {file, state'[r]}
    BY <1>15 DEF EncodeFails, Save, Advance, Goto
  <2>2. /\ state'[r].complete \subseteq dirs' /\ dirs \subseteq dirs' /\ dirs' \subseteq Rungs
    BY <1>15, <1>2 DEF AllKept, Kept, EncodeFails, Save, MarkQualityFailed,
        State, JobState, Advance, Goto, Current, Rungs, Kept
  <2>3. Covers(pc'[r], next'[r], good'[r], bad'[r])
    <3>1. /\ pc'[r] = "encode" /\ next'[r] = next[r] + 1
          /\ good'[r] = good[r] /\ bad'[r] = bad[r] \cup {Current(r)}
      BY <1>15 DEF EncodeFails, Goto, Advance
    <3>2. /\ pc[r] \in {"encode", "encoding"} /\ next[r] \in Nat
          /\ Covers(pc[r], next[r], good[r], bad[r])
      BY <1>15 DEF AllKept, EncodeFails
    <3>3. Current(r) = Ladder[next[r]] /\ Current(r) \in Rungs
      BY <1>15 DEF EncodeFails, Current, Rungs, InLadder
    <3>4. good[r] \subseteq Rungs
      BY <3>2 DEF Covers
    <3>. DEFINE g == good[r]
                b == bad[r] \cup {Current(r)}
    <3>5. /\ good[r] \subseteq g /\ bad[r] \subseteq b /\ g \subseteq Rungs
          /\ Ladder[next[r]] \in g \cup b
      BY <3>3, <3>4
    <3>. HIDE DEF g, b, TypeOK
    <3>6. Covers("encode", next[r] + 1, g, b)
      BY <3>2, <3>5, CoversOneMore
    <3>. QED BY <3>1, <3>6 DEF g, b
  <2>4. job'.output = job.output \/ job'.output = [known |-> TRUE, qualities |-> Rungs]
    BY <1>15 DEF EncodeFails, Goto
  <2>. QED BY <2>1, <2>2, <2>3, <2>4, OneRunKeeps
<1>16. ASSUME NEW r \in Runs,
           EncodingComplete(r)
     PROVE  AllKept'
  <2>1. /\ \A x \in Runs \ {r} :
               /\ pc'[x] = pc[x] /\ state'[x] = state[x]
               /\ next'[x] = next[x] /\ good'[x] = good[x] /\ bad'[x] = bad[x]
        /\ hasAudio' = hasAudio /\ beat' = beat /\ file' \in {file, state'[r]}
    BY <1>16 DEF EncodingComplete, Save, Goto
  <2>2. /\ state'[r].complete \subseteq dirs' /\ dirs \subseteq dirs' /\ dirs' \subseteq Rungs
    BY <1>16, <1>2 DEF AllKept, Kept, EncodingComplete, Save,
        MarkStepCompleted, State, JobState, Goto, Rungs
  <2>3. Covers(pc'[r], next'[r], good'[r], bad'[r])
    <3>1. /\ pc[r] = "encode" /\ next[r] > Len(Ladder) /\ bad[r] = {}
          /\ pc'[r] = "metadata" /\ good'[r] = good[r]
          /\ Covers(pc[r], next[r], good[r], bad[r])
      BY <1>16 DEF EncodingComplete, Goto, AllKept
    <3>2. \A i \in DOMAIN Ladder : i < next[r]
      BY <3>1, QualitiesAssumption
    <3>3. good[r] = Rungs
      BY <3>1, <3>2 DEF Covers, Rungs
    <3>. QED BY <3>1, <3>3 DEF Covers
  <2>4. job'.output = job.output \/ job'.output = [known |-> TRUE, qualities |-> Rungs]
    BY <1>16 DEF EncodingComplete, Goto
  <2>. QED BY <2>1, <2>2, <2>3, <2>4, OneRunKeeps
<1>17. ASSUME NEW r \in Runs,
           EncodingPartial(r)
     PROVE  AllKept'
  <2>1. /\ \A x \in Runs \ {r} :
               /\ pc'[x] = pc[x] /\ state'[x] = state[x]
               /\ next'[x] = next[x] /\ good'[x] = good[x] /\ bad'[x] = bad[x]
        /\ hasAudio' = hasAudio /\ beat' = beat /\ file' \in {file, state'[r]}
    BY <1>17 DEF EncodingPartial, Save, Leave
  <2>2. /\ state'[r].complete \subseteq dirs' /\ dirs \subseteq dirs' /\ dirs' \subseteq Rungs
    BY <1>17, <1>2 DEF AllKept, Kept, EncodingPartial, Save,
        MarkStepCompleted, State, JobState, Leave
  <2>3. Covers(pc'[r], next'[r], good'[r], bad'[r])
    BY <1>17 DEF AllKept, Covers, EncodingPartial, Save, MarkStepCompleted,
        State, JobState, Leave
  <2>4. job'.output = job.output \/ job'.output = [known |-> TRUE, qualities |-> Rungs]
    BY <1>17 DEF EncodingPartial
  <2>. QED BY <2>1, <2>2, <2>3, <2>4, OneRunKeeps
<1>18. ASSUME NEW r \in Runs,
           EncodingFails(r)
     PROVE  AllKept'
  <2>1. /\ \A x \in Runs \ {r} :
               /\ pc'[x] = pc[x] /\ state'[x] = state[x]
               /\ next'[x] = next[x] /\ good'[x] = good[x] /\ bad'[x] = bad[x]
        /\ hasAudio' = hasAudio /\ beat' = beat /\ file' \in {file, state'[r]}
    BY <1>18 DEF EncodingFails, Leave
  <2>2. /\ state'[r].complete \subseteq dirs' /\ dirs \subseteq dirs' /\ dirs' \subseteq Rungs
    BY <1>18, <1>2 DEF AllKept, Kept, EncodingFails, Leave
  <2>3. Covers(pc'[r], next'[r], good'[r], bad'[r])
    BY <1>18 DEF AllKept, Covers, EncodingFails, Leave
  <2>4. job'.output = job.output \/ job'.output = [known |-> TRUE, qualities |-> Rungs]
    BY <1>18 DEF EncodingFails
  <2>. QED BY <2>1, <2>2, <2>3, <2>4, OneRunKeeps
<1>19. ASSUME NEW r \in Runs,
           SetMetadata(r)
     PROVE  AllKept'
  <2>1. /\ \A x \in Runs \ {r} :
               /\ pc'[x] = pc[x] /\ state'[x] = state[x]
               /\ next'[x] = next[x] /\ good'[x] = good[x] /\ bad'[x] = bad[x]
        /\ hasAudio' = hasAudio /\ beat' = beat /\ file' \in {file, state'[r]}
    BY <1>19 DEF SetMetadata, Goto
  <2>2. /\ state'[r].complete \subseteq dirs' /\ dirs \subseteq dirs' /\ dirs' \subseteq Rungs
    BY <1>19, <1>2 DEF AllKept, Kept, SetMetadata, Goto, Job
  <2>3. Covers(pc'[r], next'[r], good'[r], bad'[r])
    BY <1>19 DEF AllKept, Covers, SetMetadata, Goto, Job
  <2>4. job'.output = job.output \/ job'.output = [known |-> TRUE, qualities |-> Rungs]
    BY <1>19 DEF SetMetadata, Goto, Job, AllKept, Covers
  <2>. QED BY <2>1, <2>2, <2>3, <2>4, OneRunKeeps
<1>20. ASSUME NEW r \in Runs,
           SetMetadataFails(r) \/ FlagPartial(r)
     PROVE  AllKept'
  <2>1. /\ \A x \in Runs \ {r} :
               /\ pc'[x] = pc[x] /\ state'[x] = state[x]
               /\ next'[x] = next[x] /\ good'[x] = good[x] /\ bad'[x] = bad[x]
        /\ hasAudio' = hasAudio /\ beat' = beat /\ file' \in {file, state'[r]}
    BY <1>20 DEF SetMetadataFails, FlagPartial, Goto, Leave
  <2>2. /\ state'[r].complete \subseteq dirs' /\ dirs \subseteq dirs' /\ dirs' \subseteq Rungs
    BY <1>20, <1>2 DEF AllKept, Kept, SetMetadataFails, FlagPartial, Goto,
        Leave, SetError, Job
  <2>3. Covers(pc'[r], next'[r], good'[r], bad'[r])
    BY <1>20 DEF AllKept, Covers, SetMetadataFails, FlagPartial, Goto, Leave,
        SetError, Job
  <2>4. job'.output = job.output \/ job'.output = [known |-> TRUE, qualities |-> Rungs]
    <3>1. CASE SetMetadataFails(r)
      BY <3>1 DEF SetMetadataFails, Job
    <3>2. CASE FlagPartial(r)
      BY <3>2 DEF FlagPartial, Goto, SetError, Job
    <3>. QED BY <1>20, <3>1, <3>2
  <2>. QED BY <2>1, <2>2, <2>3, <2>4, OneRunKeeps
<1>21. ASSUME NEW r \in Runs,
           CleanupIntermediate(r)
     PROVE  AllKept'
  <2>1. /\ \A x \in Runs \ {r} :
               /\ pc'[x] = pc[x] /\ state'[x] = state[x]
               /\ next'[x] = next[x] /\ good'[x] = good[x] /\ bad'[x] = bad[x]
        /\ hasAudio' = hasAudio /\ beat' = beat /\ file' \in {file, state'[r]}
    BY <1>21 DEF CleanupIntermediate, Save, Goto
  <2>2. /\ state'[r].complete \subseteq dirs' /\ dirs \subseteq dirs' /\ dirs' \subseteq Rungs
    BY <1>21, <1>2 DEF AllKept, Kept, CleanupIntermediate, Save,
        MarkStepCompleted, State, JobState, Goto
  <2>3. Covers(pc'[r], next'[r], good'[r], bad'[r])
    BY <1>21 DEF AllKept, Covers, CleanupIntermediate, Save,
        MarkStepCompleted, State, JobState, Goto
  <2>4. job'.output = job.output \/ job'.output = [known |-> TRUE, qualities |-> Rungs]
    BY <1>21 DEF CleanupIntermediate, Goto
  <2>. QED BY <2>1, <2>2, <2>3, <2>4, OneRunKeeps
<1>22. ASSUME NEW r \in Runs,
           PublishStatus(r)
     PROVE  AllKept'
  <2>1. /\ \A x \in Runs \ {r} :
               /\ pc'[x] = pc[x] /\ state'[x] = state[x]
               /\ next'[x] = next[x] /\ good'[x] = good[x] /\ bad'[x] = bad[x]
        /\ hasAudio' = hasAudio /\ beat' = beat /\ file' \in {file, state'[r]}
    BY <1>22 DEF PublishStatus, Goto
  <2>2. /\ state'[r].complete \subseteq dirs' /\ dirs \subseteq dirs' /\ dirs' \subseteq Rungs
    BY <1>22, <1>2 DEF AllKept, Kept, PublishStatus, UpdateStatus, State,
        JobState, Goto, Job
  <2>3. Covers(pc'[r], next'[r], good'[r], bad'[r])
    BY <1>22 DEF AllKept, Covers, PublishStatus, UpdateStatus, State,
        JobState, Goto, Job
  <2>4. job'.output = job.output \/ job'.output = [known |-> TRUE, qualities |-> Rungs]
    BY <1>22 DEF PublishStatus, UpdateStatus, Goto, Job
  <2>. QED BY <2>1, <2>2, <2>3, <2>4, OneRunKeeps
<1>23. ASSUME NEW r \in Runs,
           StoreInCache(r)
     PROVE  AllKept'
  <2>1. /\ \A x \in Runs \ {r} :
               /\ pc'[x] = pc[x] /\ state'[x] = state[x]
               /\ next'[x] = next[x] /\ good'[x] = good[x] /\ bad'[x] = bad[x]
        /\ hasAudio' = hasAudio /\ beat' = beat /\ file' \in {file, state'[r]}
    BY <1>23 DEF StoreInCache, Save, Leave
  <2>2. /\ state'[r].complete \subseteq dirs' /\ dirs \subseteq dirs' /\ dirs' \subseteq Rungs
    BY <1>23, <1>2 DEF AllKept, Kept, StoreInCache, Save, MarkStepCompleted,
        State, JobState, Leave
  <2>3. Covers(pc'[r], next'[r], good'[r], bad'[r])
    BY <1>23 DEF AllKept, Covers, StoreInCache, Save, MarkStepCompleted,
        State, JobState, Leave
  <2>4. job'.output = job.output \/ job'.output = [known |-> TRUE, qualities |-> Rungs]
    BY <1>23 DEF StoreInCache
  <2>. QED BY <2>1, <2>2, <2>3, <2>4, OneRunKeeps
<1>24. ASSUME NEW r \in Runs,
           StopWatcher(r) \/ Succeed(r) \/ ExhaustRetries(r) \/ MoveToDLQ(r)
     PROVE  AllKept'
  <2>1. /\ \A x \in Runs \ {r} :
               /\ pc'[x] = pc[x] /\ state'[x] = state[x]
               /\ next'[x] = next[x] /\ good'[x] = good[x] /\ bad'[x] = bad[x]
        /\ hasAudio' = hasAudio /\ beat' = beat /\ file' \in {file, state'[r]}
    BY <1>24 DEF StopWatcher, Succeed, ExhaustRetries, MoveToDLQ, Goto
  <2>2. /\ state'[r].complete \subseteq dirs' /\ dirs \subseteq dirs' /\ dirs' \subseteq Rungs
    BY <1>24, <1>2 DEF AllKept, Kept, StopWatcher, Succeed, ExhaustRetries,
        MoveToDLQ, Goto, SetError, Job
  <2>3. Covers(pc'[r], next'[r], good'[r], bad'[r])
    BY <1>24 DEF AllKept, Covers, StopWatcher, Succeed, ExhaustRetries,
        MoveToDLQ, Goto, SetError, Job
  <2>4. job'.output = job.output \/ job'.output = [known |-> TRUE, qualities |-> Rungs]
    BY <1>24 DEF StopWatcher, Succeed, ExhaustRetries, MoveToDLQ, Goto,
        SetError, Job
  <2>. QED BY <2>1, <2>2, <2>3, <2>4, OneRunKeeps
<1>25. ASSUME NEW r \in Runs,
           StopHeartbeat(r)
     PROVE  AllKept'
  <2>1. /\ \A x \in Runs \ {r} :
               /\ pc'[x] = pc[x] /\ state'[x] = state[x]
               /\ next'[x] = next[x] /\ good'[x] = good[x] /\ bad'[x] = bad[x]
        /\ hasAudio' = hasAudio /\ beat' = beat /\ file' \in {file, state'[r]}
    BY <1>25 DEF StopHeartbeat, Goto
  <2>2. /\ state'[r].complete \subseteq dirs' /\ dirs \subseteq dirs' /\ dirs' \subseteq Rungs
    BY <1>25, <1>2 DEF AllKept, Kept, StopHeartbeat, Goto
  <2>3. Covers(pc'[r], next'[r], good'[r], bad'[r])
    BY <1>25 DEF AllKept, Covers, StopHeartbeat, Goto
  <2>4. job'.output = job.output \/ job'.output = [known |-> TRUE, qualities |-> Rungs]
    BY <1>25 DEF StopHeartbeat, Goto
  <2>. QED BY <2>1, <2>2, <2>3, <2>4, OneRunKeeps
<1>26. ASSUME NEW r \in Runs,
           GiveUp(r) \/ Backoff(r) \/ Retry(r)
     PROVE  AllKept'
  <2>1. /\ \A x \in Runs \ {r} :
               /\ pc'[x] = pc[x] /\ state'[x] = state[x]
               /\ next'[x] = next[x] /\ good'[x] = good[x] /\ bad'[x] = bad[x]
        /\ hasAudio' = hasAudio /\ beat' = beat /\ file' \in {file, state'[r]}
    BY <1>26 DEF GiveUp, Backoff, Retry, Goto
  <2>2. /\ state'[r].complete \subseteq dirs' /\ dirs \subseteq dirs' /\ dirs' \subseteq Rungs
    BY <1>26, <1>2 DEF AllKept, Kept, GiveUp, Backoff, Retry, Goto, SetError,
        Job
  <2>3. Covers(pc'[r], next'[r], good'[r], bad'[r])
    BY <1>26 DEF AllKept, Covers, GiveUp, Backoff, Retry, Goto, SetError, Job
  <2>4. job'.output = job.output \/ job'.output = [known |-> TRUE, qualities |-> Rungs]
    <3>1. CASE GiveUp(r)
      BY <3>1 DEF GiveUp, Goto, SetError, Job
    <3>2. CASE Backoff(r)
      BY <3>2 DEF Backoff, Goto, Job
    <3>3. CASE Retry(r)
      BY <3>3 DEF Retry, Goto, Job
    <3>. QED BY <1>26, <3>1, <3>2, <3>3
  <2>. QED BY <2>1, <2>2, <2>3, <2>4, OneRunKeeps
<1>27. ASSUME NEW r \in Runs,
           DiskLimitExceeded(r) \/ EncodeExceedsLimit(r) \/ WatcherFires(r)
     PROVE  AllKept'
  BY <1>1, <1>27 DEF DiskLimitExceeded, EncodeExceedsLimit, WatcherFires
<1>unmeasured. ASSUME NEW r \in Runs, EncodeUnmeasured(r) PROVE AllKept'
  <2>1. /\ \A x \in Runs \ {r} :
               /\ pc'[x] = pc[x] /\ state'[x] = state[x]
               /\ next'[x] = next[x] /\ good'[x] = good[x] /\ bad'[x] = bad[x]
        /\ hasAudio' = hasAudio /\ beat' = beat /\ file' \in {file, state'[r]}
    BY <1>unmeasured DEF EncodeUnmeasured, Save, Leave
  <2>2. /\ state'[r].complete \subseteq dirs' /\ dirs \subseteq dirs' /\ dirs' \subseteq Rungs
    BY <1>unmeasured DEF AllKept, Kept, EncodeUnmeasured, Save,
        MarkQualityCompleted, State, JobState
  <2>3. Covers(pc'[r], next'[r], good'[r], bad'[r])
    BY <1>unmeasured DEF AllKept, Covers, EncodeUnmeasured, Leave
  <2>4. job'.output = job.output \/ job'.output = [known |-> TRUE, qualities |-> Rungs]
    BY <1>unmeasured DEF EncodeUnmeasured, UpdateStatus, Job
  <2>. QED BY <2>1, <2>2, <2>3, <2>4, OneRunKeeps
<1>28. ASSUME NEW r \in Runs,
           StartAudio(r) \/ AudioSucceeds(r) \/ AudioFails(r) \/ StartTrack(r)
           \/ TrackSucceeds(r) \/ TrackFails(r) \/ TracksComplete(r) \/
           TracksFail(r)
     PROVE  AllKept'
  BY <1>28 DEF AllKept, Covers, StartAudio, AudioSucceeds, AudioFails,
      StartTrack, TrackSucceeds, TrackFails, TracksComplete, TracksFail
<1>29. ASSUME NEW r \in Runs, HeartbeatLoads(r) \/ HeartbeatSaves(r)
     PROVE  AllKept'
  BY <1>2, <1>29 DEF AllKept, Kept, HeartbeatLoads, HeartbeatSaves
<1>30. ASSUME Environment PROVE AllKept'
  BY <1>30 DEF AllKept, Kept, Undisturbed, Environment, ResumeCheck, ResumeEnqueue,
      DeleteFiles, DeleteFromRepository, AutoCleanup, OtherJobStores, UpdateStatus, Job
<1>31. CASE UNCHANGED vars
  BY <1>31 DEF vars, AllKept, Kept
<1>. QED BY <1>3, <1>4, <1>5, <1>6, <1>7, <1>8, <1>9, <1>10, <1>11, <1>12,
    <1>13, <1>14, <1>15, <1>16, <1>17, <1>18, <1>19, <1>20, <1>21, <1>22,
    <1>23, <1>24, <1>25, <1>26, <1>27, <1>unmeasured, <1>28, <1>29, <1>30, <1>31
    DEF Next, Step, Rest

\* The invariant holds of every behaviour of an undisturbed job.
LEMMA UndisturbedCorrect == ASSUME Undisturbed PROVE Spec => []AllKept
<1>1. Init => AllKept
  <2>. SUFFICES ASSUME Init PROVE AllKept
    OBVIOUS
  <2>1. hasAudio = FALSE
    BY DEF Init, Undisturbed
  <2>2. /\ Kept(file) /\ dirs \subseteq Rungs /\ ~job.output.known
        /\ \A r \in Runs : Kept(state[r]) /\ Kept(beat[r])
    BY DEF Init, Kept, NewState, NoState, NoOutput
  <2>3. \A r \in Runs : Covers(pc[r], next[r], good[r], bad[r])
    BY DEF Init, Covers
  <2>. QED BY <2>1, <2>2, <2>3 DEF AllKept
<1>2. TypeOK /\ InLadder /\ AllKept /\ [Next]_vars => AllKept'
  BY AllKeptStep
<1>. QED BY <1>1, <1>2, TypeCorrect, PTL DEF Spec

\* COMPLETED means every quality of the ladder, for any number of executions of
\* a job, retries and resumes, as long as the input has no audio and the job's
\* files stay; with audio it does not, as TLC shows (JobExecution!CompletedMeansAll).
THEOREM CompletedMeansAllCorrect ==
    ASSUME Undisturbed PROVE Spec => []CompletedMeansAll
<1>1. AllKept => CompletedMeansAll
  BY DEF AllKept, CompletedMeansAll, Rungs
<1>. QED BY <1>1, UndisturbedCorrect, PTL

\* PARTIAL_SUCCESS too means every quality of the ladder, whatever its error says,
\* for any number of executions, retries and resumes: a partial attempt is an error
\* (stepEncoding, transcode_usecase.go:316, 687), and no status is published then
\* (JobExecution!PartialMeansAll).
THEOREM PartialMeansAllCorrect ==
    ASSUME Undisturbed PROVE Spec => []PartialMeansAll
<1>1. AllKept /\ PartialKnown => PartialMeansAll
  BY DEF AllKept, PartialKnown, PartialMeansAll, Rungs
<1>. QED BY <1>1, UndisturbedCorrect, OutputFirst, PTL
=============================================================================
