---------------------------- MODULE StorageProofs ----------------------------
(***************************************************************************)
(* Theorems about Storage, for any jobs, limits, ages and crashes.         *)
(***************************************************************************)
EXTENDS Storage, FiniteSetTheorems, TLAPS

NoneOr(S) == S \cup {None}

LEMMA ConstantFacts ==
    /\ HashOf \in [Jobs -> Hashes] /\ IsFiniteSet(Jobs)
    /\ Threshold \in Nat /\ Margin \in Nat /\ 2 * Margin <= Threshold
    /\ MaxOutputs \in Nat /\ MaxCrashes \in Nat
    /\ Dlq \notin Jobs /\ None \notin Jobs /\ None # Dlq
BY StorageAssumption

\* What is listed for a cleanup are directories.
LEMMA CleanupListTypes ==
    ASSUME NEW S, S \subseteq Names, NEW order \in SetToSeqs(S)
    PROVE  order \in Seq(Names)
<1>1. IsFiniteSet(Names)
  BY ConstantFacts, FS_Singleton, FS_Union DEF Names
<1>2. IsFiniteSet(S)
  BY <1>1, FS_Subset
<1>3. Cardinality(S) \in Nat
  BY <1>2, FS_CardinalityType
<1>4. order \in [1..Cardinality(S) -> S]
  BY DEF SetToSeqs
<1>5. order \in [1..Cardinality(S) -> Names]
  BY <1>4
<1> QED
  BY <1>3, <1>5

-----------------------------------------------------------------------------
(* Types.                                                                  *)

LEMMA SaveStateTypes ==
    ASSUME TypeOK, NEW j \in Jobs, NEW st \in StateStatus, NEW out \in BOOLEAN,
           SaveState(j, st, out)
    PROVE  dir' \in [Names -> Directory \cup {None}]
<1>1. [status |-> st, output |-> out] \in Directory
  BY DEF Directory
<1> QED
  BY <1>1 DEF TypeOK, SaveState, Names

LEMMA DirectoryTypes ==
    ASSUME TypeOK, NEW n \in Names
    PROVE  /\ HasOutput(n) \in BOOLEAN
           /\ dir[n] # None => /\ dir[n].status \in StateStatus
                              /\ dir[n].output \in BOOLEAN
BY DEF TypeOK, Directory, HasOutput

LEMMA TypesInitially == Init => TypeOK
<1> SUFFICES ASSUME Init PROVE TypeOK
  OBVIOUS
<1>1. DlqDirectory \in Directory
  BY DEF DlqDirectory, Directory, StateStatus
<1>2. dir \in [Names -> Directory \cup {None}]
  BY <1>1 DEF Init
<1>3. /\ cache \in [Hashes -> Jobs \cup {None}]
      /\ file \in {None} \cup [Hashes -> Jobs \cup {None}] /\ saving \in BOOLEAN
  BY DEF Init
<1>4. /\ phase \in [Jobs -> Phase] /\ mark \in [Jobs -> StateStatus]
      /\ wrote \in [Jobs -> 0..MaxOutputs]
      /\ known \subseteq Jobs /\ gone \subseteq Jobs
      /\ deleting \in [Jobs -> {"no", "at_rest", "crossed"}]
  BY ConstantFacts DEF Init, Phase, StateStatus
<1>5. /\ list \in Seq(Names) /\ target \in 0..Threshold
      /\ orphans \subseteq Jobs /\ crashes \in 0..MaxCrashes /\ finished \subseteq Jobs
  BY ConstantFacts DEF Init
<1> QED
  BY <1>2, <1>3, <1>4, <1>5 DEF TypeOK

LEMMA JobTypes ==
    ASSUME TypeOK, NEW j \in Jobs, JobStep(j)
    PROVE  TypeOK'
<1>0. HasOutput(j) \in BOOLEAN /\ (dir[j] # None => dir[j] \in Directory)
  BY DirectoryTypes DEF TypeOK, Names
<1> USE ConstantFacts DEF record, others, cleaner, dedup
<1>1. CASE Create(j)
  BY <1>1 DEF Create, TypeOK, Phase
<1>2. CASE NextAttempt(j)
  <2>1. dir' \in [Names -> Directory \cup {None}]
    BY <1>2, SaveStateTypes DEF NextAttempt, StateStatus, TypeOK
  <2>2. mark' \in [Jobs -> StateStatus]
    BY <1>2, <1>0 DEF NextAttempt, TypeOK, StateStatus, Directory
  <2>3. AttemptLeadsTo(j) \subseteq Phase
    BY <1>2 DEF NextAttempt, AttemptLeadsTo, Phase, AtRest
  <2>4. phase' \in [Jobs -> Phase]
    BY <1>2, <2>3 DEF NextAttempt, TypeOK
  <2> QED
    BY <1>2, <2>1, <2>2, <2>4 DEF NextAttempt, TypeOK
<1>3. CASE PassDuplicateCheck(j)
  <2>1. dir' \in [Names -> Directory \cup {None}]
    BY <1>3, <1>0, SaveStateTypes DEF PassDuplicateCheck, TypeOK
  <2> QED
    BY <1>3, <2>1 DEF PassDuplicateCheck, TypeOK, Phase, AtRest
<1>4. CASE Reuse(j)
  <2>1. dir' \in [Names -> Directory \cup {None}]
    BY <1>4, <1>0, SaveStateTypes DEF Reuse, StateStatus, TypeOK
  <2> QED
    BY <1>4, <2>1 DEF Reuse, TypeOK, Phase, AtRest
<1>5. CASE Encode(j)
  <2>1. dir' \in [Names -> Directory \cup {None}]
    BY <1>5, SaveStateTypes DEF Encode, TypeOK
  <2>2. wrote' \in [Jobs -> 0..MaxOutputs]
    BY <1>5 DEF Encode, TypeOK
  <2> QED
    BY <1>5, <2>1, <2>2 DEF Encode, TypeOK
<1>6. CASE Heartbeat(j)
  <2>1. (IF dir[j] = None THEN mark[j] ELSE dir[j].status) \in StateStatus
    BY <1>0 DEF TypeOK, Directory
  <2>2. dir' \in [Names -> Directory \cup {None}]
    BY <1>6, <2>1, <1>0, SaveStateTypes DEF Heartbeat
  <2> QED
    BY <1>6, <2>2 DEF Heartbeat, TypeOK, running
<1>7. CASE ExceedLimit(j)
  <2>1. (j \in Stuck /\ HasOutput(j)) \in BOOLEAN
    BY <1>0
  <2>2. dir' \in [Names -> Directory \cup {None}]
    BY <1>7, <2>1, SaveStateTypes DEF ExceedLimit, StateStatus
  <2> QED
    BY <1>7, <2>2 DEF ExceedLimit, TypeOK, StateStatus
<1>8. CASE Publish(j)
  BY <1>8 DEF Publish, TypeOK, Phase
<1>9. CASE Store(j)
  BY <1>9 DEF Store, TypeOK, Phase
<1>10. CASE Finish(j)
  <2>1. dir' \in [Names -> Directory \cup {None}]
    BY <1>10, <1>0, SaveStateTypes DEF Finish, StateStatus, TypeOK
  <2>2. phase' \in [Jobs -> Phase]
    BY <1>10 DEF Finish, TypeOK, Phase, AtRest
  <2>3. file' \in {None} \cup [Hashes -> Jobs \cup {None}] /\ saving' \in BOOLEAN
    BY <1>10 DEF Finish, TypeOK
  <2> QED
    BY <1>10, <2>1, <2>2, <2>3 DEF Finish, TypeOK
<1>11. CASE GiveUp(j)
  BY <1>11 DEF GiveUp, TypeOK, Phase, AtRest
<1> QED
  BY <1>1, <1>2, <1>3, <1>4, <1>5, <1>6, <1>7, <1>8, <1>9, <1>10, <1>11 DEF JobStep

LEMMA RequestTypes ==
    ASSUME TypeOK, NEW j \in Jobs, Request(j)
    PROVE  TypeOK'
<1> USE DEF record, others, cleaner, dedup
<1>1. CASE ResumeCheck(j)
  BY <1>1 DEF ResumeCheck, TypeOK, Phase
<1>2. CASE ResumeSend(j)
  BY <1>2 DEF ResumeSend, TypeOK, Phase
<1>3. CASE DeleteFiles(j)
  BY <1>3 DEF DeleteFiles, Finds, TypeOK, running
<1>4. CASE DeleteRecord(j)
  BY <1>4 DEF DeleteRecord, TypeOK, running
<1> QED
  BY <1>1, <1>2, <1>3, <1>4 DEF Request

LEMMA CleanupTypes ==
    ASSUME TypeOK, AutoCleanup \/ CleanupNext \/ CleanupEnds
    PROVE  TypeOK'
<1> USE ConstantFacts
<1>1. CASE AutoCleanup
  <2>1. list' \in Seq(Names)
    BY <1>1, CleanupListTypes DEF AutoCleanup, Present
  <2>2. target' \in {Threshold - 2 * Margin, Threshold - Margin}
    BY <1>1 DEF AutoCleanup
  <2>3. target' \in 0..Threshold
    BY <2>2
  <2> QED
    BY <1>1, <2>1, <2>3 DEF AutoCleanup, TypeOK, dedup, running, record
<1>2. CASE CleanupNext
  <2>1. Head(list) \in Names /\ list' \in Seq(Names)
    BY <1>2 DEF CleanupNext, TypeOK
  <2>2. dir' \in [Names -> Directory \cup {None}] 
    BY <1>2, <2>1 DEF CleanupNext, TypeOK
  <2> QED
    BY <1>2, <2>1, <2>2 DEF CleanupNext, TypeOK, dedup, running, record
<1>3. CASE CleanupEnds
  BY <1>3 DEF CleanupEnds, TypeOK, dedup, running, record
<1> QED
  BY <1>1, <1>2, <1>3

LEMMA RestartTypes ==
    ASSUME TypeOK, Restart
    PROVE  TypeOK'
<1> USE ConstantFacts
<1>1. dir' \in [Names -> Directory \cup {None}]
  BY DEF Restart, TypeOK, DlqDirectory, Directory, StateStatus
<1>2. phase' \in [Jobs -> Phase] /\ cache' \in [Hashes -> Jobs \cup {None}]
  BY DEF Restart, TypeOK, Phase, AtRest
<1>3. orphans' \subseteq Jobs /\ crashes' \in 0..MaxCrashes
  BY DEF Restart, TypeOK, Orphaned
<1>4. list' \in Seq(Names) /\ target' \in 0..Threshold
  BY DEF Restart
<1>5. mark' \in [Jobs -> StateStatus] /\ wrote' \in [Jobs -> 0..MaxOutputs]
  BY DEF Restart, StateStatus
<1> QED
  BY <1>1, <1>2, <1>3, <1>4, <1>5 DEF Restart, TypeOK

LEMMA OrphanTypes ==
    ASSUME TypeOK, NEW j \in Jobs, ResumeOrphan(j)
    PROVE  TypeOK'
BY DEF ResumeOrphan, TypeOK, Phase, dedup, cleaner, record

\* Every variable keeps its type: the cleanup's list names directories, and the
\* status it reads is one that SaveState writes or "unknown" (getJobsForCleanup).
THEOREM TypeCorrect == Spec => []TypeOK
<1>1. Init => TypeOK
  BY TypesInitially
<1>2. TypeOK /\ [Next]_vars => TypeOK'
  <2> SUFFICES ASSUME TypeOK, [Next]_vars PROVE TypeOK'
    OBVIOUS
  <2>1. CASE UNCHANGED vars
    BY <2>1 DEF TypeOK, vars, dedup, running, cleaner, record, others
  <2> QED
    BY <2>1, JobTypes, RequestTypes, CleanupTypes, RestartTypes, OrphanTypes DEF Next, Panic
<1> QED
  BY <1>1, <1>2, PTL DEF Spec

-----------------------------------------------------------------------------
(* The deduplication cache.                                                *)

StoresFinished == \A j \in Jobs : phase[j] = "published" => j \in finished

\* What Store is given has been published (SetMetadata, then Store).
LEMMA StoresFinishedCorrect == Spec => []StoresFinished
<1>1. Init => StoresFinished
  BY DEF Init, StoresFinished
<1>2. TypeOK /\ StoresFinished /\ [Next]_vars => StoresFinished'
  <2> SUFFICES ASSUME TypeOK, StoresFinished, [Next]_vars,
                      NEW k \in Jobs, phase'[k] = "published"
               PROVE  k \in finished'
    BY DEF StoresFinished
  <2>1. ASSUME NEW j \in Jobs, JobStep(j)
        PROVE  k \in finished'
    BY <2>1 DEF TypeOK, StoresFinished, JobStep, Create, NextAttempt, AttemptLeadsTo,
         PassDuplicateCheck, Reuse, Encode, Heartbeat, running, ExceedLimit, Publish,
         Store, Finish, GiveUp
  <2>2. ASSUME NEW j \in Jobs, Request(j)
        PROVE  k \in finished'
    BY <2>2 DEF TypeOK, StoresFinished, Request, ResumeCheck, ResumeSend, DeleteFiles,
         DeleteRecord, running
  <2>3. CASE AutoCleanup \/ CleanupNext \/ CleanupEnds \/ UNCHANGED vars
    BY <2>3 DEF StoresFinished, AutoCleanup, CleanupNext, CleanupEnds, vars, running
  <2>4. ~Restart
    BY DEF Restart
  <2>5. ASSUME NEW j \in Jobs, ResumeOrphan(j)
        PROVE  k \in finished'
    BY <2>5 DEF TypeOK, StoresFinished, ResumeOrphan
  <2> QED
    BY <2>1, <2>2, <2>3, <2>4, <2>5 DEF Next, Panic
<1> QED
  BY <1>1, <1>2, TypeCorrect, PTL DEF Spec

\* A name in the cache is one that finished, and is there for good.
LEMMA StoreKeepsSound ==
    ASSUME TypeOK, CacheSound, StoresFinished, NEW j \in Jobs, Store(j)
    PROVE  CacheSound'
<1>1. finished' = finished /\ j \in finished
  BY DEF Store, StoresFinished
<1>2. cache' = [cache EXCEPT ![HashOf[j]] = j] /\ file' = None
  BY DEF Store
<1>3. Sound(cache)'
  BY <1>1, <1>2 DEF TypeOK, CacheSound, Sound
<1> QED
  BY <1>2, <1>3 DEF CacheSound

\* The cache and its file name for a hash only a job of that hash that has
\* published an output: through crashes that tear the file and duplicates that
\* complete without one (Store, load, stepDeduplication).
THEOREM CacheSoundCorrect == Spec => []CacheSound
<1>1. Init => CacheSound
  BY DEF Init, CacheSound, Sound
<1>2. TypeOK /\ StoresFinished /\ CacheSound /\ [Next]_vars => CacheSound'
  <2> SUFFICES ASSUME TypeOK, StoresFinished, CacheSound, [Next]_vars
               PROVE  CacheSound'
    OBVIOUS
  <2>1. ASSUME NEW j \in Jobs, Publish(j)
        PROVE  CacheSound'
    BY <2>1 DEF Publish, CacheSound, Sound, dedup
  <2>2. ASSUME NEW j \in Jobs, Finish(j)
        PROVE  CacheSound'
    BY <2>2 DEF Finish, CacheSound, Sound
  <2>3. CASE Restart
    <3>1. finished' = finished /\ file' = file
      BY <2>3 DEF Restart
    <3>2. Sound(cache)'
      BY <2>3, <3>1 DEF Restart, CacheSound, Sound
    <3> QED
      BY <3>1, <3>2 DEF CacheSound, Sound
  <2>4. ASSUME UNCHANGED <<cache, file, finished>>
        PROVE  CacheSound'
    BY <2>4 DEF CacheSound, Sound
  <2>5. ASSUME NEW j \in Jobs, JobStep(j)
        PROVE  Publish(j) \/ Store(j) \/ Finish(j) \/ UNCHANGED <<cache, file, finished>>
    BY <2>5 DEF JobStep, Create, NextAttempt, PassDuplicateCheck, Reuse, Encode, Heartbeat,
         ExceedLimit, GiveUp, dedup
  <2>6. ASSUME NEW j \in Jobs, Request(j) \/ ResumeOrphan(j)
        PROVE  UNCHANGED <<cache, file, finished>>
    BY <2>6 DEF Request, ResumeCheck, ResumeSend, DeleteFiles, DeleteRecord,
         ResumeOrphan, dedup
  <2>7. AutoCleanup \/ CleanupNext \/ CleanupEnds \/ UNCHANGED vars
          => UNCHANGED <<cache, file, finished>>
    BY DEF AutoCleanup, CleanupNext, CleanupEnds, vars, dedup
  <2> QED
    BY <2>1, <2>2, <2>3, <2>4, <2>5, <2>6, <2>7, StoreKeepsSound DEF Next, Panic
<1> QED
  BY <1>1, <1>2, TypeCorrect, StoresFinishedCorrect, PTL DEF Spec

-----------------------------------------------------------------------------
(* Deleted jobs.                                                           *)

\* A deletion that found the job at rest has removed its directory, and a job
\* that is gone has no record: that is why no request and no orphan reaches it.
Untouched(j) == dir[j] = None /\ phase[j] \in AtRest

DeletionInv ==
    /\ \A j \in Jobs : deleting[j] = "at_rest" => Untouched(j)
    /\ \A j \in gone : Untouched(j) /\ j \notin known
    /\ \A j \in Jobs : phase[j] = "new" => dir[j] = None /\ j \notin orphans
    /\ orphans \cap known = {}

\* The job a step is about; every other one keeps all that DeletionInv reads.
LEMMA OneJob ==
    ASSUME TypeOK, NEW j \in Jobs, JobStep(j) \/ Request(j), NEW k \in Jobs, k # j
    PROVE  /\ dir'[k] = dir[k] /\ phase'[k] = phase[k] /\ deleting'[k] = deleting[k]
           /\ k \in gone' <=> k \in gone
           /\ k \in known' <=> k \in known
<1>1. JobStep(j) => dir'[k] = dir[k] /\ phase'[k] = phase[k]
  BY DEF TypeOK, Names, SaveState, JobStep, Create, NextAttempt, PassDuplicateCheck, Reuse,
       Encode, Heartbeat, running, ExceedLimit, Publish, Store, Finish, GiveUp
<1>2. JobStep(j) => UNCHANGED <<deleting, gone>> /\ (k \in known' <=> k \in known)
  BY DEF JobStep, Create, NextAttempt, PassDuplicateCheck, Reuse, Encode, Heartbeat,
       ExceedLimit, Publish, Store, Finish, GiveUp, record
<1>3. CASE Request(j)
  BY <1>3 DEF TypeOK, Names, Request, ResumeCheck, ResumeSend, DeleteFiles, DeleteRecord,
       record, running
<1> QED
  BY <1>1, <1>2, <1>3

\* An execution's steps are not those of a job at rest.
LEMMA JobStepFacts ==
    ASSUME TypeOK, NEW j \in Jobs, JobStep(j)
    PROVE  /\ phase[j] \notin AtRest /\ phase'[j] # "new"
           /\ UNCHANGED <<deleting, gone, orphans>>
           /\ known' = known \/ (phase[j] = "new" /\ known' = known \cup {j})
<1>1. phase[j] \notin AtRest
  BY DEF JobStep, Create, NextAttempt, PassDuplicateCheck, Reuse, Encode, Heartbeat,
       ExceedLimit, Publish, Store, Finish, GiveUp, AtRest
<1>2. phase'[j] # "new"
  BY DEF TypeOK, JobStep, Create, NextAttempt, AttemptLeadsTo, PassDuplicateCheck, Reuse,
       Encode, Heartbeat, running, ExceedLimit, Publish, Store, Finish, GiveUp
<1>3. /\ UNCHANGED <<deleting, gone, orphans>>
      /\ known' = known \/ (phase[j] = "new" /\ known' = known \cup {j})
  BY DEF JobStep, Create, NextAttempt, PassDuplicateCheck, Reuse, Encode, Heartbeat,
       ExceedLimit, Publish, Store, Finish, GiveUp, record, others
<1> QED
  BY <1>1, <1>2, <1>3

LEMMA JobKeepsDeletions ==
    ASSUME TypeOK, DeletionInv, NEW j \in Jobs, JobStep(j)
    PROVE  DeletionInv'
<1>1. \A k \in Jobs : deleting'[k] = "at_rest" => k # j /\ Untouched(k)'
  BY OneJob, JobStepFacts DEF DeletionInv, Untouched
<1>2. \A k \in gone' : k # j /\ Untouched(k)' /\ k \notin known'
  BY OneJob, JobStepFacts DEF TypeOK, DeletionInv, Untouched
<1>3. \A k \in Jobs : phase'[k] = "new" => k # j /\ dir'[k] = None /\ k \notin orphans'
  BY OneJob, JobStepFacts DEF DeletionInv
<1>4. orphans' \cap known' = {}
  BY JobStepFacts DEF DeletionInv
<1> QED
  BY <1>1, <1>2, <1>3, <1>4 DEF DeletionInv

LEMMA RequestKeepsDeletions ==
    ASSUME TypeOK, DeletionInv, NEW j \in Jobs, Request(j)
    PROVE  DeletionInv'
<1>0. UNCHANGED orphans /\ known' \subseteq known
  BY DEF Request, ResumeCheck, ResumeSend, DeleteFiles, DeleteRecord, record, others
<1>1. /\ deleting'[j] = "at_rest" => Untouched(j)'
      /\ j \in gone' => Untouched(j)' /\ j \notin known'
      /\ phase'[j] = "new" => dir'[j] = None /\ phase[j] = "new"
  <2> USE DEF TypeOK, DeletionInv, Untouched
  <2>1. CASE ResumeCheck(j)
    BY <2>1 DEF ResumeCheck
  <2>2. CASE ResumeSend(j)
    BY <2>2 DEF ResumeSend, record, AtRest
  <2>3. CASE DeleteFiles(j)
    BY <2>3 DEF DeleteFiles, Finds, running, Names
  <2>4. CASE DeleteRecord(j)
    BY <2>4 DEF DeleteRecord, running
  <2> QED
    BY <2>1, <2>2, <2>3, <2>4 DEF Request
<1>2. ASSUME NEW k \in Jobs, k # j
      PROVE  /\ deleting'[k] = "at_rest" => Untouched(k)'
             /\ k \in gone' => Untouched(k)' /\ k \notin known'
             /\ phase'[k] = "new" => dir'[k] = None /\ k \notin orphans'
  BY <1>0, <1>2, OneJob DEF DeletionInv, Untouched
<1>3. gone' \subseteq Jobs
  BY RequestTypes DEF TypeOK
<1> QED
  BY <1>0, <1>1, <1>2, <1>3 DEF DeletionInv

LEMMA CleanupKeepsDeletions ==
    ASSUME TypeOK, DeletionInv, AutoCleanup \/ CleanupNext \/ CleanupEnds
    PROVE  DeletionInv'
<1>1. UNCHANGED <<phase, deleting, gone, known, orphans>>
  BY DEF AutoCleanup, CleanupNext, CleanupEnds, running, record
<1>2. \A k \in Jobs : dir[k] = None => dir'[k] = None
  BY DEF AutoCleanup, CleanupNext, CleanupEnds, TypeOK, Names
<1> QED
  BY <1>1, <1>2 DEF TypeOK, DeletionInv, Untouched

LEMMA RestartKeepsDeletions ==
    ASSUME TypeOK, DeletionInv, Restart
    PROVE  DeletionInv'
<1>1. \A k \in Jobs : dir'[k] = dir[k]
  BY ConstantFacts DEF Restart, TypeOK, Names
<1>2. \A k \in Jobs : deleting'[k] # "at_rest" /\ (phase'[k] = "new" <=> phase[k] = "new")
                      /\ (phase[k] # "new" => phase'[k] \in AtRest)
  BY DEF Restart, AtRest
<1>3. gone' = gone /\ known' = {} /\ orphans' \subseteq {k \in Jobs : dir[k] # None}
  BY DEF Restart, Orphaned
<1>4. \A k \in gone : phase[k] # "new"
  BY DEF DeletionInv, Untouched, AtRest
<1> QED
  BY <1>1, <1>2, <1>3, <1>4 DEF TypeOK, DeletionInv, Untouched

\* Whatever resumes, cleanups and crashes follow, a job deleted at rest stays
\* without a directory and unexecuted: for any jobs (DeleteJob, ResumeJob,
\* resumeOrphanedJobs).
THEOREM DeletedForGoodCorrect == Spec => []DeletedForGood
<1>1. Init => DeletionInv
  BY ConstantFacts DEF Init, DeletionInv, Names
<1>2. TypeOK /\ DeletionInv /\ [Next]_vars => DeletionInv'
  <2> SUFFICES ASSUME TypeOK, DeletionInv, [Next]_vars PROVE DeletionInv'
    OBVIOUS
  <2>1. ASSUME NEW j \in Jobs, ResumeOrphan(j)
        PROVE  DeletionInv'
    BY <2>1 DEF ResumeOrphan, DeletionInv, Untouched, record
  <2>2. CASE UNCHANGED vars
    BY <2>2 DEF DeletionInv, Untouched, vars, running, record, others
  <2> QED
    BY <2>1, <2>2, JobKeepsDeletions, RequestKeepsDeletions, CleanupKeepsDeletions,
       RestartKeepsDeletions DEF Next, Panic
<1>3. DeletionInv => DeletedForGood
  BY DEF DeletionInv, DeletedForGood, Untouched
<1> QED
  BY <1>1, <1>2, <1>3, TypeCorrect, PTL DEF Spec

=============================================================================
