------------------------------ MODULE JobTypes ------------------------------
(***************************************************************************)
(* The job's data: the status a client polls, the JobState record that is  *)
(* persisted as outputs/<id>/state.json, and the retry table.              *)
(* pkg/types/job.go, pkg/types/state.go, pkg/types/retry.go and the error  *)
(* classification of the transcode use case.                               *)
(***************************************************************************)
EXTENDS Naturals, Sequences

JobStatus == {"QUEUED", "RUNNING", "COMPLETED", "PARTIAL_SUCCESS", "FAILED"}

-----------------------------------------------------------------------------
(* The persisted state.  Only the steps some code marks are listed: no     *)
(* code marks "validation" or the per-quality encoding steps.              *)

EncodingStep == {"hash_computation", "deduplication", "analysis",
                 "master_playlist", "cleanup", "finalization"}

StateStatus == {"processing", "completed", "partial_success", "failed"}

\* CreateState: what a job that has no state file starts from.
NewState == [status |-> "processing", steps |-> {}, complete |-> {}, failed |-> {}]

\* The value that stands for a missing state file.
NoState == [status |-> "absent", steps |-> {}, complete |-> {}, failed |-> {}]

JobState(qualities) ==
    [status : StateStatus, steps : SUBSET EncodingStep,
     complete : SUBSET qualities, failed : SUBSET qualities]

\* Mutant: the list is replaced instead of extended.
MarkOnlyThisStep(s, step) == [s EXCEPT !.steps = {step}]

MarkStepCompleted(s, step) == [s EXCEPT !.steps = @ \cup {step}]
MarkQualityCompleted(s, q) == [s EXCEPT !.complete = @ \cup {q}]
MarkQualityFailed(s, q)    == [s EXCEPT !.failed = @ \cup {q}]

-----------------------------------------------------------------------------
(* Every way process() can return, and the error text each one carries.    *)
(* contains() finds a keyword only when it is the whole text, its prefix,  *)
(* its suffix, or its prefix after one character, so of each text only the *)
(* first and the last word matter; the last word of a wrapped error is the *)
(* operating system's.                                                     *)

Failure == {"state", "gone", "hash", "no_hash", "probe", "disk_limit",
            "enforced_limit", "unmeasured", "all_failed", "master", "partial",
            "separate_av"}

ErrorText == [f \in Failure |->
    CASE f = "state"          -> [first |-> "failed",   last |-> "device"]
      [] f = "gone"           -> [first |-> "job",      last |-> "found"]
      [] f = "hash"           -> [first |-> "failed",   last |-> "directory"]
      [] f = "no_hash"        -> [first |-> "hash",     last |-> "computed"]
      [] f = "probe"          -> [first |-> "failed",   last |-> "1"]
      [] f = "disk_limit"     -> [first |-> "job",      last |-> "MB"]
      [] f = "enforced_limit" -> [first |-> "encoding", last |-> "MB"]
      [] f = "unmeasured"     -> [first |-> "encoding", last |-> "directory"]
      [] f = "all_failed"     -> [first |-> "encoding", last |-> "failed"]
      [] f = "master"         -> [first |-> "encoding", last |-> "directory"]
      [] f = "partial"        -> [first |-> "partial",  last |-> "qualities"]
      [] f = "separate_av"    -> [first |-> "separate", last |-> "1"]]

contains(text, keyword) == keyword \in {text.first, text.last}

extractErrorCode(f) ==
    CASE contains(ErrorText[f], "resolution") -> "ERR_RESOLUTION_DETECT_FAILED"
      [] contains(ErrorText[f], "disk")       -> "ERR_DISK_FULL"
      [] contains(ErrorText[f], "permission") -> "ERR_PERMISSION_DENIED"
      [] contains(ErrorText[f], "I/O") \/ contains(ErrorText[f], "io")
                                              -> "ERR_IO_ERROR"
      [] OTHER                                -> "ERR_FFMPEG_FAILED"

\* The retry table, backoff in seconds (only the codes extractErrorCode returns
\* and the class the table gives the job size limit).
GetRetryStrategy(code) ==
    CASE code = "ERR_FFMPEG_FAILED" -> [ShouldRetry |-> TRUE,  Backoff |-> <<2, 5, 10>>]
      [] code = "ERR_IO_ERROR"      -> [ShouldRetry |-> TRUE,  Backoff |-> <<3, 6, 15>>]
      [] code \in {"ERR_RESOLUTION_DETECT_FAILED", "ERR_DISK_FULL", "ERR_JOB_SIZE_EXCEEDED"}
                                    -> [ShouldRetry |-> FALSE, Backoff |-> << >>]
      [] OTHER                      -> [ShouldRetry |-> TRUE,  Backoff |-> <<2, 5>>]

\* Whether Execute may make attempt number a (a >= 1) after failure f.
MayRetry(f, a) ==
    LET strategy == GetRetryStrategy(extractErrorCode(f))
    IN  strategy.ShouldRetry /\ a <= Len(strategy.Backoff)
=============================================================================
