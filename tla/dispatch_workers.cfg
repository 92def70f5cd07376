\* Two jobs and one worker.
CONSTANTS
    Jobs = {j1, j2}
    Workers = {w1}
    QueueCapacity = 1
    MaxResumes = 0
    NoJob = NoJob
SPECIFICATION Spec
INVARIANT WorkersBounded
