\* Two jobs and a queue of one, so that senders block; two resumes each.
CONSTANTS
    Jobs = {j1, j2}
    Workers = {w1, w2}
    QueueCapacity = 1
    MaxResumes = 2
    NoJob = NoJob
SPECIFICATION FairSpec
INVARIANTS TypeOK StatusBacked AskedFor
PROPERTY EveryJobRuns
