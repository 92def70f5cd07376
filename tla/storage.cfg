\* Two jobs with the same input, one of which cannot be removed, and a crash.
\* The system stops when every job is gone or final.
CONSTANTS
    Jobs = {j1, j2}
    Hashes = {h1}
    HashOf <- OneHash
    Stuck <- OneStuck
    Threshold = 1
    HardLimit = 2
    Margin = 0
    MaxAge = 1
    MaxOutputs = 1
    MaxCrashes = 1
    Dlq = Dlq
    None = None
SPECIFICATION FairSpec
INVARIANTS TypeOK CacheSound DeletedForGood
PROPERTIES AcceptsAgain
CHECK_DEADLOCK FALSE
