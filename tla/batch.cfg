\* Two requests for one identifier or two, two jobs of which each may leave the
\* way of a single execution once.  The system stops when every request is refused.
CONSTANTS
    Requests = {q1, q2}
    BatchIds = {b1, b2}
    Jobs = {j1, j2}
    MaxFiles = 2
    MaxAgain = 1
    None = None
SPECIFICATION FairSpec
INVARIANTS TypeOK VerdictEarned
PROPERTIES BatchesKept StatusCatchesUp
CHECK_DEADLOCK FALSE
