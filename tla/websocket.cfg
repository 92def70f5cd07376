\* Two connections and two executions, of one job or of two.
CONSTANTS
    c1 = c1
    c2 = c2
    s1 = s1
    s2 = s2
    j1 = j1
    j2 = j2
    Conns = {c1, c2}
    Senders = {s1, s2}
    Jobs = {j1, j2}
    Topics <- MCTopics
    None = None
SPECIFICATION FairSpec
INVARIANTS TypeOK NoWriteAfterClose AllConnectedWritten
PROPERTIES BroadcastsEnd HandlersLeave
