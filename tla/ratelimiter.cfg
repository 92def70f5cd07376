\* A header's value and a connection as keys, two requests at a time; a token takes two
\* units of time.
CONSTANTS
    Headers = {h}
    Connections = {c}
    Requests = {r1, r2}
    Visitors = {v1, v2, v3, v4}
    Rate = 1
    Period = 2
    Burst = 1
    Cleanup = 6
    None = None
SPECIFICATION FairSpec
INVARIANTS TypeOK KeyRateKept
PROPERTIES AskersAdmitted
