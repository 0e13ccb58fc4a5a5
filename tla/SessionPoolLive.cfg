\* The lifespan resets the pool while threads build and call.
\* No symmetry: TLC may not use it with liveness.
\* A thread that has made MaxCalls requests stops, so the system may stop.
CONSTANTS
    t1 = t1
    t2 = t2
    k1 = k1
    k2 = k2
    k3 = k3
    Threads <- MCThreads
    Keys <- MCKeys
    Modes = {"call", "connect", "ensure"}
    MaxSize = 1
    MaxSessions = 2
    MaxCalls = 1
    MaxResets = 1
    MaxDeaths = 1
SPECIFICATION FairSpec
INVARIANTS SessionsStayApart
PROPERTIES RequestsEnd
CHECK_DEADLOCK FALSE
