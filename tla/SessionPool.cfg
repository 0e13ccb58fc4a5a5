\* Two threads, three keys, room for two sessions: every retirement path is hit,
\* and the order of use decides who goes.
\* A thread that has made MaxCalls requests stops, so the system may stop.
CONSTANTS
    t1 = t1
    t2 = t2
    k1 = k1
    k2 = k2
    k3 = k3
    Threads <- MCThreads
    Keys <- MCThreeKeys
    Modes = {"call", "connect"}
    MaxSize = 2
    MaxSessions = 3
    MaxCalls = 2
    MaxResets = 0
    MaxDeaths = 0
SPECIFICATION Spec
SYMMETRY MCSymmetry
INVARIANTS BuildingIsExclusive
PROPERTIES ImplementsDirectory LeastRecentlyUsedGoes
CHECK_DEADLOCK FALSE
