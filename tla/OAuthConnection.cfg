\* Two renewals and one reconnect, two losses of any kind.
\* What is bounded runs out, so the system may stop.
CONSTANTS
    w1 = w1
    w2 = w2
    f1 = f1
    f2 = f2
    c1 = c1
    c2 = c2
    Threads <- MCThreads
    Flows <- MCFlows
    Callbacks <- MCCallbacks
    MaxIssued = 3
    MaxRefreshes = 2
    MaxAges = 2
    MaxMishaps = 2
SPECIFICATION ConnFairSpec
INVARIANTS ReuseOnlyAfterTrouble NoSilentBreak OneExchangePerCode
PROPERTIES RefreshStaysInGrant LockIsFreed
CHECK_DEADLOCK FALSE
