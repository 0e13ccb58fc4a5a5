\* Two threads on one session, over a pipe and over HTTP, where it expires twice:
\* a retried call can expire again.
\* No symmetry: TLC may not use it with liveness.
\* Threads stop after MaxCalls calls, so the system may stop.
CONSTANTS
    t1 = t1
    t2 = t2
    Threads <- MCThreads
    Kinds = {"http", "stdio"}
    MaxCalls <- MCCalls
    MaxExpiries = 2
    MaxFaults = 2
SPECIFICATION FairSpec
INVARIANTS NeverRunTwice OutcomeIsTrue OneExchangeAtATime
PROPERTIES CallsEnd
CHECK_DEADLOCK FALSE
