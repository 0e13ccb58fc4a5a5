\* Two threads and two consents of one person to one client, two names to give.
\* Codes and tokens run out, so the system may stop.
CONSTANTS
    w1 = w1
    w2 = w2
    c1 = c1
    c2 = c2
    k1 = k1
    p1 = p1
    Workers <- MCWorkers
    Codes <- MCCodes
    Clients <- MCClients
    People <- MCPeople
    NameAttempts = 2
    MaxTokens = 3
    MaxTroubles = 2
SPECIFICATION Spec
SYMMETRY MCSymmetry
INVARIANTS OneTokenPerConsent ReplayRevokes MintedForTheActive
CHECK_DEADLOCK FALSE
