\* Two agents, two names, configurations of two fields; two requests at a time.
CONSTANTS
    g1 = g1
    g2 = g2
    r1 = r1
    r2 = r2
    n1 = n1
    n2 = n2
    AgentIds <- MCAgentIds
    Names <- MCNames
    Fields <- MCFields
    Values = {a}
    Requests <- MCRequests
    MaxWrites = 4
SPECIFICATION Spec
SYMMETRY MCSymmetry
INVARIANTS LiveIsRecorded RestoreIsExact
PROPERTIES EditsBuildOnWhatWasSeen HistoryOnlyGrows
\* Everything may have been deleted, and the bound reached.
CHECK_DEADLOCK FALSE
