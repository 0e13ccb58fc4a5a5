\* Two processes, one row of each of three tables, two secrets stored during the rotation.
CONSTANTS
    p1 = p1
    p2 = p2
    c1 = c1
    a1 = a1
    f1 = f1
    Processes <- MCProcesses
    Connections <- MCConnections
    Apps <- MCApps
    Triggers = {}
    Flows <- MCFlows
    ConnectionOf <- MCConnectionOf
    MaxWrites = 3
    MaxTroubles = 1
SPECIFICATION Spec
SYMMETRY MCSymmetry
INVARIANTS NothingLost RenewalsLand DropStrandsNobody ReportIsTrue
