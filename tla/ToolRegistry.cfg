\* Two threads, an MCP connector with two tools and a REST connector with none at
\* first, two administrative acts.
CONSTANTS
    t1 = t1
    t2 = t2
    jira = jira
    files = files
    n1 = n1
    n2 = n2
    Threads <- MCThreads
    Connectors <- MCConnectors
    Tools <- MCTools
    Rest <- MCRest
    Home = jira
    MaxVets = 2
SPECIFICATION Spec
SYMMETRY MCSymmetry
INVARIANTS ApprovedLately OneMeaning
