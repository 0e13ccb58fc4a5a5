\* One MCP connector and one thread: no race, and a review of what the audit hashes.
CONSTANTS
    t1 = t1
    t2 = t2
    jira = jira
    files = files
    n1 = n1
    n2 = n2
    Threads <- OneThread
    Connectors <- OneConnector
    Tools <- MCTools
    Rest <- NoRest
    Home = jira
    MaxVets = 2
SPECIFICATION Spec
INVARIANT RevetTakesEffect
