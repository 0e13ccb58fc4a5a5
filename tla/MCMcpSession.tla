---------------------------- MODULE MCMcpSession ----------------------------
(* One MCP session for TLC.                                                 *)
EXTENDS McpSession, TLC

CONSTANTS t1, t2

MCThreads  == {t1, t2}

\* One thread calls again after its first call, the other only meets it.
MCCalls    == [t \in MCThreads |-> IF t = t1 THEN 2 ELSE 1]
MCOneCall  == [t \in MCThreads |-> 1]
=============================================================================
