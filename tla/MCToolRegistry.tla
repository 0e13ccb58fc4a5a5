--------------------------- MODULE MCToolRegistry ---------------------------
(* The tool registry for TLC.                                               *)
EXTENDS ToolRegistry, TLC

CONSTANTS t1, t2, jira, files, n1, n2

MCThreads    == {t1, t2}
MCConnectors == {jira, files}
MCTools      == {n1, n2}
MCRest       == {files}
OneConnector == {jira}
NoRest       == {}
OneThread    == {t1}
MCSymmetry   == Permutations(MCThreads) \cup Permutations(MCTools)
=============================================================================
