--------------------------- MODULE MCKeyRotation ---------------------------
(* The key rotation for TLC.                                                *)
EXTENDS KeyRotation, TLC

CONSTANTS p1, p2, c1, a1, f1

MCProcesses    == {p1, p2}
MCConnections  == {c1}
MCApps         == {a1}
MCFlows        == {f1}
MCConnectionOf == [f \in MCFlows |-> c1]
MCSymmetry     == Permutations(MCProcesses)
=============================================================================
