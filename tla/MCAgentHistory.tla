--------------------------- MODULE MCAgentHistory ---------------------------
(* The instance of AgentHistory that TLC checks.                           *)
EXTENDS AgentHistory, TLC

CONSTANTS g1, g2, n1, n2, r1, r2

MCAgentIds == {g1, g2}
MCNames == {n1, n2}
MCRequests == {r1, r2}
MCFields == {"system", "default_task"}

MCSymmetry == Permutations(MCAgentIds) \cup Permutations(MCNames) \cup Permutations(MCRequests)

=============================================================================
