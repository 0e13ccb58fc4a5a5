--------------------------- MODULE MCAgentSharing ---------------------------
(* Agent sharing for TLC.                                                   *)
EXTENDS AgentSharing, TLC

CONSTANTS ada, bob, mailB, mailC, u1, u2, u3, r1, r2

MCPeople   == {ada, bob}
MCTokensOf == (ada :> {mailC}) @@ (bob :> {mailB, mailC})
MCUserIds  == {u1, u2, u3}
MCCalls == {r1, r2}
MCSymmetry == Permutations(MCUserIds) \cup Permutations(MCCalls)
=============================================================================
