--------------------------- MODULE MCOAuthServer ---------------------------
(* The OAuth server for TLC.                                                *)
EXTENDS OAuthServer, TLC

CONSTANTS w1, w2, c1, c2, k1, p1

MCWorkers  == {w1, w2}
MCCodes    == {c1, c2}
MCClients  == {k1}
MCPeople   == {p1}
MCSymmetry == Permutations(MCWorkers) \cup Permutations(MCCodes)
=============================================================================
