-------------------------- MODULE MCOAuthConnection --------------------------
(* One person's connection for TLC: two renewing threads, one redirect.     *)
EXTENDS OAuthConnection

CONSTANTS w1, w2, f1, f2, c1, c2

MCThreads == {w1, w2}
MCFlows == {f1}
MCCallbacks == {c1, c2}
=============================================================================
