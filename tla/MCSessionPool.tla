--------------------------- MODULE MCSessionPool ---------------------------
(* The session pool for TLC: threads and keys as model values.              *)
EXTENDS SessionPool, TLC

CONSTANTS t1, t2, k1, k2, k3

MCThreads  == {t1, t2}
MCKeys     == {k1, k2}

\* For the order of retirement: one key more than the pool holds.
MCThreeKeys == {k1, k2, k3}

\* Threads and keys are never compared but for equality.
MCSymmetry == Permutations(MCThreads) \cup Permutations(MCThreeKeys)
=============================================================================
