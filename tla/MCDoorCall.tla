----------------------------- MODULE MCDoorCall -----------------------------
(* DoorCall for TLC: one person's two personal tokens; threads and tokens are   *)
(* interchangeable.                                                         *)
EXTENDS DoorCall, TLC

CONSTANTS r1, r2, laptop, desktop, priya

TwoRequests == {r1, r2}
TwoTokens == {laptop, desktop}
AllSubjects == {laptop, desktop, priya}
PriyaOwnsBoth == [t \in TwoTokens |-> priya]

\* An idle thread keeps a token nothing reads, so tokens may be exchanged as well.
Symmetry == Permutations({r1, r2}) \union Permutations({laptop, desktop})

\* Everybody is granted everything at first: a grant taken back is one of the
\* troubles, and an agent without the tool is like one not granted.
GrantedAll == Init /\ grants = Owners \X Agents
SpecGranted == GrantedAll /\ [][Next]_vars
=============================================================================
