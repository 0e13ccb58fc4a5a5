--------------------------- MODULE SessionDirectory ---------------------------
(***************************************************************************)
(* What the session pool promises its callers, with no locks, no threads   *)
(* and no closing: a directory that names at most one session per key,     *)
(* never replaces a session in place, and never brings a retired one back. *)
(***************************************************************************)
CONSTANTS Keys, Sessions, NoSession

VARIABLES
    live, \* key -> the session that serves it, or NoSession
    gone  \* sessions the directory has served and given up

dirVars == <<live, gone>>

Named == {live[k] : k \in Keys} \ {NoSession}

Init ==
    /\ live = [k \in Keys |-> NoSession]
    /\ gone = {}

\* A new session for a key that has none; other keys may lose theirs to it.
Open(k, s) ==
    /\ live[k] = NoSession
    /\ s \in Sessions \ (Named \cup gone)
    /\ \E lost \in SUBSET (Keys \ {k}) :
          /\ live' = [j \in Keys |-> IF j = k THEN s
                                     ELSE IF j \in lost THEN NoSession
                                     ELSE live[j]]
          /\ gone' = gone \cup ({live[j] : j \in lost} \ {NoSession})

\* Some keys lose their session.
Retire(lost) ==
    /\ live' = [j \in Keys |-> IF j \in lost THEN NoSession ELSE live[j]]
    /\ gone' = gone \cup ({live[j] : j \in lost} \ {NoSession})

Next ==
    \/ \E k \in Keys, s \in Sessions : Open(k, s)
    \/ \E lost \in SUBSET Keys : Retire(lost)

Spec == Init /\ [][Next]_dirVars
=============================================================================
