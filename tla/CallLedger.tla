----------------------------- MODULE CallLedger ------------------------------
(***************************************************************************)
(* What the door and the broker promise of a call, with no threads, no     *)
(* counter and no tables: every call has one fate, and changes it one way. *)
(* Where calls are metered, an account pays for no more of them than the   *)
(* ceiling, a call is paid for at most once and before anything is done    *)
(* for it, and one that is refused has not been paid for.  A call runs     *)
(* once, and its row goes to one place.                                    *)
(***************************************************************************)
EXTENDS Naturals, FiniteSets

CONSTANTS Calls, Accounts, Ceiling

VARIABLES
  paid, \* account -> the calls it pays for
  fate  \* what has become of each call

ledgerVars == <<paid, fate>>

\* Where a call is before the tool is entered: paid for, if it has to be.
Cleared == IF Ceiling > 0 THEN "charged" ELSE "open"

Becomes(n, what) == fate' = [fate EXCEPT ![n] = what]

Init ==
  /\ paid = [k \in Accounts |-> {}]
  /\ fate = [n \in Calls |-> "open"]

Pay(n, k) ==
  /\ fate[n] = "open" /\ Ceiling > 0 /\ Cardinality(paid[k]) < Ceiling
  /\ paid' = [paid EXCEPT ![k] = @ \union {n}]
  /\ Becomes(n, "charged")

Refuse(n) == fate[n] = "open" /\ Becomes(n, "refused") /\ UNCHANGED paid

Run(n) == fate[n] = Cleared /\ Becomes(n, "running") /\ UNCHANGED paid

\* The row of a call that ran, or that could not; without the database only a
\* call that ran has one.
Record(n) ==
  fate[n] \in {Cleared, "running"} /\ Becomes(n, "recorded") /\ UNCHANGED paid
File(n) == fate[n] = "running" /\ Becomes(n, "filed") /\ UNCHANGED paid

\* The process dies: nothing is ever known of the call again.
Lose(n) ==
  /\ fate[n] \in {"open", "charged", "running"}
  /\ Becomes(n, "lost") /\ UNCHANGED paid

\* A step is about one call, and something becomes of it.
Next ==
  \E n \in Calls :
    /\ fate'[n] # fate[n]
    /\ \/ \E k \in Accounts : Pay(n, k)
       \/ Refuse(n) \/ Run(n) \/ Record(n) \/ File(n) \/ Lose(n)

Spec == Init /\ [][Next]_ledgerVars
=============================================================================
