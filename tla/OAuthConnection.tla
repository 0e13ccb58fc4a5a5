--------------------------- MODULE OAuthConnection ---------------------------
(***************************************************************************)
(* One person's connection to one provider: access/oauth.py refresh,        *)
(* begin, complete and disconnect, access/connections.py, and the rows of   *)
(* connections and pending_authorizations.                                  *)
(*                                                                         *)
(* Threads are those, over all replicas, that need the connection and      *)
(* renew it first.  The provider's side is external: a renewal may rotate   *)
(* the refresh token or keep it, a refusal may end the whole grant (a spent *)
(* token that comes back is a breach signal), a new consent may end the     *)
(* earlier ones.  Refresh tokens are numbered as they are issued; 0 is none.*)
(* The access token is whether it is fresh, not within the skew of expiry.  *)
(* The compare-and-set on updated_at is whether the row is still the one    *)
(* that was read: now() is not given out twice.                             *)
(***************************************************************************)
EXTENDS Integers, FiniteSets

CONSTANTS
  Threads,      \* threads that renew the connection
  Flows,        \* consent flows, each one state parameter
  Callbacks,    \* threads that serve the provider's redirects
  MaxIssued,    \* bound: refresh tokens the provider issues
  MaxRefreshes, \* bound: renewals that begin
  MaxAges,      \* bound: times the access token grows old
  MaxMishaps    \* bound: lost answers, lost locks, crashes, withdrawals, pastes

ASSUME BoundsAssumption ==
  /\ MaxIssued \in Nat \ {0} /\ MaxRefreshes \in Nat /\ MaxAges \in Nat
  /\ MaxMishaps \in Nat

Nobody == "nobody"
ASSUME ThreadsAssumption == Nobody \notin Threads

Tokens == 1..MaxIssued
Held == 0..MaxIssued

VARIABLES
  row,       \* the row of connections
  lock,      \* who holds the advisory lock
  worker,    \* what each renewing thread holds
  pending,   \* the flows with a row in pending_authorizations
  begun, overdue,   \* flows that were begun; those older than PENDING_TTL
  callback,  \* what each redirect's thread holds
  leaving,   \* what the person's disconnect holds
  live,      \* provider: the refresh tokens it accepts
  grant,     \* provider: the consent a token descends from
  issued,    \* provider: tokens issued
  refreshes, ages, mishaps,   \* counters of what the bounds bound
  posted,    \* history: redirects that went on to exchange the code of a flow
  rotated,   \* history: tokens that were spent for a new one
  reused,    \* history: spent tokens that were presented again
  torn,      \* history: tokens whose renewal was cut short (see Properties)
  ended      \* history: grants that somebody ended

ours == <<row, lock>>
flows == <<pending, begun, overdue, callback, posted>>
provider == <<live, grant, issued>>
counters == <<refreshes, ages, mishaps>>
connHistory == <<rotated, reused, torn, ended>>
connVars == <<ours, worker, flows, leaving, provider, counters, connHistory>>

\* find_connection returns None, a pasted token, or a consented one.
NotConnected == [kind |-> "none", token |-> 0, fresh |-> TRUE, flagged |-> FALSE]
Rows == [kind : {"none", "static", "oauth"}, token : Held, fresh : BOOLEAN,
         flagged : BOOLEAN]
OAuthRow(t) == [kind |-> "oauth", token |-> t, fresh |-> TRUE, flagged |-> FALSE]

\* A renewing thread: the token it read, whether the row is still as it was
\* read, the token it stores, and whether its lock was lost under it.
Resting == [pc |-> "idle", token |-> 0, same |-> FALSE, next |-> 0, strayed |-> FALSE]
Critical == {"read", "ask", "store", "mark"}
WorkerStates == [pc : Critical \union {"idle", "lock", "wait"}, token : Held,
                 same : BOOLEAN, next : Held, strayed : BOOLEAN]

NoCallback == [pc |-> "idle", token |-> 0]
CallbackStates == [pc : {"idle", "exchange", "save"}, token : Held]

Family(t) == {u \in 1..issued : grant[u] = grant[t]}

\* Every write of the row moves updated_at.
Rewrite(r) ==
  /\ row' = r
  /\ worker' = [w \in Threads |-> [worker[w] EXCEPT !.same = FALSE]]

ConnInit ==
  /\ \/ row = NotConnected /\ issued = 0 /\ live = {}
     \/ row = OAuthRow(1) /\ issued = 1 /\ live = {1}
  /\ grant = [t \in Tokens |-> t]
  /\ lock = Nobody
  /\ worker = [w \in Threads |-> Resting]
  /\ pending = {} /\ begun = {} /\ overdue = {}
  /\ callback = [c \in Callbacks |-> NoCallback]
  /\ leaving = [pc |-> "no", token |-> 0]
  /\ refreshes = 0 /\ ages = 0 /\ mishaps = 0
  /\ posted = [f \in Flows |-> 0]
  /\ rotated = {} /\ reused = {} /\ torn = {} /\ ended = {}

-----------------------------------------------------------------------------
(* The provider's token endpoint. *)

\* A live token is renewed: kept (given is 0), or spent for a new one.
Renew(t, given) ==
  /\ t \in live
  /\ \/ given = 0 /\ UNCHANGED <<provider, rotated>>
     \/ /\ issued < MaxIssued /\ given = issued + 1
        /\ issued' = given
        /\ live' = (live \ {t}) \union {given}
        /\ grant' = [grant EXCEPT ![given] = grant[t]]
        /\ rotated' = rotated \union {t}

\* invalid_grant; a provider may take it for a breach and end the grant.
Refuse(t) ==
  /\ t \notin live
  /\ \/ UNCHANGED <<live, ended>>
     \/ live' = live \ Family(t) /\ ended' = ended \union {grant[t]}
  /\ reused' = reused \union ({t} \intersect rotated)
  /\ UNCHANGED <<grant, issued>>

-----------------------------------------------------------------------------
(* refresh_connection. *)

Begin(w) ==
  /\ worker[w].pc = "idle" /\ refreshes < MaxRefreshes
  /\ refreshes' = refreshes + 1
  /\ worker' = [worker EXCEPT ![w].pc = "lock"]
  /\ UNCHANGED <<ours, flows, leaving, provider, ages, mishaps, connHistory>>

\* pg_try_advisory_xact_lock: the loser learns at once that it lost.
TryLock(w) ==
  /\ worker[w].pc = "lock"
  /\ IF lock = Nobody
     THEN lock' = w /\ worker' = [worker EXCEPT ![w].pc = "read"]
     ELSE UNCHANGED lock /\ worker' = [worker EXCEPT ![w].pc = "wait"]
  /\ UNCHANGED <<row, flows, leaving, provider, counters, connHistory>>

\* _wait_for_the_winner: until the row is settled or the bound has passed, and
\* then whatever the row holds is used.  (Mutant: the loser renews as well.)
Wait_Renews(w) ==
  /\ worker[w].pc = "wait"
  /\ worker' = [worker EXCEPT ![w].pc = "read"]
  /\ UNCHANGED <<ours, flows, leaving, provider, counters, connHistory>>
Wait(w) ==
  /\ worker[w].pc = "wait"
  /\ worker' = [worker EXCEPT ![w] = Resting]
  /\ UNCHANGED <<ours, flows, leaving, provider, counters, connHistory>>

\* The with block is left, by a return or by raising: the transaction ends and
\* the lock with it.  (Mutant: a lock of the session, kept by the pool.)
Unlock_Session(w) == lock' = lock
Unlock(w) == lock' = IF lock = w THEN Nobody ELSE lock
Done(w) == Unlock(w) /\ worker' = [worker EXCEPT ![w] = Resting]

\* The row is read inside the lock; most reads find nothing to renew.
Renewable == row.kind = "oauth" /\ ~row.flagged /\ ~row.fresh
Read(w) ==
  /\ worker[w].pc = "read"
  /\ \/ ~Renewable /\ Done(w) /\ UNCHANGED torn
     \/ /\ Renewable
        /\ worker' = [worker EXCEPT ![w].pc = IF row.token = 0 THEN "mark" ELSE "ask",
                                    ![w].token = row.token, ![w].same = TRUE]
        /\ torn' = IF worker[w].strayed THEN torn \union ({row.token} \ {0}) ELSE torn
        /\ UNCHANGED lock
  /\ UNCHANGED <<row, flows, leaving, provider, counters, rotated, reused, ended>>

\* A provider that omits the refresh token means: keep the one you have.
\* (Mutant: the old one is kept in every case.)
Keep_Old(t, given) == t
Keep(t, given) == IF given = 0 THEN t ELSE given

\* The token request, answered.
Answered(w) ==
  LET t == worker[w].token IN
  /\ worker[w].pc = "ask"
  /\ \/ /\ \E given \in Held :
             /\ Renew(t, given)
             /\ worker' = [worker EXCEPT ![w].pc = "store", ![w].next = Keep(t, given)]
        /\ UNCHANGED <<reused, ended>>
     \/ /\ Refuse(t)
        /\ worker' = [worker EXCEPT ![w].pc = "mark"]
        /\ UNCHANGED rotated
  /\ UNCHANGED <<ours, flows, leaving, counters, torn>>

\* The consent flow was removed, the host revoked, the provider down: refused
\* before the provider has seen it, and the caller goes on.
Unasked(w) ==
  /\ worker[w].pc = "ask"
  /\ Done(w)
  /\ UNCHANGED <<row, flows, leaving, provider, counters, connHistory>>

\* The provider renewed, and its answer is lost or is no token response.
AnswerLost(w) ==
  /\ worker[w].pc = "ask" /\ mishaps < MaxMishaps
  /\ mishaps' = mishaps + 1
  /\ \E given \in Held : Renew(worker[w].token, given)
  /\ torn' = torn \union {worker[w].token}
  /\ Done(w)
  /\ UNCHANGED <<row, flows, leaving, refreshes, ages, reused, ended>>

\* update_connection_credential, conditional on updated_at; a write that does
\* not land is not retried.  (Mutant: last write wins.)
Store_Blind(w) ==
  /\ worker[w].pc = "store"
  /\ row' = IF row.kind # "none" THEN OAuthRow(worker[w].next) ELSE row
  /\ worker' = [v \in Threads |-> IF v = w THEN Resting
                                  ELSE [worker[v] EXCEPT !.same = FALSE]]
  /\ Unlock(w)
  /\ UNCHANGED <<flows, leaving, provider, counters, connHistory>>
Store(w) ==
  /\ worker[w].pc = "store"
  /\ IF worker[w].same
     THEN /\ row' = OAuthRow(worker[w].next)
          /\ worker' = [v \in Threads |-> IF v = w THEN Resting
                                          ELSE [worker[v] EXCEPT !.same = FALSE]]
     ELSE UNCHANGED row /\ worker' = [worker EXCEPT ![w] = Resting]
  /\ Unlock(w)
  /\ UNCHANGED <<flows, leaving, provider, counters, connHistory>>

\* mark_connection_reconsent: whatever row is there.
Mark(w) ==
  /\ worker[w].pc = "mark"
  /\ IF row.kind # "none"
     THEN /\ row' = [row EXCEPT !.flagged = TRUE]
          /\ worker' = [v \in Threads |-> IF v = w THEN Resting
                                          ELSE [worker[v] EXCEPT !.same = FALSE]]
     ELSE UNCHANGED row /\ worker' = [worker EXCEPT ![w] = Resting]
  /\ Unlock(w)
  /\ UNCHANGED <<flows, leaving, provider, counters, connHistory>>

-----------------------------------------------------------------------------
(* begin, complete and the sweep. *)

BeginConsent(f) ==
  /\ f \notin begun
  /\ begun' = begun \union {f} /\ pending' = pending \union {f}
  /\ UNCHANGED <<ours, worker, overdue, callback, posted, leaving, provider,
                 counters, connHistory>>

GrowLate(f) ==
  /\ f \in begun \ overdue
  /\ overdue' = overdue \union {f}
  /\ UNCHANGED <<ours, worker, pending, begun, callback, posted, leaving,
                 provider, counters, connHistory>>

Sweep ==
  /\ pending \intersect overdue # {}
  /\ pending' = pending \ overdue
  /\ UNCHANGED <<ours, worker, begun, overdue, callback, posted, leaving, provider,
                 counters, connHistory>>

\* A redirect with the state of a flow: the row is deleted by the statement
\* that reads it, and only then looked at.  One that finds no row is refused.
\* (Mutant: read first, and deleted when the connection is stored.)
ConsumePending_Later(f) == UNCHANGED pending
ConsumePending(f) == pending' = pending \ {f}
Redirect(c, f) ==
  /\ callback[c].pc = "idle" /\ f \in pending
  /\ ConsumePending(f)
  /\ IF f \in overdue THEN UNCHANGED <<callback, posted>>
     ELSE /\ callback' = [callback EXCEPT ![c].pc = "exchange"]
          /\ posted' = [posted EXCEPT ![f] = @ + 1]
  /\ UNCHANGED <<ours, worker, begun, overdue, leaving, provider, counters, connHistory>>

\* The code for tokens: a new grant, perhaps in place of the earlier ones, and
\* perhaps without a refresh token.
ExchangeCode(c) ==
  /\ callback[c].pc = "exchange"
  /\ \/ /\ callback' = [callback EXCEPT ![c] = [pc |-> "save", token |-> 0]]
        /\ UNCHANGED <<provider, ended>>
     \/ /\ issued < MaxIssued
        /\ issued' = issued + 1
        /\ \/ live' = live \union {issued + 1} /\ UNCHANGED ended
           \/ live' = {issued + 1} /\ ended' = ended \union {grant[t] : t \in 1..issued}
        /\ callback' = [callback EXCEPT ![c] = [pc |-> "save", token |-> issued + 1]]
        /\ UNCHANGED grant
  /\ UNCHANGED <<ours, worker, pending, begun, overdue, posted, leaving, counters,
                 rotated, reused, torn>>

\* The exchange is refused, or its answer is lost: nothing is stored.
ExchangeFailed(c) ==
  /\ callback[c].pc = "exchange"
  /\ callback' = [callback EXCEPT ![c] = NoCallback]
  /\ UNCHANGED <<ours, worker, pending, begun, overdue, posted, leaving, provider,
                 counters, connHistory>>

\* connect_account: an upsert, and reconnecting clears the mark.
Save(c) ==
  /\ callback[c].pc = "save"
  /\ Rewrite(OAuthRow(callback[c].token))
  /\ callback' = [callback EXCEPT ![c] = NoCallback]
  /\ UNCHANGED <<lock, pending, begun, overdue, posted, leaving, provider,
                 counters, connHistory>>

-----------------------------------------------------------------------------
(* disconnect, once: revoke, then delete. *)

FindToRevoke ==
  /\ leaving.pc = "no"
  /\ leaving' = [pc |-> IF row.kind = "oauth" THEN "revoke" ELSE "delete",
                 token |-> row.token]
  /\ UNCHANGED <<ours, worker, flows, provider, counters, connHistory>>

\* Best effort: the provider may not be asked, may not answer, and for a token
\* that is already spent may have nothing to end.
Revoke ==
  /\ leaving.pc = "revoke"
  /\ leaving' = [leaving EXCEPT !.pc = "delete"]
  /\ \/ UNCHANGED <<live, ended>>
     \/ /\ leaving.token # 0
        /\ live' = live \ Family(leaving.token)
        /\ ended' = ended \union {grant[leaving.token]}
  /\ UNCHANGED <<ours, worker, flows, grant, issued, counters, rotated, reused,
                 torn>>

Delete ==
  /\ leaving.pc = "delete"
  /\ leaving' = [pc |-> "done", token |-> 0]
  /\ Rewrite(NotConnected)
  /\ UNCHANGED <<lock, flows, provider, counters, connHistory>>

-----------------------------------------------------------------------------
(* Time and trouble. *)

TokenAges ==
  /\ row.kind = "oauth" /\ row.fresh /\ ages < MaxAges
  /\ row' = [row EXCEPT !.fresh = FALSE] /\ ages' = ages + 1
  /\ UNCHANGED <<lock, worker, flows, leaving, provider, refreshes, mishaps,
                 connHistory>>

\* The database ends the transaction that holds the lock, not the thread.
LoseLock ==
  /\ lock # Nobody /\ mishaps < MaxMishaps
  /\ mishaps' = mishaps + 1
  /\ lock' = Nobody
  /\ worker' = [worker EXCEPT ![lock].strayed = TRUE]
  /\ torn' = torn \union ({worker[lock].token} \ {0})
  /\ UNCHANGED <<row, flows, leaving, provider, refreshes, ages, rotated, reused,
                 ended>>

\* A worker's process dies; the rollback frees its lock.
WorkerDies(w) ==
  /\ worker[w].pc # "idle" /\ mishaps < MaxMishaps
  /\ mishaps' = mishaps + 1
  /\ torn' = IF worker[w].pc = "store" THEN torn \union {worker[w].token} ELSE torn
  /\ worker' = [worker EXCEPT ![w] = Resting]
  /\ lock' = IF lock = w THEN Nobody ELSE lock
  /\ UNCHANGED <<row, flows, leaving, provider, refreshes, ages, rotated, reused,
                 ended>>

\* The person withdraws their consent on the provider's pages.
Withdraw ==
  /\ mishaps < MaxMishaps
  /\ mishaps' = mishaps + 1
  /\ \E t \in live :
       live' = live \ Family(t) /\ ended' = ended \union {grant[t]}
  /\ UNCHANGED <<ours, worker, flows, leaving, grant, issued, refreshes, ages,
                 rotated, reused, torn>>

\* An operator pastes a token in its place (--connect-account).
Paste ==
  /\ mishaps < MaxMishaps
  /\ mishaps' = mishaps + 1
  /\ Rewrite([NotConnected EXCEPT !.kind = "static"])
  /\ UNCHANGED <<lock, flows, leaving, provider, refreshes, ages, connHistory>>

Proceed(w) ==
  \/ TryLock(w) \/ Wait(w) \/ Read(w) \/ Answered(w) \/ Unasked(w)
  \/ Store(w) \/ Mark(w)

Consent ==
  \/ \E f \in Flows : BeginConsent(f) \/ GrowLate(f)
  \/ \E c \in Callbacks, f \in Flows : Redirect(c, f)
  \/ \E c \in Callbacks : ExchangeCode(c) \/ ExchangeFailed(c) \/ Save(c)
  \/ Sweep

ConnNext ==
  \/ \E w \in Threads : Begin(w) \/ Proceed(w) \/ AnswerLost(w) \/ WorkerDies(w)
  \/ Consent
  \/ FindToRevoke \/ Revoke \/ Delete
  \/ TokenAges \/ LoseLock \/ Withdraw \/ Paste

ConnSpec == ConnInit /\ [][ConnNext]_connVars

\* A thread that serves a call is scheduled, and a request to the provider is
\* answered or times out.
ConnFairSpec == ConnSpec /\ \A w \in Threads : WF_connVars(Proceed(w))

-----------------------------------------------------------------------------
(* Properties. *)

ConnTypeOK ==
  /\ row \in Rows /\ (row.kind = "none" => row = NotConnected)
  /\ lock \in Threads \union {Nobody}
  /\ worker \in [Threads -> WorkerStates]
  /\ pending \subseteq begun /\ begun \subseteq Flows /\ overdue \subseteq begun
  /\ callback \in [Callbacks -> CallbackStates]
  /\ leaving \in [pc : {"no", "revoke", "delete", "done"}, token : Held]
  /\ live \subseteq 1..issued /\ issued \in 0..MaxIssued
  /\ grant \in [Tokens -> Tokens]
  /\ refreshes \in 0..MaxRefreshes /\ ages \in 0..MaxAges
  /\ mishaps \in 0..MaxMishaps
  /\ posted \in [Flows -> Nat]
  /\ rotated \subseteq Tokens /\ reused \subseteq Tokens /\ torn \subseteq Tokens
  /\ ended \subseteq Tokens

\* No spent refresh token goes back to the provider, the reuse a rotating
\* provider takes for a breach, unless the renewal that spent it was cut short:
\* its answer was lost, its thread died before the row was written, or its lock
\* was lost under it.  Reconnecting, disconnecting and pasting at any moment do
\* not cause it ("it never retries"; "never refresh anyway").
ReuseOnlyAfterTrouble == reused \subseteq torn

\* "A connection broken forever with nothing anywhere saying why": an unmarked
\* row does not hold a dead refresh token, unless the grant was ended by
\* somebody, the renewal was cut short, or the thread that holds the successor
\* is about to store it and its write will land.
NoSilentBreak ==
  row.kind = "oauth" /\ ~row.flagged /\ row.token \notin live \union {0} =>
    \/ row.token \in torn \/ grant[row.token] \in ended
    \/ \E w \in Threads : /\ worker[w].pc = "store" /\ worker[w].same
                          /\ worker[w].token = row.token

\* A renewal changes the credential of the consent it read, and nothing else: it
\* never overwrites a later consent or a pasted token, and never brings back a
\* row that was deleted.
RefreshStaysInGrant ==
  [][\A w \in Threads : Store(w) /\ row' # row =>
       /\ row.kind = "oauth"
       /\ row.token # 0 /\ grant'[row'.token] = grant[row.token]]_connVars

\* A replayed redirect finds nothing: one state, one exchange of its code.
OneExchangePerCode == \A f \in Flows : posted[f] <= 1

\* A lost or raising worker cannot wedge somebody's connection.
LockIsFreed == lock # Nobody ~> lock = Nobody

\* What mark_connection_reconsent says of its missing version check: the grant
\* is gone at the provider whoever else is writing.
MarkIsTrue == row.kind = "oauth" /\ row.flagged => row.token \notin live
=============================================================================
