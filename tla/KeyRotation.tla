---------------------------- MODULE KeyRotation ----------------------------
(***************************************************************************)
(* Moving a deployment from one sealing key to the next (rotation.py, over *)
(* core/crypto.py's LocalKeyCipher and the four sealed columns in storage).*)
(* Processes are restarted one by one onto the new key, with the old one   *)
(* still listed; an operator sweeps the rows onto the new key while the    *)
(* processes serve, and empties the list of old keys when the sweep says   *)
(* that no row names one.                                                  *)
(*                                                                         *)
(* A sealed blob is the key it names, the secret inside it, and whether it *)
(* authenticates under that key: one that was altered or copied from       *)
(* another row does not.  Every seal draws a nonce, so two blobs are the   *)
(* same bytes only when they are the same seal; a row never goes back to a *)
(* key it left, which is why key and secret identify the seal.             *)
(***************************************************************************)
EXTENDS Naturals, FiniteSets

CONSTANTS
    Processes,      \* the servers that hold keys
    Connections,    \* rows of connections: a person's credential for a connector
    Apps,           \* rows of connector_oauth
    Triggers,       \* rows of triggers
    Flows,          \* rows of pending_authorizations: consent flows, by their state
    ConnectionOf,   \* the connection each flow ends in
    MaxWrites,      \* bound: secrets ever stored
    MaxTroubles     \* bound: tables that fail part-way, sweeps that are cut short

Tables  == <<Connections, Apps, Triggers, Flows>>
Durable == Connections \cup Apps \cup Triggers
Rows    == Durable \cup Flows

ASSUME RotationAssumption ==
    /\ IsFiniteSet(Rows)
    /\ \A i, j \in 1 .. 4 : i # j => Tables[i] \cap Tables[j] = {}
    /\ ConnectionOf \in [Flows -> Connections]
    /\ MaxWrites \in Nat \ {0} /\ MaxTroubles \in Nat

\* A lost key is in no list of any process.
Keys == {"old", "new", "lost"}

VARIABLES
    row,        \* the four sealed columns
    config,     \* what each process was started with
    work,       \* the renewal or code exchange each process is in the middle of
    aged,       \* flows past PENDING_TTL_SECONDS
    begun,      \* states ever drawn: a random one is never drawn twice
    table,      \* the pass the sweep is in; 0 when none runs, 5 before the census
    fetched,    \* whether the pass has read its table
    todo,       \* the rows it read and has not come to, as it read them
    stranded,   \* durable rows the sweep reported as blocking
    failed,     \* tables the sweep did not walk to the end
    verdict,    \* the last report
    latest,     \* history: the secret each row owes its readers, 0 when it owes none
    fleet,      \* history: every process was off the old key when the sweep began
    straggled,  \* history: a row was sealed under the old key since the sweep began
    writes, troubles

store   == <<row, aged, begun>>
sweep   == <<table, fetched, todo, stranded, failed>>
history == <<latest, fleet, straggled>>
vars    == <<store, config, work, sweep, verdict, history, writes, troubles>>

NoRow     == [key |-> "none", secret |-> 0, good |-> FALSE, stamp |-> 0]
Idle      == [at |-> "idle", row |-> "none", secret |-> 0, stamp |-> 0]
NoVerdict == [given |-> FALSE, finished |-> FALSE, fleet |-> FALSE, whole |-> FALSE,
              left |-> {}, stranded |-> {}, writtenBack |-> FALSE, straggled |-> FALSE]

Present(r) == row[r] # NoRow
Blob(r)    == [key |-> row[r].key, secret |-> row[r].secret, good |-> row[r].good]

\* A deployment whose rows were sealed under the old key, some of them damaged and some
\* under a key that is gone.
Init ==
    /\ row \in [Rows -> {NoRow} \cup
                   [key : {"old", "lost"}, secret : {1}, good : BOOLEAN, stamp : {1}]]
    /\ config = [p \in Processes |-> "before"]
    /\ work = [p \in Processes |-> Idle]
    /\ aged = {} /\ begun = {f \in Flows : Present(f)}
    /\ table = 0 /\ fetched = FALSE /\ todo = {} /\ stranded = {} /\ failed = {}
    /\ verdict = NoVerdict
    /\ latest = [r \in Rows |-> IF row[r].good THEN row[r].secret ELSE 0]
    /\ fleet = FALSE /\ straggled = FALSE
    /\ writes = 1 /\ troubles = 0

-----------------------------------------------------------------------------
(* The keys a process was started with.                                    *)

CurrentKey(p) == IF config[p] = "before" THEN "old" ELSE "new"
Held(p) == CASE config[p] = "before"  -> {"old"}
             [] config[p] = "rotated" -> {"old", "new"}
             [] OTHER                 -> {"new"}

Opens(held, blob) == blob.key \in held /\ blob.good
AllMoved == \A p \in Processes : config[p] # "before"

\* Seal a fresh secret under the process's current key, and stamp the row.
Write(p, r) ==
    /\ writes < MaxWrites
    /\ writes' = writes + 1
    /\ row' = [row EXCEPT ![r] = [key |-> CurrentKey(p), secret |-> writes + 1,
                                  good |-> TRUE, stamp |-> writes + 1]]
    /\ latest' = [latest EXCEPT ![r] = writes + 1]
    /\ straggled' = (straggled \/ (table # 0 /\ CurrentKey(p) = "old"))

Gone(R) ==
    /\ row' = [r \in Rows |-> IF r \in R THEN NoRow ELSE row[r]]
    /\ latest' = [r \in Rows |-> IF r \in R THEN 0 ELSE latest[r]]

-----------------------------------------------------------------------------
(* The servers at work.                                                    *)

\* An account connected with a pasted token, a consent flow configured, a trigger made
\* or its secret rotated: the row is replaced whatever it held.
Save(p, r) ==
    /\ r \in Durable
    /\ Write(p, r)
    /\ UNCHANGED <<config, work, aged, begun, sweep, verdict, fleet, troubles>>

\* The account is disconnected, the connector or the trigger removed.
Remove(r) ==
    /\ r \in Durable /\ Present(r)
    /\ Gone({r})
    /\ UNCHANGED <<config, work, aged, begun, sweep, verdict, fleet, straggled, writes, troubles>>

\* A renewal opens the stored tokens, and then waits for the provider.
StartRenewal(p, r) ==
    /\ work[p] = Idle
    /\ Present(r) /\ Opens(Held(p), row[r])
    /\ work' = [work EXCEPT ![p] = [at |-> "renewing", row |-> r, secret |-> row[r].secret,
                                    stamp |-> row[r].stamp]]
    /\ UNCHANGED <<store, config, sweep, verdict, history, writes, troubles>>

\* It stores what the provider gave, unless the row's updated_at has moved.
Renew(p) ==
    /\ work[p].at = "renewing"
    /\ work' = [work EXCEPT ![p] = Idle]
    /\ IF row[work[p].row].stamp = work[p].stamp
       THEN Write(p, work[p].row)
       ELSE UNCHANGED <<row, latest, straggled, writes>>
    /\ UNCHANGED <<config, aged, begun, sweep, verdict, fleet, troubles>>

\* A person starts a consent flow: the row is stored before the URL is handed out.
Begin(p, f) ==
    /\ f \notin begun
    /\ begun' = begun \cup {f}
    /\ Write(p, f)
    /\ UNCHANGED <<config, work, aged, sweep, verdict, fleet, troubles>>

\* The callback deletes the row before anything else; then it may find the flow too old,
\* or sealed with a key this process does not hold.
Callback(p, f) ==
    /\ work[p] = Idle
    /\ Present(f)
    /\ Gone({f})
    /\ work' = IF f \notin aged /\ Opens(Held(p), row[f])
               THEN [work EXCEPT ![p] = [Idle EXCEPT !.at = "exchanging",
                                                     !.row = ConnectionOf[f]]]
               ELSE work
    /\ UNCHANGED <<config, aged, begun, sweep, verdict, fleet, straggled, writes, troubles>>

\* The provider exchanged the code: the account is connected.
Connect(p) ==
    /\ work[p].at = "exchanging"
    /\ work' = [work EXCEPT ![p] = Idle]
    /\ Write(p, work[p].row)
    /\ UNCHANGED <<config, aged, begun, sweep, verdict, fleet, troubles>>

\* The provider refused, or the request died.
Abandon(p) ==
    /\ work[p] # Idle
    /\ work' = [work EXCEPT ![p] = Idle]
    /\ UNCHANGED <<store, config, sweep, verdict, history, writes, troubles>>

Age(f) ==
    /\ f \in begun \ aged
    /\ aged' = aged \cup {f}
    /\ UNCHANGED <<row, begun, config, work, sweep, verdict, history, writes, troubles>>

-----------------------------------------------------------------------------
(* The operator's steps at the environment.                                *)

\* The process is restarted with the new key, and the old one listed.
Restart(p) ==
    /\ config[p] = "before"
    /\ config' = [config EXCEPT ![p] = "rotated"]
    /\ work' = [work EXCEPT ![p] = Idle]
    /\ UNCHANGED <<store, sweep, verdict, history, writes, troubles>>

\* And without it, once a sweep that began after the last such restart says so.
Drop(p) ==
    /\ config[p] = "rotated"
    /\ verdict.finished /\ verdict.fleet
    /\ config' = [config EXCEPT ![p] = "dropped"]
    /\ work' = [work EXCEPT ![p] = Idle]
    /\ UNCHANGED <<store, sweep, verdict, history, writes, troubles>>

-----------------------------------------------------------------------------
(* The sweep, run with the new key as its current one and the old key held.*)

Retired   == {"old"}
SweepHeld == {"old", "new"}

\* Abandoned flows are deleted before anything is counted.
StartSweep ==
    /\ table = 0
    /\ table' = 1 /\ fetched' = FALSE /\ todo' = {} /\ stranded' = {} /\ failed' = {}
    /\ Gone(aged)
    /\ fleet' = AllMoved /\ straggled' = FALSE
    /\ verdict' = NoVerdict
    /\ UNCHANGED <<aged, begun, config, work, writes, troubles>>

\* A pass reads every row of its table that is not under the current key, once.
Fetch ==
    /\ table \in 1 .. 4 /\ ~fetched
    /\ fetched' = TRUE
    /\ todo' = {[row |-> r, blob |-> Blob(r)] :
                   r \in {q \in Tables[table] : Present(q) /\ row[q].key # "new"}}
    /\ UNCHANGED <<store, table, stranded, failed, config, work, verdict, history, writes, troubles>>

\* Mutants: the row is written whatever it holds now; the row is stamped.
Reseal_Blind(t) ==
    /\ t \in todo
    /\ Opens(SweepHeld, t.blob)
    /\ todo' = todo \ {t}
    /\ row' = IF Present(t.row)
              THEN [row EXCEPT ![t.row].key = "new", ![t.row].secret = t.blob.secret]
              ELSE row
    /\ UNCHANGED <<aged, begun, config, work, table, fetched, stranded, failed, verdict,
                   history, writes, troubles>>

Reseal_Stamped(t) ==
    /\ t \in todo
    /\ Opens(SweepHeld, t.blob)
    /\ todo' = todo \ {t}
    /\ row' = IF Present(t.row) /\ Blob(t.row) = t.blob
              THEN [row EXCEPT ![t.row].key = "new", ![t.row].stamp = 0]
              ELSE row
    /\ UNCHANGED <<aged, begun, config, work, table, fetched, stranded, failed, verdict,
                   history, writes, troubles>>

\* The row is sealed again, if it is still the blob that was read.  Its stamp stays.
Reseal(t) ==
    /\ t \in todo
    /\ Opens(SweepHeld, t.blob)
    /\ todo' = todo \ {t}
    /\ row' = IF Present(t.row) /\ Blob(t.row) = t.blob
              THEN [row EXCEPT ![t.row].key = "new"]
              ELSE row
    /\ UNCHANGED <<aged, begun, config, work, table, fetched, stranded, failed, verdict,
                   history, writes, troubles>>

\* A key this process does not hold: reported, left as it is, and no reason to wait.
Skip(t) ==
    /\ t \in todo
    /\ t.blob.key \notin SweepHeld
    /\ todo' = todo \ {t}
    /\ UNCHANGED <<store, table, fetched, stranded, failed, config, work, verdict, history,
                   writes, troubles>>

\* Mutant: a row is left unreported.
Refuse_Silent(t) ==
    /\ t \in todo
    /\ t.blob.key \in SweepHeld /\ ~t.blob.good
    /\ todo' = todo \ {t}
    /\ UNCHANGED <<store, stranded, config, work, table, fetched, failed, verdict, history,
                   writes, troubles>>

\* A held key and a blob that does not authenticate: a durable row is reported as
\* blocking, a consent flow is deleted.
Refuse(t) ==
    /\ t \in todo
    /\ t.blob.key \in SweepHeld /\ ~t.blob.good
    /\ todo' = todo \ {t}
    /\ IF t.row \in Flows
       THEN row' = [row EXCEPT ![t.row] = NoRow] /\ UNCHANGED stranded
       ELSE stranded' = stranded \cup {t.row} /\ UNCHANGED row
    /\ UNCHANGED <<aged, begun, config, work, table, fetched, failed, verdict, history,
                   writes, troubles>>

NextPass ==
    /\ table' = table + 1
    /\ fetched' = FALSE /\ todo' = {}
    /\ UNCHANGED <<store, stranded, config, work, verdict, history, writes>>

EndPass ==
    /\ table \in 1 .. 4 /\ fetched /\ todo = {}
    /\ NextPass
    /\ UNCHANGED <<failed, troubles>>

\* Storage fails part-way through a table: the sweep notes it and goes on to the next.
FailPass ==
    /\ table \in 1 .. 4 /\ troubles < MaxTroubles
    /\ NextPass
    /\ failed' = failed \cup {table}
    /\ troubles' = troubles + 1

\* The report in the making is gone, printed or not.
Reported == stranded' = {} /\ failed' = {} /\ fleet' = FALSE /\ straggled' = FALSE

\* The sweep is interrupted: nothing is reported, and what was sealed again stays so.
CutShort ==
    /\ table # 0 /\ troubles < MaxTroubles
    /\ table' = 0 /\ fetched' = FALSE /\ todo' = {}
    /\ troubles' = troubles + 1
    /\ Reported
    /\ UNCHANGED <<store, latest, config, work, verdict, writes>>

\* Mutant: the consent flows are not counted.
StillRetired_NoFlows(i) == {r \in Tables[i] \ Flows : row[r].key \in Retired}
\* rows_written_under_a_retired_key, as the question whether it is more than nought.
StillRetired(i) == {r \in Tables[i] : row[r].key \in Retired}
Accounted(i)    == stranded \cap Tables[i]
WrittenBack     == \E i \in 1 .. 4 : Cardinality(StillRetired(i)) > Cardinality(Accounted(i))

\* One statement counts the key ids of all four tables; the report is made from it.
Census ==
    /\ table = 5
    /\ table' = 0
    /\ verdict' = [given       |-> TRUE,
                   finished    |-> \A i \in 1 .. 4 : StillRetired(i) = {},
                   fleet       |-> fleet,
                   whole       |-> failed = {},
                   left        |-> UNION {StillRetired(i) : i \in 1 .. 4},
                   stranded    |-> stranded,
                   writtenBack |-> WrittenBack,
                   straggled   |-> straggled]
    /\ Reported
    /\ UNCHANGED <<store, latest, fetched, todo, config, work, writes, troubles>>

-----------------------------------------------------------------------------
Next ==
    \/ \E p \in Processes :
          \/ \E r \in Durable : Save(p, r)
          \/ \E r \in Connections : StartRenewal(p, r)
          \/ \E f \in Flows : Begin(p, f) \/ Callback(p, f)
          \/ Renew(p) \/ Connect(p) \/ Abandon(p) \/ Restart(p) \/ Drop(p)
    \/ \E r \in Durable : Remove(r)
    \/ \E f \in Flows : Age(f)
    \/ \E t \in todo : Reseal(t) \/ Skip(t) \/ Refuse(t)
    \/ StartSweep \/ Fetch \/ EndPass \/ FailPass \/ CutShort \/ Census

Spec == Init /\ [][Next]_vars

-----------------------------------------------------------------------------
(* Properties.                                                             *)

Blobs    == [key : Keys \cup {"none"}, secret : 0 .. MaxWrites, good : BOOLEAN]
Columns  == [key : Keys \cup {"none"}, secret : 0 .. MaxWrites, good : BOOLEAN,
             stamp : 0 .. MaxWrites]
Works    == [at : {"idle", "renewing", "exchanging"}, row : Connections \cup {"none"},
             secret : 0 .. MaxWrites, stamp : 0 .. MaxWrites]
Verdicts == [given : BOOLEAN, finished : BOOLEAN, fleet : BOOLEAN, whole : BOOLEAN,
             left : SUBSET Rows, stranded : SUBSET Durable, writtenBack : BOOLEAN,
             straggled : BOOLEAN]

TypeOK ==
    /\ row \in [Rows -> Columns]
    /\ config \in [Processes -> {"before", "rotated", "dropped"}]
    /\ work \in [Processes -> Works]
    /\ aged \subseteq begun /\ begun \subseteq Flows
    /\ table \in 0 .. 5 /\ fetched \in BOOLEAN
    /\ todo \subseteq [row : Rows, blob : Blobs]
    /\ stranded \subseteq Durable /\ failed \subseteq 1 .. 4
    /\ verdict \in Verdicts
    /\ latest \in [Rows -> 0 .. MaxWrites]
    /\ fleet \in BOOLEAN /\ straggled \in BOOLEAN
    /\ writes \in 0 .. MaxWrites /\ troubles \in 0 .. MaxTroubles

\* "The rule underneath all three: the sweep never destroys anything that putting a key
\* back would recover."  Whatever the sweep and the servers do to one row at one time,
\* the last secret stored in it is in it, until a person, a callback or the flow's age
\* takes it away.  (sweep, the reseal_* compare-and-sets)
NothingLost ==
    \A r \in Rows : latest[r] # 0 =>
        Present(r) /\ row[r].good /\ row[r].secret = latest[r]

\* "A reseal must be invisible" to the refresh: a renewal whose credential nobody has
\* replaced since it read it will be able to store what the provider gave it, also when
\* the sweep has been over the row.  (reseal_connection, update_connection_credential)
RenewalsLand ==
    \A p \in Processes : work[p].at = "renewing" /\ latest[work[p].row] = work[p].secret =>
        row[work[p].row].stamp = work[p].stamp

\* "No row names a retired key, which is when the old list can be emptied": once a process
\* runs without the old key, no row that ever opened needs it.  (_finish_rotation, finished)
DropStrandsNobody ==
    \A p \in Processes : config[p] = "dropped" =>
        \A r \in Rows : row[r].good => row[r].key # "old"

\* One sweep is enough: when every process was off the old key before it began and it
\* walked every table, the rows still under the old key are those it named as blocking
\* or, where a person has replaced one since, none.  (sweep, Stranded.blocks)
OneSweepSuffices ==
    verdict.given /\ verdict.fleet /\ verdict.whole => verdict.left \subseteq verdict.stranded

\* The diagnosis is not a guess: when the sweep walked every table and says that rows
\* were written under a retired key while it ran, some process did write one.
\* (rows_written_under_a_retired_key)
DiagnosisIsTrue ==
    verdict.writtenBack /\ verdict.whole => verdict.straggled

\* The report is about the fleet and the rows as they are.
ReportIsTrue == OneSweepSuffices /\ DiagnosisIsTrue

\* "Every row still under a retired key is either one the sweep could not open or one
\* that was written under that key while the sweep was running": also of a report in
\* which a table is incomplete.  (rotation.py:147-155, _finish_rotation)
OnlyAStragglerLeavesRows ==
    verdict.writtenBack => verdict.straggled
=============================================================================
