------------------------------ MODULE DoorCall ------------------------------
(***************************************************************************)
(* A tool call through the door, from the bearer's grants to its audit row: *)
(* door.py _admit_call and TokenBudget, core/broker.py _admit and call,     *)
(* core/audit.py record, and spend_mcp_call of the storage.                 *)
(*                                                                         *)
(* Requests are the threads that serve calls, over all replicas.  Every     *)
(* storage access is a step of its own, so other calls, administrators,     *)
(* midnight and an outage of the database come between any two.  All calls  *)
(* ask for one tool; what an agent's stored config says of the call is      *)
(* "without" (the tool is not on its list, or the agent is gone or broken), *)
(* "denies" or "allows".  Calls are numbered as they arrive, and the history *)
(* variables (charged to fallback) speak of calls by their number.          *)
(***************************************************************************)
EXTENDS Integers, FiniteSets

CONSTANTS
  Requests,      \* the threads that serve calls
  Tokens,        \* the machine tokens
  Subjects,      \* whose rows and allowance: people, and the tokens themselves
  OwnerOf,       \* the owner of a personal token; a service token is its own
  NumAgents,     \* agents, numbered in the order of their names
  Ceiling,       \* MCP_CALLS_PER_DAY; 0 is unmetered
  SpendCeiling,  \* MCP_USD_PER_DAY; 0 is unmetered
  Replicas,      \* the processes the threads are spread over
  MaxCost,       \* bound: what one call costs at most
  MaxCalls,      \* bound: calls that arrive
  MaxDay,        \* bound: midnights that pass
  MaxTroubles    \* bound: administrative changes, outages and crashes

Agents == 1..NumAgents
Days == 0..MaxDay
Verdicts == {"without", "denies", "allows"}

ASSUME OwnersAssumption == Tokens # {} /\ OwnerOf \in [Tokens -> Subjects]
ASSUME CountsAssumption ==
  /\ NumAgents \in Nat \ {0} /\ Ceiling \in Nat /\ SpendCeiling \in Nat
  /\ Replicas \in Nat \ {0} /\ MaxCost \in Nat /\ MaxCalls \in Nat
  /\ MaxDay \in Nat /\ MaxTroubles \in Nat
ASSUME RequestsAssumption == IsFiniteSet(Requests)

VARIABLES
  grants,    \* agent_grants: <<subject, agent>>
  config,    \* what each agent's stored config says of the call
  calls,     \* mcp_budget: calls charged to <<subject, day>>
  spent,     \* what the rows of the audit table add up to for <<subject, day>>
  today,     \* the UTC day
  up,        \* the database answers
  troubles, arrived,   \* counters of what the bounds bound
  req,       \* what each thread holds of the call it serves
  charged,   \* history: the calls the counter was raised for
  ran,       \* history: the calls that reached the tool
  denied,    \* history: calls with a deny row
  recorded,  \* history: calls with an execution row in the audit table
  fallback,  \* history: calls with an execution row in the fallback file
  killed     \* history: calls whose process died

admin == <<grants, config>>
env == <<today, up, troubles, arrived>>
ledger == <<calls, spent, charged>>
rows == <<denied, recorded, fallback>>
vars == <<admin, env, ledger, req, ran, rows, killed>>

Places == {"idle", "grants", "configs", "bind", "deny", "spend", "count",
           "credential", "unusable", "running"}

\* A call's entry in the histories of charges and executions.
Entries == [call : Nat, token : Tokens, day : Days]

\* The local variables of a call, and three histories of it: the agents its
\* bearer was granted at some time since it arrived, those that allowed it at
\* some time, and those that were granted and allowed it all the time.  They
\* are kept until the broker has admitted the call under the chosen agent.
Held == [pc : Places, call : Nat, token : Tokens, names : SUBSET Agents,
         cand : SUBSET Agents, allow : SUBSET Agents, chosen : Agents,
         window : Days,
         held : SUBSET Agents, seen : SUBSET Agents, steady : SUBSET Agents]

\* personal_owner: one resolution for grants, calls and spend.
Subject(t) == OwnerOf[t]

\* budget_window: the UTC day.
Window == today

Owners == {Subject(t) : t \in Tokens}
\* Agents are tried in the order of their names.
Lowest(S) == CHOOSE a \in S : \A b \in S : a <= b
Granted(t) == {a \in Agents : <<Subject(t), a>> \in grants}
Allowing == {a \in Agents : config[a] = "allows"}
EntryOf(r) == [call |-> req[r].call, token |-> req[r].token,
               day |-> req[r].window]

Idle(t) == [pc |-> "idle", call |-> 0, token |-> t, names |-> {}, cand |-> {},
            allow |-> {}, chosen |-> 1, window |-> 0,
            held |-> {}, seen |-> {}, steady |-> {}]
NoToken == CHOOSE t \in Tokens : TRUE

At(r, place) == req[r].pc = place
Arriving(r) == req[r].pc \in {"grants", "configs", "bind", "spend"}
Decided(r, place) ==
  [Idle(req[r].token) EXCEPT !.pc = place, !.call = req[r].call,
                             !.window = req[r].window]
Goto(r, place) == req' = [req EXCEPT ![r].pc = place]
Leave(r) == req' = [req EXCEPT ![r] = Idle(NoToken)]

Init ==
  /\ grants \in SUBSET (Owners \X Agents)
  /\ config \in [Agents -> Verdicts]
  /\ calls = [k \in Subjects \X Days |-> 0]
  /\ spent = [k \in Subjects \X Days |-> 0]
  /\ today = 0 /\ up = TRUE
  /\ troubles = 0 /\ arrived = 0
  /\ req = [r \in Requests |-> Idle(NoToken)]
  /\ charged = {} /\ ran = {}
  /\ denied = {} /\ recorded = {} /\ fallback = {} /\ killed = {}

-----------------------------------------------------------------------------
(* The door: _admit_call. *)

\* A request with a bearer token, resolved by reading its row.
Arrive(r, t) ==
  /\ At(r, "idle") /\ up /\ arrived < MaxCalls
  /\ arrived' = arrived + 1
  /\ req' = [req EXCEPT ![r] = [Idle(t) EXCEPT
       !.pc = "grants", !.call = arrived + 1,
       !.held = Granted(t), !.seen = Allowing,
       !.steady = Granted(t) \intersect Allowing]]
  /\ UNCHANGED <<admin, today, up, troubles, ledger, ran, rows, killed>>

\* _granted_agents: runnable_names, one query.  (Mutant: the names of an
\* earlier read are kept.)
ReadGrants_Cached(r) ==
  /\ At(r, "grants") /\ up
  /\ \E cached \in SUBSET Agents :
       /\ Granted(req[r].token) \subseteq cached
       /\ req' = [req EXCEPT ![r].pc = "configs", ![r].names = cached]
  /\ UNCHANGED <<admin, env, ledger, ran, rows, killed>>
ReadGrants(r) ==
  /\ At(r, "grants") /\ up
  /\ req' = [req EXCEPT ![r].pc = "configs",
                        ![r].names = Granted(req[r].token)]
  /\ UNCHANGED <<admin, env, ledger, ran, rows, killed>>

\* _granted_agents: the configs, one query each, in the order of the names;
\* what _candidates and permissions.check find in a config they find later,
\* in the copy taken here.
ReadConfig(r) ==
  /\ At(r, "configs") /\ up /\ req[r].names # {}
  /\ LET a == Lowest(req[r].names) IN
       req' = [req EXCEPT
         ![r].names = @ \ {a},
         ![r].cand = IF config[a] # "without" THEN @ \union {a} ELSE @,
         ![r].allow = IF config[a] = "allows" THEN @ \union {a} ELSE @]
  /\ UNCHANGED <<admin, env, ledger, ran, rows, killed>>

\* _candidates: no granted agent has the tool, and the door refuses without a
\* row of the broker's; or the call goes on to binding.
Candidates(r) ==
  /\ At(r, "configs") /\ req[r].names = {}
  /\ IF req[r].cand = {} THEN Leave(r) ELSE Goto(r, "bind")
  /\ UNCHANGED <<admin, env, ledger, ran, rows, killed>>

\* _bind, strictly, and _resolve_acting_for: either may raise, which ends the
\* call before the broker has seen it.
Unbound(r) ==
  /\ At(r, "bind") /\ up
  /\ Leave(r)
  /\ UNCHANGED <<admin, env, ledger, ran, rows, killed>>

\* Bound: _adjudicate, and the broker's permission check on the agent it chose,
\* are pure; the budget is constructed between them and freezes its window.  A
\* tool that is not described is refused whatever the agents say.
Adjudicate(r) ==
  /\ At(r, "bind") /\ up
  /\ \E described \in BOOLEAN :
       LET allow == {a \in req[r].allow : described} IN
         req' = IF allow = {}
                THEN [req EXCEPT ![r] = Decided(r, "deny")]
                ELSE [req EXCEPT ![r].pc = "spend", ![r].window = Window,
                        ![r].chosen = Lowest(allow),
                        ![r].cand = {}, ![r].allow = {}]
  /\ UNCHANGED <<admin, env, ledger, ran, rows, killed>>

-----------------------------------------------------------------------------
(* The broker: the budget, the credential, the tool, the row. *)

\* _Gate.refuse: a deny row, and it is loud: without the database it raises.
Deny(r) ==
  /\ At(r, "deny") /\ up
  /\ denied' = denied \union {req[r].call}
  /\ Leave(r)
  /\ UNCHANGED <<admin, env, ledger, ran, recorded, fallback, killed>>

\* TokenBudget._over_spend_ceiling: reads, consumes nothing, and is skipped
\* when the dial is off.  (Mutant: the call after the line is let through too.)
OverSpend_Late(s) == SpendCeiling > 0 /\ spent[<<s, today>>] > SpendCeiling
OverSpend(s) == SpendCeiling > 0 /\ spent[<<s, today>>] >= SpendCeiling

CheckSpend(r) ==
  /\ At(r, "spend") /\ (up \/ SpendCeiling = 0)
  /\ req' = [req EXCEPT ![r] =
       IF OverSpend(Subject(req[r].token)) THEN Decided(r, "deny")
       ELSE Decided(r, "count")]
  /\ UNCHANGED <<admin, env, ledger, ran, rows, killed>>

\* spend_mcp_call: the ceiling is in the statement that counts.  With the dial
\* off nothing is read or written.  (Mutants: every token is counted by itself;
\* a call is counted before it is refused.)
Key_Token(r) == <<req[r].token, req[r].window>>
Key(r) == <<Subject(req[r].token), req[r].window>>
Charge(r) ==
  /\ calls' = [calls EXCEPT ![Key(r)] = @ + 1]
  /\ charged' = charged \union {EntryOf(r)}

Count_First(r) ==
  /\ At(r, "count") /\ (up \/ Ceiling = 0)
  /\ IF Ceiling = 0 THEN UNCHANGED <<calls, charged>> ELSE Charge(r)
  /\ Goto(r, IF Ceiling = 0 \/ calls[Key(r)] < Ceiling THEN "credential"
             ELSE "deny")
  /\ UNCHANGED <<admin, env, spent, ran, rows, killed>>
Count(r) ==
  LET free == Ceiling > 0 /\ calls[Key(r)] < Ceiling IN
  /\ At(r, "count") /\ (up \/ Ceiling = 0)
  /\ IF free THEN Charge(r) ELSE UNCHANGED <<calls, charged>>
  /\ Goto(r, IF free \/ Ceiling = 0 THEN "credential" ELSE "deny")
  /\ UNCHANGED <<admin, env, spent, ran, rows, killed>>

\* credentials.for_tool: a shared secret needs no database; a connection may be
\* missing or broken.  Then tool.impl is entered.
Credential(r) ==
  /\ At(r, "credential")
  /\ \/ Goto(r, "unusable") /\ UNCHANGED ran
     \/ Goto(r, "running") /\ ran' = ran \union {EntryOf(r)}
  /\ UNCHANGED <<admin, env, ledger, rows, killed>>

\* The allow/error row of a call whose credential failed; it is loud too.
Unusable(r) ==
  /\ At(r, "unusable") /\ up
  /\ recorded' = recorded \union {req[r].call}
  /\ Leave(r)
  /\ UNCHANGED <<admin, env, ledger, ran, denied, fallback, killed>>

\* tool.impl returns, or raises and is caught, having cost something; then
\* audit.record, durable: the table, or else the fallback file.  A row in the
\* file is in nobody's sum.  (Mutant: the append is loud here as well.)
Record_Loud(r) ==
  /\ At(r, "running")
  /\ \E cost \in 0..MaxCost :
       IF up
       THEN /\ recorded' = recorded \union {req[r].call}
            /\ spent' = [spent EXCEPT
                 ![<<Subject(req[r].token), today>>] = @ + cost]
       ELSE UNCHANGED <<recorded, spent>>
  /\ Leave(r)
  /\ UNCHANGED <<admin, env, calls, charged, ran, denied, fallback, killed>>
Record(r) ==
  /\ At(r, "running")
  /\ \E cost \in 0..MaxCost :
       IF up
       THEN /\ recorded' = recorded \union {req[r].call}
            /\ spent' = [spent EXCEPT
                 ![<<Subject(req[r].token), today>>] = @ + cost]
            /\ UNCHANGED fallback
       ELSE /\ fallback' = fallback \union {req[r].call}
            /\ UNCHANGED <<recorded, spent>>
  /\ Leave(r)
  /\ UNCHANGED <<admin, env, calls, charged, ran, denied, killed>>

\* A storage access without a database raises, up to the 503 of the route.
Raise(r) ==
  /\ ~up
  /\ \/ req[r].pc \in {"grants", "configs", "bind", "deny", "credential",
                       "unusable"}
     \/ At(r, "spend") /\ SpendCeiling > 0
     \/ At(r, "count") /\ Ceiling > 0
  /\ Leave(r)
  /\ UNCHANGED <<admin, env, ledger, ran, rows, killed>>

-----------------------------------------------------------------------------
(* The world around the calls. *)

\* The process of a thread is killed: nothing of the call survives it.
Crash(r) ==
  /\ ~At(r, "idle") /\ troubles < MaxTroubles
  /\ troubles' = troubles + 1
  /\ killed' = killed \union {req[r].call}
  /\ Leave(r)
  /\ UNCHANGED <<admin, today, up, arrived, ledger, ran, rows>>

\* Another replica, or an administrator's screen, changes who may run what...
Regrant(s, a) ==
  /\ up /\ troubles < MaxTroubles
  /\ troubles' = troubles + 1
  /\ grants' = IF <<s, a>> \in grants THEN grants \ {<<s, a>>}
               ELSE grants \union {<<s, a>>}
  /\ req' = [r \in Requests |->
       IF Arriving(r) /\ Subject(req[r].token) = s
       THEN [req[r] EXCEPT !.held = @ \union {a}, !.steady = @ \ {a}]
       ELSE req[r]]
  /\ UNCHANGED <<config, today, up, arrived, ledger, ran, rows, killed>>

\* ... or what an agent's config says.
Edit(a, v) ==
  /\ up /\ troubles < MaxTroubles
  /\ troubles' = troubles + 1
  /\ config' = [config EXCEPT ![a] = v]
  /\ req' = [r \in Requests |->
       IF ~Arriving(r) THEN req[r]
       ELSE IF v = "allows" THEN [req[r] EXCEPT !.seen = @ \union {a}]
       ELSE [req[r] EXCEPT !.steady = @ \ {a}]]
  /\ UNCHANGED <<grants, today, up, arrived, ledger, ran, rows, killed>>

Midnight ==
  /\ today < MaxDay
  /\ today' = today + 1
  /\ UNCHANGED <<admin, up, troubles, arrived, ledger, req, ran, rows, killed>>

Outage ==
  /\ up /\ troubles < MaxTroubles
  /\ up' = FALSE /\ troubles' = troubles + 1
  /\ UNCHANGED <<admin, today, arrived, ledger, req, ran, rows, killed>>

Recover ==
  /\ ~up
  /\ up' = TRUE
  /\ UNCHANGED <<admin, today, troubles, arrived, ledger, req, ran, rows, killed>>

Serve(r) ==
  \/ ReadGrants(r) \/ ReadConfig(r) \/ Candidates(r) \/ Unbound(r)
  \/ Adjudicate(r) \/ Deny(r) \/ CheckSpend(r) \/ Count(r)
  \/ Credential(r) \/ Unusable(r) \/ Record(r) \/ Raise(r)

World ==
  \/ \E s \in Owners, a \in Agents : Regrant(s, a)
  \/ \E a \in Agents, v \in Verdicts : Edit(a, v)
  \/ Midnight \/ Outage \/ Recover

Next ==
  \/ \E r \in Requests, t \in Tokens : Arrive(r, t)
  \/ \E r \in Requests : Serve(r) \/ Crash(r)
  \/ World

Spec == Init /\ [][Next]_vars

-----------------------------------------------------------------------------
(* Properties. *)

TypeOK ==
  /\ grants \subseteq Subjects \X Agents
  /\ config \in [Agents -> Verdicts]
  /\ calls \in [Subjects \X Days -> Nat]
  /\ spent \in [Subjects \X Days -> Nat]
  /\ today \in Days /\ up \in BOOLEAN
  /\ troubles \in 0..MaxTroubles /\ arrived \in 0..MaxCalls
  /\ req \in [Requests -> Held]
  /\ charged \subseteq Entries /\ ran \subseteq Entries
  /\ denied \subseteq Nat /\ recorded \subseteq Nat
  /\ fallback \subseteq Nat /\ killed \subseteq Nat

\* The daily ceiling is a person's, over all their personal tokens and all
\* replicas: no more calls than the ceiling reach a tool on one window for one
\* owner, however many threads arrive at the last one at once (door.py
\* TokenBudget, "a 1000N ceiling wearing a 1000 label").
PooledCeiling ==
  Ceiling > 0 => \A s \in Subjects, d \in Days :
    Cardinality({e \in ran : OwnerOf[e.token] = s /\ e.day = d}) <= Ceiling

\* "A refusal must not push a caller toward exhaustion": a call with a deny row
\* was not charged, and did not run.
RefusalsAreFree ==
  \A e \in charged \union ran : e.call \notin denied

\* What becomes of each call, and who pays, read off the counter's history and
\* the rows.
CallsOf(S) == {e.call : e \in S}
ChargedTo(s, d) == {e \in charged : OwnerOf[e.token] = s /\ e.day = d}
PaidBy == [k \in Owners \X Days |-> CallsOf(ChargedTo(k[1], k[2]))]
Fate ==
  [n \in 1..MaxCalls |->
     IF n \in denied THEN "refused"
     ELSE IF n \in recorded THEN "recorded"
     ELSE IF n \in fallback THEN "filed"
     ELSE IF n \in killed THEN "lost"
     ELSE IF n \in CallsOf(ran) THEN "running"
     ELSE IF n \in CallsOf(charged) THEN "charged"
     ELSE "open"]

Ledger == INSTANCE CallLedger WITH Calls <- 1..MaxCalls,
            Accounts <- Owners \X Days, paid <- PaidBy, fate <- Fate

\* The counter, the rows and the file, written by threads of several replicas
\* through outages and crashes, keep one ledger of the calls: paid for before
\* they run, never more than the ceiling, run once, and with one row.
\* (TokenBudget.reserve, broker.call, record)
ImplementsLedger == Ledger!Spec

\* Whatever the database does, a call that reached its tool ends with one
\* execution row, in the table or in the fallback file; only the death of the
\* process that served it can lose the row (audit.py record, durable).
EveryRunRecorded ==
  \A e \in ran :
    /\ \/ e.call \in recorded \union fallback \union killed
       \/ \E r \in Requests : req[r].call = e.call
                              /\ At(r, "running")
    /\ ~(e.call \in recorded /\ e.call \in fallback)

\* No cached permission: a call that passed the door does so under an agent
\* that its bearer was granted, and that allowed it, at some time since the
\* call arrived (_granted_agents, "a revocation that takes effect in up to 30
\* seconds is not a revocation").
NoStaleAuthority ==
  \A r \in Requests :
    At(r, "spend") => req[r].chosen \in req[r].held \intersect req[r].seen

\* The union rule under concurrent edits: no agent before the one a call is
\* attributed to was granted and allowed it all the time, and a call is not
\* turned away at the door while some agent was and did.
FirstAllowWins ==
  \A r \in Requests :
    /\ At(r, "spend") => \A a \in req[r].steady : req[r].chosen <= a
    /\ At(r, "configs") => req[r].steady \subseteq req[r].names \union req[r].allow
    /\ At(r, "bind") => req[r].steady \subseteq req[r].allow

\* A call is judged by the grants and the configurations of its own time.
AuthorityIsCurrent == NoStaleAuthority /\ FirstAllowWins

\* The spend ceiling gates the next call, so a day can end over the line, by
\* what the calls in flight cost and no more.
SpendOvershootBounded ==
  SpendCeiling > 0 => \A k \in Subjects \X Days :
    spent[k] <= SpendCeiling - 1 + Cardinality(Requests) * MaxCost

\* What the docstring of _over_spend_ceiling says the bound is: "the ceiling plus
\* one call's cost per replica".  Refuted: a replica serves calls on many threads,
\* and each may pass the line before any of them has recorded its cost.
SpendAsDocumented ==
  SpendCeiling > 0 => \A k \in Subjects \X Days :
    spent[k] <= SpendCeiling + Replicas * MaxCost
=============================================================================
