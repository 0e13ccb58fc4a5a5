# A verification development for carnet

TLA+ models of the parts of carnet that keep state under concurrency and
failure, the TLC configurations that check them, and TLAPS proofs of what they
promise for every number of threads, keys, tokens, rows and tools. Paths in this
document are relative to `src/backend/src/carnet/` unless they begin with
`docs/`, `deploy/`, `client/` or `frontend/`.

`PROJECT.json` maps every definition that models code to the lines it models,
lists the hazards of the code, the mutants that show that each property can
fail, and the theorems.

## 1. The system

Carnet is an MCP gateway, "one door": assistants and agents call tools through
it with a bearer token; it decides, attaches a credential, calls the tool's
server, and writes an audit row. One deployment is several identical API
processes over one PostgreSQL database. Each process serves requests on many
threads, so nearly every sequence of two storage calls can be interleaved with
any other, in the same process or another one.

    caller -> api (routes) -> door -> core/broker -> tools (MCP sessions, REST) -> a vendor
                |              |          |             |
                |              access     credentials   session pool (per process)
                |              (tokens,   vault, OAuth  tool registry (per process)
                |               grants)   connections
                +--------------+----------+-------------+--> storage (PostgreSQL)

### Inventory

| Component | State | Operations | Hard behaviour | What makes it correct |
| --- | --- | --- | --- | --- |
| Session pool (`tools/mcp/client.py`, `tools/mcp/__init__.py`, the lifespan in `api/__init__.py`) | sessions by (tenant, connector, credential), last use, building locks | get, get_or_create, put, evict, prune, reset | victims closed outside the lock, two builders, reset under running threads, servers that die | one session per key, never another caller's, never closed twice or forgotten |
| MCP session (`tools/mcp/client.py`, `tools/mcp/transport.py`) | ids, session id, the lock, replies not read | initialize, tools/list, tools/call, one re-initialisation | expiry, lost and late replies, timeouts, retry of a write | no call runs twice, the outcome tells the truth, a server that lets go of the exchange gives back the lock |
| Door and broker (`door.py`, `core/broker.py`, `core/audit.py`) | daily counters, audit table and fallback file, one call's locals | tools/call, tools/list, ceilings, audit | edits between reads, counters at their limit, midnight, outages, crashes | ceilings over all tokens, no stale authority, a row per execution |
| Streamed model calls (`core/broker.py`, `api/routes_openai.py`, `tools/rest/__init__.py`) | three nested generators, the upstream response, one row | admit, pull, forward, close, finalize | a client that leaves at any point, a vendor that stalls or breaks | exactly one row, and a true one |
| OAuth connections (`access/oauth.py`, `access/connections.py`) | connection rows, pending flows, an advisory lock | begin, complete, refresh, disconnect, paste | rotating refresh tokens, lost answers, reconnects between read and write | no spent token presented again, no silent breakage |
| OAuth server (`access/oauth_server.py`, `api/routes_oauth.py`) | clients, codes, minted tokens | register, consent, exchange, sweep | replays and races of one code, crashes between spend and mint | one token per code, a replay revokes |
| Tool registry (`tools/__init__.py`, `tools/mcp/binding.py`, vetting in `storage/postgres.py`) | approvals in the database, copies in each process | vet, withdraw, deregister, bind, call | stale copies, binds that overtake each other, two owners of a name | a call runs on a current approval, and one connector throughout |
| Key rotation (`rotation.py`, `core/crypto.py`, the sealed columns in `storage/`) | four sealed columns, each process's key list, a report | seal, open, sweep, census, drop a key | servers that store and renew under the sweep, a process not restarted yet, rows that do not open, a sweep that dies | no row loses its last secret, a key is dropped only when no row needs it, the report is true |
| Credential vault (`core/vault.py`) | none | read a reference | - | - |
| Sharing and sign-in (`access/grants.py`, `access/users.py`) | users, grants, grants that wait for an address | first login, recorded address, claim, share, unshare, transfer, disable | shares that race sign-ins, requests that die between two statements | one account per person, no authority from nobody, no grant that waits for ever |
| Personal access tokens, groups, roles, directory (`access/`) | their tables | issue, revoke, join, assign, sync | revocation against calls in flight | no authority outlives its grant |
| Agents (`agents/__init__.py`, `api/routes_agents.py`) | configs under a version, and every version there was | create, seed, edit, restore, rename, delete | edits from stale pages, names that move between agents | no lost update, the live config is on record, a restore is exact |
| Declarative file (`carnetfile.py`) | none | plan, apply | - | - |
| Permissions, patterns, limits (`core/`) | none | check, match | boundary cases of patterns | agreement with a reference definition |
| Storage, tenancy, migrations (`storage/`) | all tables | one statement each; `apply` | processes starting together, a crash between two files | each file applied once, in order |
| Sign-in (`access/oidc.py`), bundled IdP (`localidp/`) | key-set cache, accounts, login backoff | verify, login | attempts in flight together pass the backoff | a bound on attempts |
| Discovery, egress, REST tools (`tools/`) | none | parse, check an address, build a request | redirects, sizes | pure functions |
| API, CLI, bootstrap, configuration, maintenance, metrics | none of their own | translate, dispatch, delete expired rows | - | - |
| Front end, Python client, deployment | none | - | - | - |

`PROJECT.json` has each of them with its status. Section 3 describes the ten
that are modelled.

### How the parts interact

* A call reads its grants and configs (door), binds its tool (registry, which
  may dial through the pool), refreshes the caller's connection (OAuth), is
  counted (storage), gets a credential, runs on a session of the pool, and is
  recorded (audit). `DoorCall` is this sequence with the inner parts as
  choices; each of the others is one inner part with the rest as choices.
* The pool owns sessions; a session serialises its callers with its own lock.
  `SessionPool` treats a request as two steps, `McpSession` looks inside them.
* `AgentSharing` gives the grants that `DoorCall` reads, `AgentHistory` the
  configs; both of these are changed under a call, which `DoorCall` models by
  `Regrant` and `Edit` at any moment. `KeyRotation` reseals the rows that
  `OAuthConnection` renews: its renewals are that module's, reduced to what a
  reseal could disturb, the version a renewal read and compares.
* The registry and the pool are per process. What processes share is the
  database, and every decision that must hold across processes is one SQL
  statement, modelled as one step; everything else is read, then acted upon.

## 2. Modules

| Module | Models | Checked by | Proofs |
| --- | --- | --- | --- |
| `SessionDirectory` | what callers may rely on of the pool (abstract) | through `SessionPool` | - |
| `SessionPool` | the pool and its users; implements `SessionDirectory` | `SessionPool.cfg`, `SessionPoolLive.cfg` | `SessionPoolProofs` |
| `McpSession` | one session shared by threads, over HTTP or a pipe | `McpSession.cfg` | `McpSessionProofs` |
| `CallLedger` | what the door and the broker promise of a call (abstract) | through `DoorCall` | - |
| `DoorCall` | one tool call from the bearer's grants to its row; implements `CallLedger` | `DoorCall.cfg` | `DoorCallProofs` |
| `StreamedCall` | a brokered answer forwarded while it arrives | `StreamedCall.cfg` | `StreamedCallProofs` |
| `OAuthConnection` | one person's connection, all its writers | `OAuthConnection.cfg` | `OAuthProofs` |
| `OAuthServer` | consent, code, exchange, sweep | `OAuthServer.cfg` | `OAuthProofs` |
| `ToolRegistry` | approvals and one process's copies of them | `ToolRegistry.cfg`, `ToolRegistryRevet.cfg` | `ToolRegistryProofs` |
| `KeyRotation` | the fleet, the sealed rows and the sweep between two keys | `KeyRotation.cfg` | `KeyRotationProofs` |
| `AgentSharing` | sign-in, sharing by id and by address, claims | `AgentSharing.cfg` | `AgentProofs` |
| `AgentHistory` | agents, their pages, versions, renames and deletions | `AgentHistory.cfg` | `AgentProofs` |

`MC*` modules give the constants their values for TLC. Run a configuration with
`tlc -config X.cfg M` (`M` is the `module` of the run in `PROJECT.json`), and
check proofs with `tlapm M.tla`.

Conventions: an action is named after the function it models; `pc` (or a
record's `pc`) is where a thread stands between two steps; what a thread has
read and not yet used is kept in its local variables, so that it may be stale
when used. A comment beginning "mutant" marks a definition that only the
mutants use: a plausible bug, swapped in to show that a property notices it.
A property that is a conjunction joins promises of one mechanism that are told
apart by name in its module; `TypeOK` is proved for each component, and the runs
spend their time on the rest. Two components that concern one thing, the OAuth
of both directions and an agent's history and its sharing, have their proofs in
one module that EXTENDS both; so `OAuthConnection` and `AgentSharing` carry a
prefix in the names every specification has (`ConnInit`, `ConnNext`, `ConnSpec`,
`ConnTypeOK`; `SharingInit`, and so on).

## 3. What each module says

### The session pool (`SessionPool`, `SessionDirectory`)

`tools/mcp/client.py` keeps one live MCP session per (tenant, connector,
credential) in a process-wide dict guarded by an `RLock`. Each critical section
of that lock is one atomic step, and everything the code does outside it has a
step of its own: queueing on the per-key building lock, the second lookup,
starting the server, the handshake, the publication of the new session, the
closing of every victim, the request itself.

| State | In the code |
| --- | --- |
| `entries` | `SessionPool._sessions` |
| `usedAfter` | the order of `_Entry.seq`; only the order matters, so numbers are not kept |
| `idle` | entries whose `last_used` is further back than the idle TTL; it grows from the least recently used on, because `get` and `put` set both clocks |
| `epoch`, `lockEpoch` | the generation of `_building`: `reset()` clears it, so a thread that asks afterwards gets another lock than the thread still building |
| `closing` | victims popped under the lock and not yet passed to `_close_quietly` |
| `closed`, `died`, `abandoned` | what became of a server: closed by us, gone by itself, left behind by a failed handshake |
| `pc`, `ask`, `got`, `reused`, `result` | one worker thread inside `connect`, `ensure_session` or a bound tool's `call` |

Runs. `session_pool`: two threads, three keys, a cap of two, no reset. Every
retirement path is taken (expiry in `get`, `put` and `prune`, overflow, eviction
after a failed `tools/list`), and with three keys over a cap of two the choice
of the victim matters. `session_pool_live`: two keys, a cap of one, all three
ways of asking, one reset and one dead server, under fairness.
A disagreement with the code's own words: `evict` is documented as how a dead
session is retired, but only `connect` calls it, so once its tools are bound a
dead server fails every later call of that key until the idle TTL (section 4,
`DeadIsRetired`).

Fairness: a thread that can step does, and a `close()` and the wait for a reply
return (when a server can prevent that is `McpSession`'s subject); nothing is
assumed of callers, the clock or the pruner. The building lock needs no strong
fairness because each thread makes finitely many requests.

### The MCP session (`McpSession`)

| State | In the code |
| --- | --- |
| `holder` | `Session._lock` |
| `nextId`, `waitFor` | `Session._next_id` and the id `_await` looks for |
| `sid`, `srv`, `ready` | the transport's session id; which session the server knows, and whether it has had `notifications/initialized` |
| `retrying` | the argument of `_request_locked` |
| `pending`, `inbox` | what is on its way to the server and back; over a pipe a late reply stays in `inbox` for the next reader, over HTTP it is lost with its connection |
| `stalled` | the server holds the exchange where no timeout reaches |
| `executed`, `tries`, `outcome`, `answer` | histories: how often the server ran a call, how often it was posted, what the caller was told, and to which call it was the answer |

What a caller is told is one of four things. `"ok"` is a result. `"error"` is an
error the *server* answered with, a JSON-RPC error (`McpError`) or an `isError`
result: the tool may have run, or may never have been called. `"unsent"` is a
`TransportError` that is not delivered, whose text says "the request never
reached the server, so nothing happened". `"unknown"` is one that is delivered.
The broker audits `"error"` and `"unsent"` alike, as `outcome="error"`, and
`"unknown"` as `outcome="unknown"` for a write. So a row that says `"error"`
does not say that nothing happened, and `OutcomeIsTrue` promises it of
`"unsent"` only: of an error it says that it is the server's answer to this
very call, and that the call can no longer run. The stronger reading, which the
broker's comment suggests, is `ErrorPlainlyDidNot` in section 4.

The server is external: it may forget its session, decline a message, run a
tool and answer with its result or with an error, refuse a connection, break on
a message, answer late or not at all, lose a reply whole or after its headers
(the session id among them), and hold an exchange. Run `mcp_session`: two
threads, one of them with two calls, both transports, two expiries and two
faults (stalls among them), so that a retried call can expire again.

Fairness is of the threads only: they read what there is to read, and time out
where a timeout runs. Over a pipe the timer of `_await` bounds the whole wait.
Over HTTP the timeout is per read of the socket (`transport.py:637`), so it
bounds only a server that falls silent: keep-alives and messages that are not
the reply are skipped with no deadline over them (`transport.py:444-449`,
`490-504`). The write to a pipe has no timeout at all (`transport.py:183-187`).
Both are `Stall`, during which `Lose` and `Post` are impossible, and `Resume`
has no fairness. `CallsEnd` is therefore conditional: if the server stalls no
more from some point on, every call ends, those that queue for the lock
included. Without the condition it is `CallsAlwaysEnd`, which is refuted
(section 4): one server that keeps a stream alive keeps the session's lock.

A re-initialisation cut short leaves the new session id stored, and calls reach
a session that was never initialised (section 4, `HandshakeFirst`); `cut`
records those sessions, and `OneExchangeAtATime` excepts them and no others.

### The door (`DoorCall`)

| State | In the code |
| --- | --- |
| `grants`, `config` | `agent_grants`; what each agent's stored config says of the call: lacks the tool, denies it, allows it |
| `calls`, `charged` | `mcp_budget` and the calls counted in it |
| `spent` | the sum over the audit table that the spend ceiling compares |
| `denied`, `recorded`, `fallback` | deny rows, execution rows in the table, execution rows in the file |
| `up` | whether the database answers; a storage access without it raises (`Raise`) |
| `req[r]` | the locals of one call; `held`, `seen`, `steady` are histories of what was granted and allowed since it arrived |

Grants are one query, each config is another, in the order of names, so the
union rule works on reads from different moments. The counter's comparison and
increment are one statement (`Count`); the spend ceiling reads, decides, and is
only added to when the call returns (`CheckSpend`, `Record`).

Run `door_calls`: two threads, two tokens of one person, three calls under a
ceiling of two calls and one unit of money, one midnight, and one trouble (a
grant taken back, a config edited, an outage, a crash) at any point. Everything
is granted and configs are arbitrary at the start. Three calls over a ceiling
of two is the least that can exceed it, one trouble per behaviour is enough for
each of the properties to be broken by its mutant, and the proofs remove all
these bounds.

The same run compares every step with `CallLedger`, which knows neither threads
nor tables. `PaidBy` reads who pays for which calls off the counter's history,
and `Fate` what has become of a call: open, charged, running, and at last
refused, recorded, filed or lost. A call is paid for once, before it runs and
under the ceiling; a refused one is still unpaid, which is `RefusalsAreFree`
again, now about the order of the steps. The ledger also has calls that stay
open or charged for ever: their requests ended in a refusal by the door itself,
or in a 503.

Abstractions: locals that nobody reads any more are cleared when the broker has
admitted the call; an idle thread keeps a placeholder token, which makes tokens
interchangeable for TLC; a crash exempts its call from `EveryRunRecorded`,
because the code writes nothing before the execution; the failure of the write
to the fallback file is left to its CRITICAL log line; an INSERT that commits
and whose acknowledgement is lost, which puts one execution in the table and in
the file, is left out, so a storage access either fails or is known to have
happened.

### Streamed calls (`StreamedCall`)

Three generators are nested: `Streamed._chunks` inside `_forward` inside
`_pulled`. `close()` runs the `finally` of a suspended generator and nothing of
a fresh one, so who created, entered or closed which generator decides whether
a row is written. Each generator's state, the upstream response, the row and
what the client got are variables; a client may leave between any two steps.

Run `streamed`: five chunks against a cap of three, so that the answer ends
below, at and above the cap. Fairness is that of one request: its next step is
taken, whether the broker's, the route's or the server's; `RequestEnds` also
relies on the vendor's stream ending or timing out, which the client library's
read timeout enforces. A client that leaves before the first pull leaves an
admitted call without a row (section 4, `RowIsOwed`): `OneRowPerCall` excepts
exactly that state, `LeftUnread`.

### OAuth connections (`OAuthConnection`)

| State | In the code |
| --- | --- |
| `row` | the row of `connections`: none, a pasted token or a consented one, with the refresh token, whether the access token is fresh, whether it is marked for re-consent |
| `lock` | `refresh_lock`, an advisory lock held by a database session |
| `worker[w]` | a thread inside `refresh_connection`; `same` is whether the row is still the version that was read (the compare-and-set on `updated_at`) |
| `pending`, `callback` | rows of `pending_authorizations`, threads that serve redirects |
| `leaving` | a disconnect between its read, the revocation and the delete; it happens once |
| `live`, `grant`, `issued` | the provider: the refresh tokens it accepts, the consent each descends from |

The provider is external and takes every choice a provider may: rotate or not,
end the whole grant on reuse or not, end earlier consents on a new one or not,
lose its answer after it acted. Run `oauth`: two threads, two consent flows,
two redirects, three refresh tokens, two renewals, two mishaps: the least with
a renewal racing another renewal, a reconnect, and a loss. `LockIsFreed`
assumes only that a thread that can proceed does; a dead one's database session
ends, which is a mishap the model includes. Whether the provider minds a
disconnect that revokes a token already replaced (`access/oauth.py:905`) is its
choice.

### The OAuth server (`OAuthServer`)

Every storage call of consent, exchange and sweep is a step. `code` and `token`
are tables; `work[w]` is a thread's request; a presentation either proves itself
(client, redirect, resource, verifier) or does not, one boolean. `told`, `late`,
`early` and `cut` are histories: codes that went out, codes presented again
after and before their token was recorded, codes whose exchange was cut short.
A person may hold, from the start, a token of the name the client would be
given. Run `oauth_server`: two threads, two codes of one person and one client,
two names, two troubles.

### The tool registry (`ToolRegistry`)

| State | In the code |
| --- | --- |
| `approved` | `vetted_tools` with its whole history: the last element is the present, and what a thread has read is an index into it |
| `bound` | `_BOUND` of one tenant in one process: each name's connector and the copy of its approval |
| `call[t]` | one `tools/call`: `since` is when it arrived, `seen` what it read, `todo` what it has still to register, `older` what other binds under way had read when it compared, `decided` the connector the door settled, `ran` the copy the broker ran, `skipped` whether its bind was abandoned for a broken credential |

A bind registers one name at a time; between its read of the approvals and its
last registration other binds, reviews and withdrawals come. Run
`tool_registry`: two threads, an MCP connector with two approved tools, a REST
connector with none at first, two administrative acts, a restart at any moment.
Two acts are the least for a review between two binds followed by another
change, or for a name that moves from one connector to the other.

`tool_registry_revet` (one thread, no race) shows that a review that only
changes `redact_args` is never noticed: `_descriptor` does not compare it, `bind`
copies it, and the broker hashes audit arguments by it.

Abstractions: one process; one connector declares a name at a time, which the
code does not enforce across connectors (`check_no_collision` looks at
hand-written names; `register` refuses the second binder, which `RegisterFails`
models); `load_connectors` is one read; binding for `tools/list` (all names,
failures skipped) is left out; of the launch of a connector, which
`_descriptor` does not compare either, nothing is modelled. `ApprovedLately`
speaks of calls whose tool was approved all along by the connector that was
called: a withdrawal that overtakes a call is not noticed by the code and is
excused.

### Key rotation (`KeyRotation`)

| State | In the code |
| --- | --- |
| `row` | the sealed columns of `connections`, `connector_oauth`, `triggers`, `pending_authorizations`: the key a blob names, the secret in it, whether it authenticates, and `updated_at` where the table has one |
| `config[p]` | what a process was started with: the old key; the new one with the old one listed; the new one alone |
| `work[p]` | a renewal or a code exchange in flight: the row, the secret and the stamp it read |
| `table`, `fetched`, `todo`, `stranded`, `failed` | the sweep: its pass, the rows the pass read and has not come to, and its report so far |
| `verdict` | the last report, with what was true of the fleet when that sweep began |
| `latest`, `fleet`, `straggled` | histories: the secret a row owes its readers, and who wrote under the old key during the sweep |

The sweep reads a table, then rewrites row by row, each with a compare-and-set
on the bytes it read (the flow table: on the state). Between any two of these
steps, processes under either key save, renew, consent, disconnect and expire.
Some rows are damaged or under a key that is gone from the start. Run
`key_rotation`: two processes (one may straggle), a connection, an app and a
flow (no trigger: its pass is the app's again), two secrets stored during the
rotation, one trouble (a table that fails part-way, a sweep that is cut short).
`DropStrandsNobody` has the precondition the procedure states, that the last
process was restarted before the sweep began: `finished` alone does not make the
old key droppable while a process still holds it. `rotation.py` says of the
procedure that it needs no maintenance window; while the fleet is mixed a
process that has not been restarted cannot open what a restarted one sealed, and
the model has that (`Opens`) as a refusal of the call.

### Sharing and sign-in (`AgentSharing`)

| State | In the code |
| --- | --- |
| `users` | subject, recorded address, whether active |
| `grants`, `pending` | `agent_grants`, `pending_grants`, each with who gave it |
| `call[r]` | a request: where it stands between `create`, `stamp`, `claim`, the look-up of an address, and its write |
| `ever`, `excused` | histories: the highest level a user has held; addresses whose share overlapped a sign-in, or whose sign-in died |

Each statement is a step; a claim is one transaction. Run `agent_sharing`: one
agent, two people, one of whom may take over the other's address, three user
ids (a first login draws one even if it loses the race), two requests at a time
and three operations, one trouble. `NothingLeftWaiting` has two exceptions, and
both are real: `share_by_email` finds nobody, the person signs in and claims,
and only then is the pending row written, so it waits for a login with yet
another address; and a sign-in that dies between recording the address and
claiming leaves rows that the next login of the same address does not claim,
because the address is no longer new. `excused` records both.

Known and left as they are in the model, being one statement's order in the
code: `unshare` reads the level and deletes without it, so a transfer in between
leaves an agent without an owner; an owner may be demoted by a share
(section 4, `OwnerIsNotUnseated`), and may demote themselves, which `unshare`
refuses. Merged steps: `require` and the read of the direct grant, and the
editor check of a share with the owner check of a transfer. Groups and machines
hold no grants here.

### Agents and their history (`AgentHistory`)

| State | In the code |
| --- | --- |
| `agents` | the row of each id: name, configuration, version, `updated_at` (the number of the write that set it: two writes never share a stamp) |
| `versions` | `agent_versions`, with where a restored entry came from |
| `req[r]` | a page somebody opened, and the request made from it: which agent the grant was checked on, the merged body |

An edit checks the grant by name, reads the row by name, merges, and writes
where the name and the page's stamp still match; rename and delete write by name
alone; the seed replaces whatever holds its name. Run `agent_history`: two ids,
two names, two fields of one value each, two requests, four writes: the least
with an agent renamed away, another under its old name, and an edit from a page
of the first. Rename and delete are not guarded by a stamp: after the owner
check, the name may have moved to another agent, which is then renamed or
deleted (`api/routes_agents.py:571`, whose docstring says these are "serialized
on the row"); the properties speak of edits and restores. A configuration the
validator refuses is a request that ends (`Close`).

## 4. Claims of the code that the models refute

`tool_registry_revet` is a run that finds the counterexample: a review that only
changes `redact_args` never takes effect in a process that has the tool bound
(`RevetTakesEffect`); the finding in `PROJECT.json` quotes the line it
contradicts.

The following are stated in the modules and refuted too, without a run of their
own. To see the counterexample, put the name in the configuration
`<module>.cfg` of the module's run, without its SYMMETRY, as an INVARIANT, or as
a PROPERTY for `RetirementIsOnlyLatency`, `UnknownIsAboutTheCall`,
`CallsAlwaysEnd` and `OwnerIsNotUnseated`:

| Module | Property | In a sentence |
| --- | --- | --- |
| `SessionPool` | `DeadIsRetired` | a dead session stays in the pool for the next call: `evict` "is how it gets retired" (`tools/mcp/client.py:510-514`), but `ensure_session` finds the entry and touches it, and a bound tool's call that fails on it does not evict it; needs `MaxDeaths = 1` |
| `McpSession` | `HandshakeFirst` | initialize "must complete before anything else is legal" (`tools/mcp/client.py:135`); when its notification cannot be sent, the new session id is stored all the same and the next call uses it |
| `StreamedCall` | `RowIsOwed` | "the row is owed the moment the broker admits the call" (`api/routes_openai.py:497`); a client that leaves before the first pull leaves no row and an open response |
| `KeyRotation` | `OnlyAStragglerLeavesRows` | every row left is stranded "or one that was written under that key while the sweep was running" (`rotation.py:145-148`); in a table whose pass failed, the rows it never came to are left too, and the command blames a process that holds the old key (`cli.py:672-676`) |
| `AgentSharing` | `OwnerIsNotUnseated` | "nobody may unshare the owner" (`access/grants.py:442-445`), but an editor who shares the agent with its owner overwrites the owner's level (`access/grants.py:299`) and leaves it without one |
| `SessionPool` | `RetirementIsOnlyLatency` | the cap or the idle sweep closes a session with a reply outstanding, and the call is recorded as one that may have happened |
| `SessionPool` | `NoProcessLeaks` | a server whose handshake failed is never closed |
| `McpSession` | `ErrorPlainlyDidNot` | a failed write that may have landed "is not the same event as one that plainly didn't, and only the audit log will remember which it was" (`core/broker.py:247-249`), and `call_tool` calls an error reply unambiguous "however it failed" (`tools/mcp/client.py:208-211`); a tool that ran and then failed is recorded as a plain error |
| `McpSession` | `CallsAlwaysEnd` | a server that does not answer in time is a `TransportError` (`tools/mcp/transport.py:37-38`); one that keeps its stream alive, or stops reading its pipe, is never timed out, and every thread of the session waits |
| `McpSession` | `UnknownIsAboutTheCall` | a cleanly refused call is recorded as ambiguous because the re-initialisation for it failed |
| `StreamedCall` | `SilentWriteIsUnknown` | a write whose vendor sent headers and no byte is recorded as an error |
| `DoorCall` | `SpendAsDocumented` | with several threads in a replica, more than one call per replica passes the spend line (`door.py:464-466`); needs `MaxCost = 2` |
| `OAuthConnection` | `MarkIsTrue` | the refusal of an old refresh token marks the connection made since |
| `OAuthServer` | `SecondPresentationRevokes` | a replay that comes before the minted token is recorded finds nothing to revoke |
| `OAuthServer` | `ApprovedClientIsKept` | the sweep deletes a client between its code's insert and its consent stamp |
| `ToolRegistry` | `BrokenBindChangesNothing` | a bind that fails on an expired account lets the call go on with the stale copy, and the account is renewed before the broker reads it (`door.py:1518`) |
| `ToolRegistry` | `NoOlderBindWins` | a bind that read before a review registers after the bind of a later call |
| `ToolRegistry` | `WithdrawnIsNotCalled` | a name withdrawn from one connector and approved on another is still called at the first until a restart |

## 5. What is proved

The proofs hold for every value of the constants that satisfies the named
ASSUMEs (bounds are natural numbers, null values are not members of the sets
they stand beside, threads are finite where a cardinality is taken). They say
nothing about whether the model is the code: that is what the map and the
mutants are for.

**`SessionPoolProofs`.** Type correctness first. `OnePlace`, `NeverBorrowed`,
`OneBuilderPerKey` and `NoSessionForgotten` are not inductive by themselves:
nothing in them says who holds a session that is neither pooled nor closed. The
inductive invariant adds that a thread in the factory holds the building lock
of its key in its generation, that what it has built nobody else holds, and
that a session a thread holds was built for its key. Building exclusion is only
true until `reset()` has replaced the locks, which is why the two properties
that depend on it say `epoch = 0`. `Refinement` shows that each step of the
pool is a step of the directory or a stutter when `reset()` is not called. For
the retirement order (`LeastRecentlyUsed`) the invariant is that the order of
use is strict and total on the entries; then how many entries were used after
one tells it from every other, so those with fewer than `MaxSize` after them
are at most `MaxSize`, and whatever is shed was used before whatever stays.

**`DoorCallProofs`.** The four invariants of the run, `RefusalsAreFree`, and the
refinement of `CallLedger`. A ledger invariant (`CallsOK`, `FreshOK`, `LedgerOK`)
ties the counter to the calls charged and says that each call number is in at
most one place; from it follow the ceiling, that refusals are free, and that
executions are recorded. The spend bound is the invariant that what is spent,
plus the most that calls past the line may still add, stays under the bound: a
potential argument over a sum of calls in flight.
`AuthOK` relates what a call has read to the histories of what was granted and
allowed, and gives `NoStaleAuthority` and `FirstAllowWins`. `LedgerRefinement`
shows every step to be one of `CallLedger` or a stutter. It adds `FateOK`: the
counter of an account is the number of the calls it has paid for, and a call in
flight has the fate its place says (`FateInFlight`), so that the step that
writes about it is the ledger's; `FateMoves` shows that it is nobody else's.

**`ToolRegistryProofs`.** `TypeCorrect` needs `Reading`: what a thread
registers is declared in the approvals it has read. `OneMeaningHolds` rests on
the fact that a name is only registered by the connector that holds it, so what
the door decided on is still bound when the broker looks. `ApprovedLatelyHolds`
rests on `Lately`: (1) in every state of the approvals one connector declares a
name; (2) a thread binds a connector that declared its tool after it arrived;
(3) for a call that has compared, whatever any other thread may still register
was read after the call arrived or is in its `older`; (4) so what is bound under
its tool is always late enough. The history of approvals is never rewritten
(`DeclaredStays`), so an administrative act makes nothing older.

**`McpSessionProofs`.** `NeverRunTwice`, `OutcomeIsTrue`, `OneExchangeAtATime`.
None is inductive: nothing in them says what is still on its way. The
strengthening says that ids are never given twice (`Numbered`), that only the
lock's holder exchanges messages (`LockHeld`), so that the reply under the id it
waits for is the reply to its own message and says what became of it
(`Awaited`); that a call about to be posted is untouched, neither run nor on its
way (`CallsAhead`), which is what a reply of "expired" or "refused" leaves behind
and what makes the retry of a write safe; that at most one message on its way
could run a call (`OneWillRun`), and none once the call was answered, with a
result or an error, or reported as unsent (`Settled`); and that a known session
that is not ready was cut short or is being opened by the holder (`Opening`).
Stalls touch none of this. One lemma covers every
way a request ends, one every reply that moves it on, one every handling by the
server; each action is an instance.

**`StreamedCallProofs`.** `OneRowPerCall`, `RowIsTrue`, `ToldOfABadEnd`, for any
cap and any length of answer. `Counted` ties the row to `_finalized`; `Placed`
says, for each place the request can be in, which generators exist and which
were entered, so that the one end without a row is that of generators nobody
entered.

**`OAuthProofs`, the server.** `OneTokenPerConsent`, `ReplayRevokes`,
`MintedForTheActive`. Who spends a code is alone with it: at most one thread
mints for a code, it has no token until that thread has made one, and nobody
mints for it afterwards (`OneMinter`, `WorkerSound`, `CodeSound`); so the token a
code's row names is the only one, and revoking it leaves nothing of the code
alive.

**`OAuthProofs`, a connection.** `ReuseOnlyAfterTrouble`, `NoSilentBreak`,
`OneExchangePerCode`, and the action property `RefreshStaysInGrant`. None is
inductive: nothing in them says who else has a token. `ConnInv` adds that a
thread in the critical section holds the lock or has lost it, so of two threads
with one token one has lost its lock (`LockOK`); that a thread which goes on
without its lock, or whose read no longer stands although the row still holds
its token, has one that is written down as torn (`ReadOK`); that what a thread
is about to store, a successor or the token of a new consent, is in nobody
else's hands (`AloneOK`) and descends from the same consent (`IssuedOK`); that a
spent token still in the row or still to be asked with is torn, or its successor
is about to be stored and will land (`SpentOK`); that a token that is not live
was spent or died with its grant (`DeadOK`); and that the code of a flow that
still waits was not exchanged (`PostedOK`). Every answer the provider may give
is one case of a step. The proof asks that a token can be issued at all
(`BoundsAssumption`): otherwise there is no consent a row could descend from.

**`KeyRotationProofs`.** All four properties. `Fleet`: once every process is off
the old key nothing is sealed under it, so a sweep that began then and walked
every table leaves only rows it named. `Walked`: a row still under the old key
in a table the sweep has passed was read by it, and is reported or still to
come. `Kept`: a row holds its last secret; the compare-and-set on bytes fails if
it was replaced since it was read. `Renewable`: only a write moves the stamp a
renewal compares; a reseal does not.

**`AgentProofs`, the history.** All four properties, two of them action properties. A
stamp is given to one write, so a row that carries the stamp of a page is the
agent the page shows, with the body it shows (`PageIsLive`); names being unique,
the grant was checked on it too. One lemma shows that a sound write (a new agent
at version 1, a repetition, or something else under the next number, which no
entry holds) keeps the history; each action makes only sound writes.

**`AgentProofs`, sharing.** `OneAccount`, `GivenByTheEntitled`,
`NothingLeftWaiting`, and the action property `SignInTakesNothing`. A statement
writes as if its request were still entitled, whatever was taken from its author
since the check, so no invariant about the present levels survives the step.
`SharingInv` speaks of the highest level somebody has held: it covers what they
hold (`EverOK`), and a request let through was once allowed what it is about to
do (`AllowedOnce`); one lemma shows that it never falls (`Remembered`). So
whatever is written names somebody who was entitled. Rows are unique by subject
because the insert finds none. In `NothingLeftWaiting` each step changes one
request: either the one that will claim is another and stays, or the step sees
to the address, or the address goes into `excused`. The proof needs that
`"none"`, the null of several columns, is not a person, an id or an address.

With these, every safety and action property that a passing run checks is a
theorem. Out of reach of the prover and left to TLC: liveness and everything
under fairness (`RequestsEnd`, `CallsEnd` and its condition, `RequestEnds`,
`LockIsFreed`),
ENABLED, and induction over data. No module declares a recursive operator.

## 6. What is next, and what is not modelled

Done: the pool and its directory, the session, the door, streams, OAuth on both
sides, the registry, the key rotation, sharing and sign-in, agents and their
history; the safety of all ten, and both refinements, proved.

Worth proving next, in a module that has a proof: that `Refinement` of the pool
holds up to a `reset()`, with the directory emptied by one. Worth modelling
next, each in place of something that has stood for a while:

1. Tokens and groups at the granularity of `DoorCall`'s `Regrant`, directory
   sync, and the last administrator.
2. The login backoff (`localidp/throttle.py:43-91`): the counter is read before
   the password is verified and written after it.
3. Migrations (`storage/migrate.py:455-541`): one lock, a commit per file, a
   crash between files.

Not modelled:

* Permission rules, argument patterns and limits, advertised tools, address
  checks and request building: pure functions of one configuration and one call,
  without state; the modules have their verdicts as choices.
* The declarative file, the command line, bootstrap and configuration: read once
  by one operator; what they write goes through operations that are modelled.
* Screens, the HTTP translation layer, the Python client, packaging, metrics and
  the deletion of expired rows: no decision is made there that the layers below
  do not make again.
* Signatures, ciphers and row-level security: the libraries' and the
  database's.
* Storage as such: a statement is a step of the module that needs it. The
  memory store repeats the PostgreSQL one statement by statement and most of
  both is one-row reads and writes, which is why the map names little of them.
