---------------------------- MODULE AgentHistory ----------------------------
(***************************************************************************)
(* The configurations an agent has had (agents/__init__.py, the routes of  *)
(* api/routes_agents.py and their statements in storage/): people edit,    *)
(* restore, rename and delete agents from pages they opened earlier, while *)
(* others do the same and the seed is run again.                           *)
(*                                                                         *)
(* An agent is a row under an opaque id; its name is a column, unique,     *)
(* that a rename frees for another agent.  An edit is a request of several *)
(* steps: the grant is checked by name, the row is read by name and merged *)
(* with the patch, and one statement writes the result if the row has not  *)
(* been written since the page was opened.  Rename and delete check, then  *)
(* write, by name alone.  Other requests run between any two steps, and a  *)
(* request may end between any two of them.                                *)
(*                                                                         *)
(* One customer.  Who holds which grant is AgentSharing's; here a check    *)
(* notes which agent it was made against.  Whether a configuration is one  *)
(* the validator accepts is left out: a request it refuses ends (Close).   *)
(***************************************************************************)
EXTENDS Naturals

CONSTANTS
    AgentIds,       \* new_agent_id: never drawn twice
    Names,
    Fields,         \* the top-level keys of a configuration, its name apart
    Values,
    Requests,       \* requests and the pages they come from, at once
    MaxWrites       \* bound: writes of an agent row

ASSUME HistoryAssumption == MaxWrites \in Nat /\ "none" \notin Names

\* A field a configuration does not have; a field a patch does not send.
Absent == "absent"
Keep   == "keep"
Bodies  == [Fields -> Values \cup {Absent}]
Patches == [Fields -> Values \cup {Keep}]
NoBody  == [f \in Fields |-> Absent]

Numbers == 1 .. MaxWrites

VARIABLES
    agents,     \* the row of each id; updated_at is the count of the write that set it
    versions,   \* agent_versions: the entry under each number of each id
    req,        \* the requests, and the page each came from
    drawn,      \* the ids handed out so far
    writes      \* writes so far

vars == <<agents, versions, req, drawn, writes>>

NoAgent == [name |-> "none", body |-> NoBody, version |-> 0, stamp |-> 0]
NoEntry == [name |-> "none", body |-> NoBody, from |-> 0]

\* What a page shows, and the agent the reader was looking at (which no client is told).
NoPage  == [name |-> "none", stamp |-> 0, body |-> NoBody, agent |-> "none"]
Idle    == [at |-> "idle", page |-> NoPage, checked |-> "none", body |-> NoBody, from |-> 0]

Living    == {i \in AgentIds : agents[i].version # 0}
Called(n) == {i \in Living : agents[i].name = n}

Init ==
    /\ agents = [i \in AgentIds |-> NoAgent]
    /\ versions = [i \in AgentIds |-> [v \in Numbers |-> NoEntry]]
    /\ req = [r \in Requests |-> Idle]
    /\ drawn = {} /\ writes = 0

-----------------------------------------------------------------------------
(* Writing a row, and its entry with it.                                   *)

\* merge: a key the patch does not send is untouched.
Merge(body, patch) == [f \in Fields |-> IF patch[f] = Keep THEN body[f] ELSE patch[f]]

\* The version a write of this body gets: it advances if the configuration changes.
NextVersion_Rewinds(i, body, from) ==
    IF from # 0 THEN from
    ELSE IF body = agents[i].body THEN agents[i].version ELSE agents[i].version + 1

NextVersion(i, body, from) ==
    IF body = agents[i].body THEN agents[i].version ELSE agents[i].version + 1

\* _write_version: an entry that is there already is kept.
Recorded_Nothing(i, row, from) == versions[i]

Recorded(i, row, from) ==
    IF versions[i][row.version] = NoEntry
    THEN [versions[i] EXCEPT ![row.version] =
             [name |-> row.name, body |-> row.body, from |-> from]]
    ELSE versions[i]

\* What rolls the transaction back: another configuration under that number, or a
\* restore of a version this agent does not have.
Fits(i, row, from) ==
    /\ row.version \in Numbers
    /\ \/ versions[i][row.version] = NoEntry
       \/ /\ versions[i][row.version].name = row.name
          /\ versions[i][row.version].body = row.body
    /\ from # 0 => versions[i][from] # NoEntry

Saves(i, row, from) ==
    /\ Fits(i, row, from)
    /\ writes < MaxWrites
    /\ writes' = writes + 1
    /\ agents' = [agents EXCEPT ![i] = [row EXCEPT !.stamp = writes + 1]]
    /\ versions' = [versions EXCEPT ![i] = Recorded(i, row, from)]

Ends(r) == req' = [req EXCEPT ![r] = Idle]

-----------------------------------------------------------------------------
(* Making agents.                                                          *)

\* POST /agents: the row, the grant and the first version, in one transaction.  A name
\* that is taken refuses it.
Create(i, n, body) ==
    /\ i \notin drawn /\ Called(n) = {}
    /\ Saves(i, [name |-> n, body |-> body, version |-> 1, stamp |-> 0], 0)
    /\ drawn' = drawn \cup {i}
    /\ UNCHANGED req

\* save, which the seed runs at every boot: it makes the agent of that name or replaces
\* its configuration, whoever has written it since.
Seed(n, body) ==
    /\ \/ /\ Called(n) = {}
          /\ \E i \in AgentIds \ drawn :
                /\ Saves(i, [name |-> n, body |-> body, version |-> 1, stamp |-> 0], 0)
                /\ drawn' = drawn \cup {i}
       \/ /\ \E i \in Called(n) :
                Saves(i, [agents[i] EXCEPT !.body = body,
                                           !.version = NextVersion(i, body, 0)], 0)
          /\ UNCHANGED drawn
    /\ UNCHANGED req

-----------------------------------------------------------------------------
(* Changing them.                                                          *)

\* GET /agents/{name}: the configuration, and updated_at as its ETag.
Open(r, n) ==
    /\ req[r] = Idle
    /\ \E i \in Called(n) :
          req' = [req EXCEPT ![r] =
                    [Idle EXCEPT !.at = "open",
                                 !.page = [name |-> n, stamp |-> agents[i].stamp,
                                           body |-> agents[i].body, agent |-> i]]]
    /\ UNCHANGED <<agents, versions, drawn, writes>>

\* The page is closed; a request is refused, or dies with its process.
Close(r) ==
    /\ req[r] # Idle
    /\ Ends(r)
    /\ UNCHANGED <<agents, versions, drawn, writes>>

\* _require_agent, by the name in the URL: an editor with a page, or an owner, who needs
\* none.
Check(r, what) ==
    /\ req[r].at = "open"
    /\ \E i \in Called(req[r].page.name) :
          req' = [req EXCEPT ![r].at = what, ![r].checked = i]
    /\ UNCHANGED <<agents, versions, drawn, writes>>

CheckOwner(r, n, what) ==
    /\ req[r] = Idle
    /\ Called(n) # {}
    /\ req' = [req EXCEPT ![r].at = what, ![r].page.name = n]
    /\ UNCHANGED <<agents, versions, drawn, writes>>

\* update: the row is read again, by name, and the patch merged into what it holds now.
Patch(r, patch) ==
    /\ req[r].at = "edit"
    /\ \E i \in Called(req[r].page.name) :
          req' = [req EXCEPT ![r].at = "write", ![r].body = Merge(agents[i].body, patch)]
    /\ UNCHANGED <<agents, versions, drawn, writes>>

\* restore: the whole of the old configuration, under the name the agent has now.
Restored_Merged(i, number) ==
    [f \in Fields |-> IF versions[i][number].body[f] = Absent
                      THEN agents[i].body[f] ELSE versions[i][number].body[f]]

Restored(i, number) == versions[i][number].body

PickVersion(r, number) ==
    /\ req[r].at = "restore"
    /\ \E i \in Called(req[r].page.name) :
          /\ versions[i][number] # NoEntry
          /\ req' = [req EXCEPT ![r].at = "write", ![r].body = Restored(i, number),
                                ![r].from = number]
    /\ UNCHANGED <<agents, versions, drawn, writes>>

\* update_agent's WHERE: the row of that name, if it has not been written since.
Unchanged_Ignored(r) == Called(req[r].page.name)

Unchanged(r) == {i \in Called(req[r].page.name) : agents[i].stamp = req[r].page.stamp}

\* update_agent: one statement and its entry; a conflict, or a refusal, writes nothing.
Written(r, i) ==
    [agents[i] EXCEPT !.body = req[r].body,
                      !.version = NextVersion(i, req[r].body, req[r].from)]

Write(r) ==
    /\ req[r].at = "write"
    /\ \/ \E i \in Unchanged(r) : Saves(i, Written(r, i), req[r].from)
       \/ /\ \A i \in Unchanged(r) : ~ Fits(i, Written(r, i), req[r].from)
          /\ UNCHANGED <<agents, versions, writes>>
    /\ Ends(r)
    /\ UNCHANGED drawn

\* rename_agent, by name: the column and the configuration in one statement.  A name
\* that is taken, or that is free again, ends the request.
Rename(r, to) ==
    /\ req[r].at = "rename" /\ to # req[r].page.name
    /\ \/ /\ Called(to) = {}
          /\ \E i \in Called(req[r].page.name) :
                Saves(i, [agents[i] EXCEPT !.name = to, !.version = @ + 1], 0)
       \/ /\ Called(to) # {} \/ Called(req[r].page.name) = {}
          /\ UNCHANGED <<agents, versions, writes>>
    /\ Ends(r)
    /\ UNCHANGED drawn

\* delete_agent, by name: the history goes with the row.
Delete(r) ==
    /\ req[r].at = "delete"
    /\ LET gone == Called(req[r].page.name)
       IN /\ agents' = [i \in AgentIds |-> IF i \in gone THEN NoAgent ELSE agents[i]]
          /\ versions' = [i \in AgentIds |-> IF i \in gone THEN [v \in Numbers |-> NoEntry]
                                             ELSE versions[i]]
    /\ Ends(r)
    /\ UNCHANGED <<drawn, writes>>

Next ==
    \/ \E n \in Names, body \in Bodies : Seed(n, body) \/ \E i \in AgentIds : Create(i, n, body)
    \/ \E r \in Requests :
          \/ \E n \in Names : Open(r, n) \/ Rename(r, n)
          \/ \E what \in {"edit", "restore"} : Check(r, what)
          \/ \E n \in Names, what \in {"rename", "delete"} : CheckOwner(r, n, what)
          \/ \E patch \in Patches : Patch(r, patch)
          \/ \E number \in Numbers : PickVersion(r, number)
          \/ Write(r) \/ Delete(r) \/ Close(r)

Spec == Init /\ [][Next]_vars

-----------------------------------------------------------------------------
(* What must hold.                                                         *)

Rows     == [name : Names \cup {"none"}, body : Bodies, version : 0 .. MaxWrites,
             stamp : 0 .. MaxWrites]
Entries  == [name : Names \cup {"none"}, body : Bodies, from : 0 .. MaxWrites]
Pages    == [name : Names \cup {"none"}, stamp : 0 .. MaxWrites, body : Bodies,
             agent : AgentIds \cup {"none"}]
Places   == {"idle", "open", "edit", "restore", "rename", "delete", "write"}

TypeOK ==
    /\ agents \in [AgentIds -> Rows]
    /\ versions \in [AgentIds -> [Numbers -> Entries]]
    /\ req \in [Requests -> [at : Places, page : Pages, checked : AgentIds \cup {"none"},
                             body : Bodies, from : 0 .. MaxWrites]]
    /\ drawn \subseteq AgentIds
    /\ writes \in 0 .. MaxWrites

\* What is live is the newest entry of the agent's history, and every number up to it has
\* an entry: no write, of any kind, leaves a configuration recorded nowhere.
LiveIsRecorded ==
    \A i \in AgentIds :
        /\ i \in Living =>
              /\ versions[i][agents[i].version].name = agents[i].name
              /\ versions[i][agents[i].version].body = agents[i].body
        /\ \A v \in Numbers : versions[i][v] # NoEntry <=> v <= agents[i].version

\* An entry that says it restored another one holds exactly what that one, of the same
\* agent, holds: no field of the configuration it replaced survives in it.
RestoreIsExact ==
    \A i \in AgentIds : \A v \in Numbers :
        LET from == versions[i][v].from
        IN from # 0 => /\ from < v
                       /\ versions[i][from] # NoEntry
                       /\ versions[i][v].body = versions[i][from].body

\* A request that changes a row changes the agent its author was looking at, from exactly
\* the configuration they saw, and the grant that was checked was on that agent: through
\* renames, deletions and names that moved to another agent.
EditsBuildOnWhatWasSeen ==
    [][\A r \in Requests : \A i \in AgentIds :
          (req[r].at = "write" /\ req'[r] = Idle /\ agents'[i] # agents[i])
          => /\ i = req[r].page.agent /\ i = req[r].checked
             /\ agents[i].name = req[r].page.name
             /\ agents[i].body = req[r].page.body]_vars

\* An agent's history only grows while it lives: its version never goes back, no entry
\* changes or goes, and an id that is gone does not come back.
HistoryOnlyGrows ==
    [][\A i \in AgentIds :
          /\ i \in Living' =>
                /\ agents'[i].version >= agents[i].version
                /\ \A v \in Numbers : versions[i][v] # NoEntry => versions'[i][v] = versions[i][v]
          /\ i \in drawn \ Living => i \notin Living']_vars

=============================================================================
