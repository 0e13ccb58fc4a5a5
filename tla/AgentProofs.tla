---------------------------- MODULE AgentProofs -----------------------------
(***************************************************************************)
(* The properties of an agent's history (AgentHistory) and of who it is    *)
(* shared with (AgentSharing) hold for any agents, names, fields, people,  *)
(* addresses and requests and any number of writes.                        *)
(*                                                                         *)
(* The argument for the history.  A stamp is given to one write, so a row  *)
(* that carries the stamp of a page has not been written since the page    *)
(* was opened: it is the agent the page was opened on, under the name and  *)
(* with the body the page shows (PageIsLive).  Names being unique, the     *)
(* agent the grant was checked on and the one whose old version was read   *)
(* are that agent too.  Every write of a row is sound: it makes a new      *)
(* agent at version 1, repeats what is live, or puts something else under  *)
(* the next number, which no entry holds.  One lemma shows that a sound    *)
(* write keeps the history, and each action is shown to make only sound    *)
(* writes.                                                                 *)
(*                                                                         *)
(* The argument for sharing.  Every statement writes as if its request     *)
(* were still entitled, whatever has been taken from it since it was       *)
(* checked; so what is kept is what it was: the highest level somebody has *)
(* held covers what they hold (EverOK) and never falls (Remembered), and a *)
(* request that has been let through was once allowed what it is about to  *)
(* do (AllowedOnce).  Of one subject there is one row, because a row is    *)
(* only made while there is none.  A row that comes to have an address is  *)
(* the one whose sign-in will claim for it, or the address is written down *)
(* as excused, so nothing waits for an address beside its owner.           *)
(***************************************************************************)
EXTENDS AgentHistory, AgentSharing, TLAPS

LEMMA NoBodyType == NoBody \in Bodies
BY DEF NoBody, Bodies

LEMMA MergeType ==
    ASSUME NEW body \in Bodies, NEW patch \in Patches
    PROVE  Merge(body, patch) \in Bodies
BY DEF Merge, Bodies, Patches

-----------------------------------------------------------------------------
(* The history: the strengthening.                                         *)

\* A row that is not there is blank; one that is there has its own id, name and stamp.
RowsAreDistinct ==
    /\ \A i \in AgentIds : i \notin Living => agents[i] = NoAgent
    /\ \A i \in Living : i \in drawn /\ agents[i].name # "none"
                         /\ agents[i].stamp \in 1 .. writes
    /\ \A i, j \in Living : agents[i].name = agents[j].name => i = j
    /\ \A i, j \in Living : agents[i].stamp = agents[j].stamp => i = j

\* A living row that carries the stamp of a page is as the page shows it.
PageIsLive(r) ==
    /\ req[r].page.stamp <= writes
    /\ \A i \in Living : agents[i].stamp = req[r].page.stamp =>
          /\ i = req[r].page.agent
          /\ agents[i].name = req[r].page.name
          /\ agents[i].body = req[r].page.body

\* ... the grant that was checked was on that agent ...
CheckIsOfThePage(r) ==
    req[r].at \in {"edit", "restore", "write"} =>
        \A i \in Living : agents[i].stamp = req[r].page.stamp => i = req[r].checked

\* ... and so was the old version that is to be put back.
RestoresItsOwn(r) ==
    req[r].at = "write" /\ req[r].from # 0 =>
        \A i \in Living : agents[i].stamp = req[r].page.stamp =>
            /\ req[r].from <= agents[i].version
            /\ req[r].body = versions[i][req[r].from].body

IsSound(r) ==
    /\ req[r].at \in {"open", "edit", "restore", "write"} => PageIsLive(r)
    /\ CheckIsOfThePage(r)
    /\ RestoresItsOwn(r)
    /\ req[r].from # 0 => req[r].at = "write"

RequestsAreSound == \A r \in Requests : IsSound(r)

History == LiveIsRecorded /\ RestoreIsExact /\ RowsAreDistinct

IInv == TypeOK /\ History /\ RequestsAreSound

\* What every write of a row is.
Sound(i, row, from) ==
    /\ i \in AgentIds /\ row \in Rows /\ row.name # "none" /\ from \in 0 .. MaxWrites
    /\ Called(row.name) \subseteq {i}
    /\ \/ i \notin drawn /\ row.version = 1 /\ from = 0
       \/ /\ i \in Living
          /\ \/ row.version = agents[i].version + 1
             \/ /\ row.version = agents[i].version
                /\ row.name = agents[i].name /\ row.body = agents[i].body
          /\ from # 0 => from <= agents[i].version /\ row.body = versions[i][from].body

-----------------------------------------------------------------------------
(* The history: a sound write.                                             *)

\* What it leaves behind.
Effect(i, row, from) ==
    /\ agents' \in [AgentIds -> Rows]
    /\ versions' \in [AgentIds -> [Numbers -> Entries]]
    /\ writes' \in 0 .. MaxWrites /\ writes' = writes + 1
    /\ row.version \in Numbers
    /\ agents'[i].name = row.name /\ agents'[i].body = row.body
    /\ agents'[i].version = row.version /\ agents'[i].stamp = writes + 1
    /\ \A k \in AgentIds : k # i => agents'[k] = agents[k] /\ versions'[k] = versions[k]
    /\ \A v \in Numbers : v # row.version => versions'[i][v] = versions[i][v]
    /\ versions'[i][row.version] =
          IF versions[i][row.version] = NoEntry
          THEN [name |-> row.name, body |-> row.body, from |-> from]
          ELSE versions[i][row.version]

LEMMA SaveTypes ==
    ASSUME TypeOK, NEW i, NEW row, NEW from, Sound(i, row, from), Saves(i, row, from)
    PROVE  Effect(i, row, from)
<1> USE HistoryAssumption
<1>1. i \in AgentIds /\ row \in Rows /\ from \in 0 .. MaxWrites BY DEF Sound
<1>2. row.version \in Numbers BY DEF Saves, Fits
<1>3. writes \in Nat /\ writes < MaxWrites /\ writes' = writes + 1 BY DEF Saves, TypeOK
<1>4. agents' = [agents EXCEPT ![i] = [row EXCEPT !.stamp = writes + 1]]
      /\ versions' = [versions EXCEPT ![i] = Recorded(i, row, from)]
  BY DEF Saves
<1>5. [row EXCEPT !.stamp = writes + 1] \in Rows BY <1>1, <1>3 DEF Rows
<1>6. [name |-> row.name, body |-> row.body, from |-> from] \in Entries
  BY <1>1 DEF Rows, Entries
<1>7. Recorded(i, row, from) \in [Numbers -> Entries]
  BY <1>1, <1>2, <1>6 DEF Recorded, TypeOK
<1>8. agents' \in [AgentIds -> Rows] /\ versions' \in [AgentIds -> [Numbers -> Entries]]
  BY <1>1, <1>4, <1>5, <1>7 DEF TypeOK
<1>9. agents'[i] = [row EXCEPT !.stamp = writes + 1] BY <1>1, <1>4 DEF TypeOK
<1>10. agents'[i].name = row.name /\ agents'[i].body = row.body
       /\ agents'[i].version = row.version /\ agents'[i].stamp = writes + 1
  BY <1>1, <1>9 DEF Rows
<1>11. \A k \in AgentIds : k # i => agents'[k] = agents[k] /\ versions'[k] = versions[k]
  BY <1>4 DEF TypeOK
<1>12. versions'[i] = Recorded(i, row, from) BY <1>1, <1>4 DEF TypeOK
<1>13. versions[i] \in [Numbers -> Entries] BY <1>1 DEF TypeOK
<1>14. /\ \A v \in Numbers : v # row.version => versions'[i][v] = versions[i][v]
       /\ versions'[i][row.version] =
                 IF versions[i][row.version] = NoEntry
                 THEN [name |-> row.name, body |-> row.body, from |-> from]
                 ELSE versions[i][row.version]
  BY <1>2, <1>12, <1>13 DEF Recorded
<1>15. writes' \in 0 .. MaxWrites BY <1>3
<1> QED BY <1>2, <1>3, <1>8, <1>10, <1>11, <1>14, <1>15 DEF Effect

\* No living agent has an entry above its version, nor a gap below it.
LEMMA Numbered ==
    ASSUME TypeOK, LiveIsRecorded, NEW i \in AgentIds, NEW v \in Numbers
    PROVE  versions[i][v] # NoEntry <=> v <= agents[i].version
BY DEF LiveIsRecorded

LEMMA SaveKeepsHistory ==
    ASSUME TypeOK, History, NEW i, NEW row, NEW from, Sound(i, row, from),
           Saves(i, row, from), drawn' = drawn \cup {i} \/ (i \in Living /\ drawn' = drawn)
    PROVE  History'
<1> USE HistoryAssumption
<1>0. i \in AgentIds /\ row \in Rows /\ row.name # "none" /\ from \in 0 .. MaxWrites
  BY DEF Sound
<1>1. /\ agents' \in [AgentIds -> Rows]
      /\ versions' \in [AgentIds -> [Numbers -> Entries]]
      /\ writes' = writes + 1
      /\ row.version \in Numbers
      /\ agents'[i].name = row.name /\ agents'[i].body = row.body
      /\ agents'[i].version = row.version /\ agents'[i].stamp = writes + 1
      /\ \A k \in AgentIds : k # i => agents'[k] = agents[k] /\ versions'[k] = versions[k]
      /\ \A v \in Numbers : v # row.version => versions'[i][v] = versions[i][v]
      /\ versions'[i][row.version] =
            IF versions[i][row.version] = NoEntry
            THEN [name |-> row.name, body |-> row.body, from |-> from]
            ELSE versions[i][row.version]
  BY SaveTypes DEF Effect
<1>2. agents \in [AgentIds -> Rows] /\ versions \in [AgentIds -> [Numbers -> Entries]]
      /\ writes \in Nat /\ drawn \subseteq AgentIds
  BY DEF TypeOK
<1>3. Living' = Living \cup {i}
  BY <1>0, <1>1 DEF Living, Numbers
<1>4. agents[i].version \in Nat /\ row.version \in Nat \ {0} BY <1>0, <1>1, <1>2 DEF Rows, Numbers
<1>5. CASE row.version = agents[i].version /\ i \in Living
           /\ row.name = agents[i].name /\ row.body = agents[i].body
  <2>1. versions[i][row.version] # NoEntry BY <1>0, <1>1, <1>5, <1>4, Numbered DEF History
  <2>2. \A v \in Numbers : versions'[i][v] = versions[i][v] BY <1>1, <2>1
  <2>3. \A k \in AgentIds, v \in Numbers : versions'[k][v] = versions[k][v] BY <1>1, <2>2
  <2>4. \A k \in AgentIds : /\ agents'[k].version = agents[k].version
                            /\ agents'[k].name = agents[k].name
                            /\ agents'[k].body = agents[k].body
    BY <1>1, <1>5
  <2>5. Living' = Living BY <1>3, <1>5
  <2>6. LiveIsRecorded'
    <3>1. \A k \in Living : agents[k].version \in Numbers
      BY <1>2 DEF Living, Rows, Numbers
    <3> QED BY <2>3, <2>4, <2>5, <3>1 DEF History, LiveIsRecorded, Living
  <2>7. RestoreIsExact'
    <3> SUFFICES ASSUME NEW k \in AgentIds, NEW v \in Numbers, versions'[k][v].from # 0
                 PROVE  /\ versions'[k][v].from < v
                        /\ versions'[k][versions'[k][v].from] # NoEntry
                        /\ versions'[k][v].body = versions'[k][versions'[k][v].from].body
      BY DEF RestoreIsExact
    <3>1. versions'[k][v] = versions[k][v] BY <2>3
    <3>2. versions[k][v].from \in Numbers BY <1>2, <3>1 DEF Entries, Numbers
    <3> QED BY <2>3, <3>1, <3>2 DEF History, RestoreIsExact
  <2>8. RowsAreDistinct'
    <3>1. \A k \in AgentIds : k \notin Living' => agents'[k] = NoAgent
      BY <1>1, <1>3 DEF History, RowsAreDistinct
    <3>2. \A k \in Living : k \in drawn' /\ agents'[k].name # "none"
                             /\ agents'[k].stamp \in 1 .. writes'
      BY <1>0, <1>1, <1>2 DEF History, RowsAreDistinct, Living
    <3>3. \A k, j \in Living : agents'[k].name = agents'[j].name => k = j
      BY <2>4 DEF History, RowsAreDistinct, Living
    <3>4. \A k, j \in Living : agents'[k].stamp = agents'[j].stamp => k = j
      BY <1>1, <1>2 DEF History, RowsAreDistinct, Living
    <3> QED BY <2>5, <3>1, <3>2, <3>3, <3>4 DEF RowsAreDistinct
  <2> QED BY <2>6, <2>7, <2>8 DEF History
<1>6. CASE row.version = agents[i].version + 1
  <2>1. versions[i][row.version] = NoEntry
    BY <1>0, <1>1, <1>6, <1>4, Numbered DEF History
  <2>2. versions'[i][row.version] = [name |-> row.name, body |-> row.body, from |-> from]
    BY <1>1, <2>1
  <2>3. versions'[i][row.version] # NoEntry BY <1>0, <2>2 DEF NoEntry
  <2>4. LiveIsRecorded'
    <3> SUFFICES ASSUME NEW k \in AgentIds
                 PROVE  /\ k \in Living' =>
                             /\ versions'[k][agents'[k].version].name = agents'[k].name
                             /\ versions'[k][agents'[k].version].body = agents'[k].body
                        /\ \A v \in Numbers :
                             versions'[k][v] # NoEntry <=> v <= agents'[k].version
      BY DEF LiveIsRecorded
    <3>1. CASE k # i BY <3>1, <1>1, <1>3 DEF History, LiveIsRecorded
    <3>2. CASE k = i
      <4>1. \A v \in Numbers : v # row.version =>
                (versions'[i][v] # NoEntry <=> v <= agents[i].version)
        BY <1>0, <1>1, Numbered DEF History
      <4>2. \A v \in Numbers : versions'[i][v] # NoEntry <=> v <= agents'[i].version
        <5> SUFFICES ASSUME NEW v \in Numbers
                     PROVE  versions'[i][v] # NoEntry <=> v <= row.version
          BY <1>1
        <5>1. CASE v = row.version BY <5>1, <2>3, <1>4
        <5>2. CASE v # row.version
          <6>1. v <= row.version <=> v <= agents[i].version
            BY <5>2, <1>4, <1>6 DEF Numbers
          <6> QED BY <5>2, <6>1, <4>1
        <5> QED BY <5>1, <5>2
      <4>3. /\ versions'[i][agents'[i].version].name = agents'[i].name
            /\ versions'[i][agents'[i].version].body = agents'[i].body
        BY <1>1, <2>2
      <4> QED BY <3>2, <4>2, <4>3
    <3> QED BY <3>1, <3>2
  <2>5. RestoreIsExact'
    <3> SUFFICES ASSUME NEW k \in AgentIds, NEW v \in Numbers, versions'[k][v].from # 0
                 PROVE  /\ versions'[k][v].from < v
                        /\ versions'[k][versions'[k][v].from] # NoEntry
                        /\ versions'[k][v].body = versions'[k][versions'[k][v].from].body
      BY DEF RestoreIsExact
    <3>0. \A w \in Numbers : versions[k][w].from # 0 =>
              /\ versions[k][w].from < w /\ versions[k][versions[k][w].from] # NoEntry
              /\ versions[k][w].body = versions[k][versions[k][w].from].body
      BY DEF History, RestoreIsExact
    <3>1. CASE k # i BY <3>0, <3>1, <1>1
    <3>2. CASE k = i /\ v # row.version
      <4>1. versions'[i][v] = versions[i][v] BY <3>2, <1>1
      <4>2. versions[i][v].from \in Numbers BY <1>0, <1>2, <4>1, <3>2 DEF Entries, Numbers
      <4>3. versions[i][v].from # row.version BY <3>0, <3>2, <4>1, <2>1
      <4>4. versions'[i][versions[i][v].from] = versions[i][versions[i][v].from]
        BY <4>2, <4>3, <1>1
      <4> QED BY <3>0, <3>2, <4>1, <4>4
    <3>3. CASE k = i /\ v = row.version
      <4>1. versions'[i][v].from = from /\ versions'[i][v].body = row.body
        BY <3>3, <2>2
      <4>2. from # 0 /\ i \in Living BY <3>3, <4>1 DEF Sound
      <4>3. from <= agents[i].version /\ row.body = versions[i][from].body
        BY <4>2, <1>6, <1>4, <3>3, <1>0 DEF Sound
      <4>4. from \in Numbers /\ from < row.version
        BY <4>2, <4>3, <1>0, <1>4, <1>6 DEF Numbers
      <4>5. versions'[i][from] = versions[i][from] BY <4>4, <1>1, <1>4
      <4>6. versions[i][from] # NoEntry BY <4>3, <4>4, <1>0, Numbered DEF History
      <4> QED BY <3>3, <4>1, <4>3, <4>4, <4>5, <4>6
    <3> QED BY <3>1, <3>2, <3>3
  <2>6. RowsAreDistinct'
    <3>1. \A k \in AgentIds : k \notin Living' => agents'[k] = NoAgent
      BY <1>1, <1>3 DEF History, RowsAreDistinct
    <3>2. \A k \in Living' : k \in drawn' /\ agents'[k].name # "none"
                             /\ agents'[k].stamp \in 1 .. writes'
      BY <1>0, <1>1, <1>2, <1>3 DEF History, RowsAreDistinct, Living
    <3>3. \A k \in Living : k # i => agents'[k].name # row.name
      BY <1>1 DEF Sound, Called, Living
    <3>4. \A k, j \in Living' : agents'[k].name = agents'[j].name => k = j
      BY <1>1, <1>3, <3>3 DEF History, RowsAreDistinct, Living
    <3>5. \A k, j \in Living' : agents'[k].stamp = agents'[j].stamp => k = j
      BY <1>1, <1>2, <1>3 DEF History, RowsAreDistinct, Living
    <3> QED BY <3>1, <3>2, <3>4, <3>5 DEF RowsAreDistinct
  <2> QED BY <2>4, <2>5, <2>6 DEF History
<1>7. i \notin drawn /\ row.version = 1 => row.version = agents[i].version + 1
  BY <1>0 DEF History, RowsAreDistinct, NoAgent
<1> QED BY <1>5, <1>6, <1>7 DEF Sound

-----------------------------------------------------------------------------
(* The history: what a step leaves of the requests.                        *)

LEMMA IdleIsSound ==
    ASSUME NEW r \in Requests, req'[r] = Idle
    PROVE  IsSound(r)'
BY DEF IsSound, CheckIsOfThePage, RestoresItsOwn, Idle

\* A write of another row, or of this one under a new stamp, breaks no page.
LEMMA SaveKeepsRequest ==
    ASSUME IInv, NEW i \in AgentIds, NEW row, NEW from, Effect(i, row, from),
           NEW r \in Requests, req'[r] = req[r]
    PROVE  IsSound(r)'
<1>3. req'[r].from # 0 => req'[r].at = "write" BY DEF IInv, RequestsAreSound, IsSound
<1>1. CASE req[r].at \in {"open", "edit", "restore", "write"}
  <2>1. req[r].page.stamp <= writes /\ req[r].page.stamp \in Nat /\ writes \in Nat
    BY <1>1, HistoryAssumption DEF IInv, RequestsAreSound, IsSound, PageIsLive, TypeOK, Pages
  <2>2. \A k \in Living' : agents'[k].stamp = req[r].page.stamp =>
            k \in Living /\ agents'[k] = agents[k] /\ versions'[k] = versions[k]
    BY <2>1 DEF Effect, Living
  <2>3. PageIsLive(r)'
    BY <1>1, <2>1, <2>2 DEF IInv, RequestsAreSound, IsSound, PageIsLive, Effect
  <2>4. CheckIsOfThePage(r)'
    BY <2>2 DEF IInv, RequestsAreSound, IsSound, CheckIsOfThePage
  <2>5. RestoresItsOwn(r)'
    BY <2>2 DEF IInv, RequestsAreSound, IsSound, RestoresItsOwn
  <2> QED BY <2>3, <2>4, <2>5, <1>3 DEF IsSound
<1>2. CASE req[r].at \notin {"open", "edit", "restore", "write"}
  BY <1>2, <1>3 DEF IsSound, CheckIsOfThePage, RestoresItsOwn
<1> QED BY <1>1, <1>2

\* Rows that go, and nothing else.
LEMMA LossKeepsRequest ==
    ASSUME IInv, NEW r \in Requests, req'[r] = req[r], writes' = writes,
           \A k \in Living' : k \in Living /\ agents'[k] = agents[k]
                              /\ versions'[k] = versions[k]
    PROVE  IsSound(r)'
BY DEF IInv, RequestsAreSound, IsSound, PageIsLive, CheckIsOfThePage, RestoresItsOwn

-----------------------------------------------------------------------------
(* The history: every write is sound.                                      *)

\* A step that writes a row, soundly.
Writes(i, row, from) ==
    /\ Sound(i, row, from) /\ Saves(i, row, from)
    /\ drawn' = drawn \cup {i} \/ (i \in Living /\ drawn' = drawn)

LEMMA NewIsSound ==
    ASSUME IInv, NEW i \in AgentIds \ drawn, NEW n \in Names, NEW body \in Bodies,
           Called(n) = {},
           Saves(i, [name |-> n, body |-> body, version |-> 1, stamp |-> 0], 0)
    PROVE  Sound(i, [name |-> n, body |-> body, version |-> 1, stamp |-> 0], 0)
<1> DEFINE row == [name |-> n, body |-> body, version |-> 1, stamp |-> 0]
<1>1. 1 \in 0 .. MaxWrites /\ 0 \in 0 .. MaxWrites
  BY HistoryAssumption DEF Saves, IInv, TypeOK
<1>2. row \in Rows BY <1>1 DEF Rows
<1>3. row.name # "none" BY HistoryAssumption
<1> QED BY <1>1, <1>2, <1>3 DEF Sound

\* What is written over a living row: the same under the same version, or something else
\* under the next one.
LEMMA OverIsSound ==
    ASSUME IInv, NEW i \in Living, NEW body \in Bodies, NEW from \in 0 .. MaxWrites,
           from # 0 => from <= agents[i].version /\ body = versions[i][from].body,
           NEW row, row = [agents[i] EXCEPT !.body = body,
                                            !.version = NextVersion(i, body, from)],
           Saves(i, row, from)
    PROVE  Sound(i, row, from)
<1>1. i \in AgentIds /\ agents[i] \in Rows BY DEF Living, IInv, TypeOK
<1>2. row.version \in Numbers BY DEF Saves, Fits
<1>3. /\ row.name = agents[i].name /\ row.body = body /\ row.stamp = agents[i].stamp
      /\ row.version = NextVersion(i, body, from)
  BY <1>1 DEF Rows
<1>4. row \in Rows
  <2>1. row = [name |-> agents[i].name, body |-> body, version |-> row.version,
               stamp |-> agents[i].stamp]
    BY <1>1, <1>3 DEF Rows
  <2> QED BY <1>1, <1>2, <2>1, HistoryAssumption DEF Rows, Numbers
<1>5. row.name # "none" /\ Called(row.name) \subseteq {i}
  BY <1>3 DEF IInv, History, RowsAreDistinct, Called
<1>6. \/ row.version = agents[i].version + 1
      \/ row.version = agents[i].version /\ row.body = agents[i].body
  BY <1>3 DEF NextVersion
<1> QED BY <1>1, <1>3, <1>4, <1>5, <1>6 DEF Sound

LEMMA RenamedIsSound ==
    ASSUME IInv, NEW i \in Living, NEW to \in Names, Called(to) = {},
           NEW row, row = [agents[i] EXCEPT !.name = to, !.version = @ + 1],
           Saves(i, row, 0)
    PROVE  Sound(i, row, 0)
<1>1. i \in AgentIds /\ agents[i] \in Rows BY DEF Living, IInv, TypeOK
<1>2. row.version \in Numbers BY DEF Saves, Fits
<1>3. /\ row.name = to /\ row.body = agents[i].body /\ row.stamp = agents[i].stamp
      /\ row.version = agents[i].version + 1
  BY <1>1 DEF Rows
<1>4. row \in Rows
  <2>1. row = [name |-> to, body |-> agents[i].body, version |-> row.version,
               stamp |-> agents[i].stamp]
    BY <1>1, <1>3 DEF Rows
  <2> QED BY <1>1, <1>2, <2>1, HistoryAssumption DEF Rows, Numbers
<1>5. 0 \in 0 .. MaxWrites BY HistoryAssumption
<1> QED BY <1>1, <1>3, <1>4, <1>5, HistoryAssumption DEF Sound

LEMMA CreateWrites ==
    ASSUME IInv, NEW i \in AgentIds, NEW n \in Names, NEW body \in Bodies, Create(i, n, body)
    PROVE  /\ \E row : Writes(i, row, 0)
           /\ req' = req
BY NewIsSound DEF Create, Writes

LEMMA SeedWrites ==
    ASSUME IInv, NEW n \in Names, NEW body \in Bodies, Seed(n, body)
    PROVE  /\ \E i \in AgentIds : \E row : Writes(i, row, 0)
           /\ req' = req
<1>1. CASE Called(n) = {} /\ \E i \in AgentIds \ drawn :
               /\ Saves(i, [name |-> n, body |-> body, version |-> 1, stamp |-> 0], 0)
               /\ drawn' = drawn \cup {i}
  BY <1>1, NewIsSound DEF Seed, Writes
<1>2. CASE drawn' = drawn /\ \E i \in Called(n) :
               Saves(i, [agents[i] EXCEPT !.body = body,
                                          !.version = NextVersion(i, body, 0)], 0)
  <2>1. PICK i \in Called(n) :
               Saves(i, [agents[i] EXCEPT !.body = body,
                                          !.version = NextVersion(i, body, 0)], 0)
    BY <1>2
  <2>2. i \in Living /\ i \in AgentIds BY DEF Called, Living
  <2>3. 0 \in 0 .. MaxWrites BY HistoryAssumption
  <2>4. Sound(i, [agents[i] EXCEPT !.body = body,
                                   !.version = NextVersion(i, body, 0)], 0)
    BY <2>1, <2>2, <2>3, OverIsSound
  <2> QED BY <1>2, <2>1, <2>2, <2>4 DEF Seed, Writes
<1> QED BY <1>1, <1>2 DEF Seed

LEMMA WriteWrites ==
    ASSUME IInv, NEW r \in Requests, Write(r)
    PROVE  /\ \/ \E i \in Unchanged(r) : \E row : Writes(i, row, req[r].from)
              \/ UNCHANGED <<agents, versions, drawn, writes>>
           /\ req' = [req EXCEPT ![r] = Idle]
<1>1. req' = [req EXCEPT ![r] = Idle] /\ drawn' = drawn /\ req[r].at = "write"
  BY DEF Write, Ends
<1>2. CASE \E i \in Unchanged(r) : Saves(i, Written(r, i), req[r].from)
  <2>1. PICK i \in Unchanged(r) : Saves(i, Written(r, i), req[r].from) BY <1>2
  <2>2. i \in Living /\ agents[i].stamp = req[r].page.stamp BY DEF Unchanged, Called
  <2>3. req[r].body \in Bodies /\ req[r].from \in 0 .. MaxWrites BY DEF IInv, TypeOK
  <2>4. req[r].from # 0 => req[r].from <= agents[i].version
                           /\ req[r].body = versions[i][req[r].from].body
    BY <1>1, <2>2 DEF IInv, RequestsAreSound, IsSound, RestoresItsOwn
  <2>5. Sound(i, Written(r, i), req[r].from)
    BY <2>1, <2>2, <2>3, <2>4, OverIsSound DEF Written
  <2> QED BY <1>1, <2>1, <2>2, <2>5 DEF Writes
<1> QED BY <1>1, <1>2 DEF Write

LEMMA RenameWrites ==
    ASSUME IInv, NEW r \in Requests, NEW to \in Names, Rename(r, to)
    PROVE  /\ \/ \E i \in AgentIds : \E row : Writes(i, row, 0)
              \/ UNCHANGED <<agents, versions, drawn, writes>>
           /\ req' = [req EXCEPT ![r] = Idle]
<1>1. req' = [req EXCEPT ![r] = Idle] /\ drawn' = drawn BY DEF Rename, Ends
<1>2. CASE Called(to) = {} /\ \E i \in Called(req[r].page.name) :
               Saves(i, [agents[i] EXCEPT !.name = to, !.version = @ + 1], 0)
  <2>1. PICK i \in Called(req[r].page.name) :
               Saves(i, [agents[i] EXCEPT !.name = to, !.version = @ + 1], 0)
    BY <1>2
  <2>2. i \in Living /\ i \in AgentIds BY DEF Called, Living
  <2>3. Sound(i, [agents[i] EXCEPT !.name = to, !.version = @ + 1], 0)
    BY <1>2, <2>1, <2>2, RenamedIsSound
  <2> QED BY <1>1, <2>1, <2>2, <2>3 DEF Writes
<1> QED BY <1>1, <1>2 DEF Rename

LEMMA WritesKeep ==
    ASSUME IInv, NEW i, NEW row, NEW from, Writes(i, row, from),
           \A r \in Requests : req'[r] = req[r] \/ req'[r] = Idle
    PROVE  /\ History' /\ RequestsAreSound' /\ Effect(i, row, from) /\ i \in AgentIds
           /\ Living' = Living \cup {i}
<1>1. i \in AgentIds /\ History' BY SaveKeepsHistory DEF IInv, Writes, Sound
<1>2. Effect(i, row, from) BY SaveTypes DEF IInv, Writes
<1>3. ASSUME NEW r \in Requests PROVE IsSound(r)'
  BY <1>1, <1>2, IdleIsSound, SaveKeepsRequest
<1>4. Living' = Living \cup {i} BY <1>1, <1>2 DEF Living, Effect, Numbers
<1> QED BY <1>1, <1>2, <1>3, <1>4 DEF RequestsAreSound

-----------------------------------------------------------------------------
(* The history: the invariant.                                             *)

Reqs == [at : Places, page : Pages, checked : AgentIds \cup {"none"}, body : Bodies,
         from : 0 .. MaxWrites]

LEMMA IdleType == Idle \in Reqs /\ NoPage \in Pages
BY NoBodyType, HistoryAssumption DEF Idle, NoPage, Reqs, Pages, Places

LEMMA InitIInv == Init => IInv
<1> SUFFICES ASSUME Init PROVE IInv
  OBVIOUS
<1>1. 0 \in 0 .. MaxWrites BY HistoryAssumption
<1>2. NoAgent \in Rows /\ NoEntry \in Entries
  BY <1>1, NoBodyType DEF NoAgent, NoEntry, Rows, Entries
<1>3. TypeOK
  BY <1>1, <1>2, IdleType DEF Init, TypeOK, Reqs
<1>4. Living = {} BY DEF Init, Living, NoAgent
<1>5. LiveIsRecorded
  <2>1. \A i \in AgentIds : agents[i].version = 0 BY DEF Init, NoAgent
  <2>2. \A i \in AgentIds, v \in Numbers : versions[i][v] = NoEntry BY DEF Init
  <2>3. \A v \in Numbers : ~ (v <= 0) BY DEF Numbers
  <2> QED BY <1>4, <2>1, <2>2, <2>3 DEF LiveIsRecorded
<1>6. RestoreIsExact BY DEF Init, RestoreIsExact, NoEntry
<1>7. RowsAreDistinct BY <1>4 DEF RowsAreDistinct, Init
<1>8. RequestsAreSound
  BY DEF Init, RequestsAreSound, IsSound, CheckIsOfThePage, RestoresItsOwn, Idle
<1> QED BY <1>3, <1>5, <1>6, <1>7, <1>8 DEF IInv, History

\* A step that writes rows: the types and all the rest.
LEMMA WritesKeepIInv ==
    ASSUME IInv, NEW i, NEW row, NEW from, Writes(i, row, from),
           req' = req \/ \E r \in Requests : req' = [req EXCEPT ![r] = Idle]
    PROVE  IInv'
<1>1. \A r \in Requests : req'[r] = req[r] \/ req'[r] = Idle BY DEF IInv, TypeOK
<1>2. History' /\ RequestsAreSound' /\ Effect(i, row, from) /\ i \in AgentIds
  BY <1>1, WritesKeep
<1>3. req' \in [Requests -> Reqs] BY IdleType DEF IInv, TypeOK, Reqs
<1>4. drawn' \subseteq AgentIds BY <1>2 DEF Writes, IInv, TypeOK
<1>5. TypeOK' BY <1>2, <1>3, <1>4 DEF TypeOK, Effect, Reqs
<1> QED BY <1>2, <1>5 DEF IInv

\* A step of one request that writes no row.
LEMMA StepKeepsIInv ==
    ASSUME IInv, UNCHANGED <<agents, versions, drawn, writes>>,
           NEW r \in Requests, NEW new \in Reqs, req' = [req EXCEPT ![r] = new],
           IsSound(r)'
    PROVE  IInv'
<1>1. TypeOK' BY DEF IInv, TypeOK, Reqs
<1>2. Living' = Living BY DEF Living
<1>3. History'
  BY <1>2 DEF IInv, History, LiveIsRecorded, RestoreIsExact, RowsAreDistinct
<1>4. ASSUME NEW q \in Requests, q # r PROVE IsSound(q)'
  <2>1. req'[q] = req[q] BY <1>4 DEF IInv, TypeOK
  <2> QED BY <1>2, <2>1, LossKeepsRequest
<1> QED BY <1>1, <1>3, <1>4 DEF IInv, RequestsAreSound

LEMMA NextIInv == IInv /\ [Next]_vars => IInv'
<1> SUFFICES ASSUME IInv, [Next]_vars PROVE IInv'
  OBVIOUS
<1> USE HistoryAssumption
<1>0. \A r \in Requests : req[r] \in Reqs BY DEF IInv, TypeOK, Reqs
<1>1. ASSUME NEW i \in AgentIds, NEW n \in Names, NEW body \in Bodies, Create(i, n, body)
      PROVE  IInv'
  BY <1>1, CreateWrites, WritesKeepIInv
<1>2. ASSUME NEW n \in Names, NEW body \in Bodies, Seed(n, body) PROVE IInv'
  BY <1>2, SeedWrites, WritesKeepIInv
<1>3. ASSUME NEW r \in Requests, NEW n \in Names, Open(r, n) PROVE IInv'
  <2>1. PICK i \in Called(n) :
           req' = [req EXCEPT ![r] =
                     [Idle EXCEPT !.at = "open",
                                  !.page = [name |-> n, stamp |-> agents[i].stamp,
                                            body |-> agents[i].body, agent |-> i]]]
    BY <1>3 DEF Open
  <2> DEFINE page == [name |-> n, stamp |-> agents[i].stamp, body |-> agents[i].body, agent |-> i]
             new == [Idle EXCEPT !.at = "open", !.page = page]
  <2>2. i \in Living /\ i \in AgentIds /\ agents[i].name = n /\ agents[i] \in Rows
    BY DEF Called, Living, IInv, TypeOK
  <2>3. page \in Pages BY <2>2 DEF Pages, Rows
  <2>4. new \in Reqs BY <2>3, IdleType DEF Reqs, Places
  <2>5. new.at = "open" /\ new.page = page /\ new.from = 0 BY DEF Idle
  <2>6. UNCHANGED <<agents, versions, drawn, writes>> BY <1>3 DEF Open
  <2>7. req'[r] = new BY <2>1 DEF IInv, TypeOK
  <2>8. Living' = Living BY <2>6 DEF Living
  <2> HIDE DEF new, page
  <2>9. PageIsLive(r)'
    <3>1. page.stamp = agents[i].stamp /\ page.body = agents[i].body /\ page.agent = i
          /\ page.name = n
      BY DEF page
    <3>2. agents[i].stamp <= writes BY <2>2 DEF IInv, History, RowsAreDistinct
    <3>3. \A k \in Living : agents[k].stamp = agents[i].stamp => k = i
      BY <2>2 DEF IInv, History, RowsAreDistinct
    <3> QED BY <2>2, <2>5, <2>6, <2>7, <2>8, <3>1, <3>2, <3>3 DEF PageIsLive
  <2>10. IsSound(r)'
    BY <2>5, <2>7, <2>9 DEF IsSound, CheckIsOfThePage, RestoresItsOwn
  <2>11. req' = [req EXCEPT ![r] = new] BY <2>1 DEF new, page
  <2> QED BY <2>4, <2>6, <2>10, <2>11, StepKeepsIInv
<1>4. ASSUME NEW r \in Requests, Close(r) PROVE IInv'
  <2>1. req' = [req EXCEPT ![r] = Idle] /\ UNCHANGED <<agents, versions, drawn, writes>>
    BY <1>4 DEF Close, Ends
  <2>2. req'[r] = Idle BY <2>1 DEF IInv, TypeOK
  <2> QED BY <2>1, <2>2, IdleType, IdleIsSound, StepKeepsIInv
<1>5. ASSUME NEW r \in Requests, NEW what \in {"edit", "restore"}, Check(r, what)
      PROVE  IInv'
  <2>1. PICK i \in Called(req[r].page.name) :
           req' = [req EXCEPT ![r].at = what, ![r].checked = i]
    BY <1>5 DEF Check
  <2>2. UNCHANGED <<agents, versions, drawn, writes>> /\ req[r].at = "open" BY <1>5 DEF Check
  <2> DEFINE new == [req[r] EXCEPT !.at = what, !.checked = i]
  <2>3. i \in Living /\ i \in AgentIds /\ agents[i].name = req[r].page.name
    BY DEF Called, Living
  <2>4. new \in Reqs BY <1>0, <2>3 DEF Reqs, Places
  <2>5. req' = [req EXCEPT ![r] = new] BY <2>1 DEF IInv, TypeOK
  <2>6. req'[r] = new BY <2>5 DEF IInv, TypeOK
  <2>7. /\ new.at = what /\ new.page = req[r].page /\ new.checked = i
        /\ new.from = 0
    BY <1>0, <2>2 DEF Reqs, IInv, RequestsAreSound, IsSound
  <2>8. Living' = Living BY <2>2 DEF Living
  <2> HIDE DEF new
  <2>9. PageIsLive(r) BY <2>2 DEF IInv, RequestsAreSound, IsSound
  <2>10. PageIsLive(r)' BY <2>2, <2>6, <2>7, <2>8, <2>9 DEF PageIsLive
  <2>11. \A k \in Living : agents[k].stamp = req[r].page.stamp => k = i
    BY <2>3, <2>9 DEF PageIsLive, IInv, History, RowsAreDistinct
  <2>12. CheckIsOfThePage(r)'
    BY <2>2, <2>6, <2>7, <2>8, <2>11 DEF CheckIsOfThePage
  <2>13. RestoresItsOwn(r)' BY <2>6, <2>7 DEF RestoresItsOwn
  <2>14. IsSound(r)' BY <2>6, <2>7, <2>10, <2>12, <2>13 DEF IsSound
  <2> QED BY <2>2, <2>4, <2>5, <2>14, StepKeepsIInv
<1>6. ASSUME NEW r \in Requests, NEW n \in Names, NEW what \in {"rename", "delete"},
             CheckOwner(r, n, what)
      PROVE  IInv'
  <2>1. /\ req' = [req EXCEPT ![r].at = what, ![r].page.name = n]
        /\ UNCHANGED <<agents, versions, drawn, writes>>
    BY <1>6 DEF CheckOwner
  <2> DEFINE new == [req[r] EXCEPT !.at = what, !.page.name = n]
  <2>2. new \in Reqs
    <3>1. req[r].page \in Pages BY <1>0 DEF Reqs
    <3>2. [req[r].page EXCEPT !.name = n] \in Pages BY <3>1 DEF Pages
    <3>3. what \in Places BY DEF Places
    <3>4. new = [req[r] EXCEPT !.at = what, !.page = [req[r].page EXCEPT !.name = n]]
      BY <1>0 DEF Reqs
    <3> HIDE DEF new
    <3> QED BY <1>0, <3>2, <3>3, <3>4 DEF Reqs
  <2>3. req' = [req EXCEPT ![r] = new] BY <2>1 DEF IInv, TypeOK
  <2>4. req'[r] = new BY <2>3 DEF IInv, TypeOK
  <2>5. new.at = what /\ new.from = 0 BY <1>0, <1>6 DEF Reqs, CheckOwner, Idle
  <2> HIDE DEF new
  <2>6. IsSound(r)' BY <2>4, <2>5 DEF IsSound, CheckIsOfThePage, RestoresItsOwn
  <2> QED BY <2>1, <2>2, <2>3, <2>6, StepKeepsIInv
<1>7. ASSUME NEW r \in Requests, NEW patch \in Patches, Patch(r, patch) PROVE IInv'
  <2>1. PICK i \in Called(req[r].page.name) :
           req' = [req EXCEPT ![r].at = "write", ![r].body = Merge(agents[i].body, patch)]
    BY <1>7 DEF Patch
  <2>2. UNCHANGED <<agents, versions, drawn, writes>> /\ req[r].at = "edit" BY <1>7 DEF Patch
  <2>3. agents[i].body \in Bodies BY DEF Called, Living, IInv, TypeOK, Rows
  <2>4. Merge(agents[i].body, patch) \in Bodies BY <2>3, MergeType
  <2> DEFINE new == [req[r] EXCEPT !.at = "write", !.body = Merge(agents[i].body, patch)]
  <2>5. new \in Reqs BY <1>0, <2>4 DEF Reqs, Places
  <2>6. req' = [req EXCEPT ![r] = new] BY <2>1 DEF IInv, TypeOK
  <2>7. req'[r] = new BY <2>6 DEF IInv, TypeOK
  <2>8. new.at = "write" /\ new.page = req[r].page /\ new.checked = req[r].checked
        /\ new.from = req[r].from
    BY <1>0 DEF Reqs
  <2>9. Living' = Living BY <2>2 DEF Living
  <2> HIDE DEF new
  <2>10. PageIsLive(r)'
    BY <2>2, <2>7, <2>8, <2>9 DEF PageIsLive, IInv, RequestsAreSound, IsSound
  <2>11. CheckIsOfThePage(r)'
    BY <2>2, <2>7, <2>8, <2>9 DEF CheckIsOfThePage, IInv, RequestsAreSound, IsSound
  <2>12. req[r].from = 0 BY <2>2 DEF IInv, RequestsAreSound, IsSound
  <2>13. RestoresItsOwn(r)' BY <2>7, <2>8, <2>12 DEF RestoresItsOwn
  <2>14. IsSound(r)' BY <2>7, <2>8, <2>10, <2>11, <2>13 DEF IsSound
  <2> QED BY <2>2, <2>5, <2>6, <2>14, StepKeepsIInv
<1>8. ASSUME NEW r \in Requests, NEW number \in Numbers, PickVersion(r, number) PROVE IInv'
  <2>1. PICK i \in Called(req[r].page.name) :
           /\ versions[i][number] # NoEntry
           /\ req' = [req EXCEPT ![r].at = "write", ![r].body = Restored(i, number),
                                 ![r].from = number]
    BY <1>8 DEF PickVersion
  <2>2. UNCHANGED <<agents, versions, drawn, writes>> /\ req[r].at = "restore"
    BY <1>8 DEF PickVersion
  <2>3. i \in Living /\ i \in AgentIds /\ agents[i].name = req[r].page.name
    BY DEF Called, Living
  <2>4. Restored(i, number) \in Bodies BY <2>3 DEF Restored, IInv, TypeOK, Entries
  <2> DEFINE new == [req[r] EXCEPT !.at = "write", !.body = Restored(i, number),
                                   !.from = number]
  <2>0. number \in 0 .. MaxWrites BY DEF Numbers
  <2>5. new \in Reqs BY <1>0, <2>0, <2>4 DEF Reqs, Places
  <2>6. req' = [req EXCEPT ![r] = new] BY <2>1 DEF IInv, TypeOK
  <2>7. req'[r] = new BY <2>6 DEF IInv, TypeOK
  <2>8. new.at = "write" /\ new.page = req[r].page /\ new.checked = req[r].checked
        /\ new.from = number /\ new.body = Restored(i, number)
    BY <1>0 DEF Reqs
  <2>9. Living' = Living BY <2>2 DEF Living
  <2> HIDE DEF new
  <2>10. PageIsLive(r) BY <2>2 DEF IInv, RequestsAreSound, IsSound
  <2>11. PageIsLive(r)' BY <2>2, <2>7, <2>8, <2>9, <2>10 DEF PageIsLive
  <2>12. CheckIsOfThePage(r)'
    BY <2>2, <2>7, <2>8, <2>9 DEF CheckIsOfThePage, IInv, RequestsAreSound, IsSound
  <2>13. \A k \in Living : agents[k].stamp = req[r].page.stamp => k = i
    BY <2>3, <2>10 DEF PageIsLive, IInv, History, RowsAreDistinct
  <2>14. number <= agents[i].version BY <2>1, <2>3, Numbered DEF IInv, History
  <2>15. RestoresItsOwn(r)'
    BY <2>2, <2>7, <2>8, <2>9, <2>13, <2>14 DEF RestoresItsOwn, Restored
  <2>16. IsSound(r)' BY <2>7, <2>8, <2>11, <2>12, <2>15 DEF IsSound
  <2> QED BY <2>2, <2>5, <2>6, <2>16, StepKeepsIInv
<1>9. ASSUME NEW r \in Requests, Write(r) PROVE IInv'
  <2>1. req' = [req EXCEPT ![r] = Idle] BY <1>9, WriteWrites
  <2>2. req'[r] = Idle BY <2>1 DEF IInv, TypeOK
  <2>3. CASE UNCHANGED <<agents, versions, drawn, writes>>
    BY <2>1, <2>2, <2>3, IdleType, IdleIsSound, StepKeepsIInv
  <2> QED BY <1>9, <2>1, <2>3, WriteWrites, WritesKeepIInv
<1>10. ASSUME NEW r \in Requests, NEW to \in Names, Rename(r, to) PROVE IInv'
  <2>1. req' = [req EXCEPT ![r] = Idle] BY <1>10, RenameWrites
  <2>2. req'[r] = Idle BY <2>1 DEF IInv, TypeOK
  <2>3. CASE UNCHANGED <<agents, versions, drawn, writes>>
    BY <2>1, <2>2, <2>3, IdleType, IdleIsSound, StepKeepsIInv
  <2> QED BY <1>10, <2>1, <2>3, RenameWrites, WritesKeepIInv
<1>11. ASSUME NEW r \in Requests, Delete(r) PROVE IInv'
  <2> DEFINE gone == Called(req[r].page.name)
  <2>1. /\ agents' = [i \in AgentIds |-> IF i \in gone THEN NoAgent ELSE agents[i]]
        /\ versions' = [i \in AgentIds |-> IF i \in gone THEN [v \in Numbers |-> NoEntry]
                                           ELSE versions[i]]
        /\ req' = [req EXCEPT ![r] = Idle]
        /\ drawn' = drawn /\ writes' = writes
    BY <1>11 DEF Delete, Ends
  <2>2. gone \subseteq Living BY DEF Called
  <2>3. Living' = Living \ gone BY <2>1 DEF Living, NoAgent
  <2> HIDE DEF gone
  <2>4. NoAgent \in Rows /\ NoEntry \in Entries
    BY NoBodyType DEF NoAgent, NoEntry, Rows, Entries
  <2>5. TypeOK' BY <2>1, <2>4, IdleType DEF IInv, TypeOK, Reqs
  <2>6. \A k \in AgentIds : k \notin gone => agents'[k] = agents[k] /\ versions'[k] = versions[k]
    BY <2>1
  <2>7. \A k \in gone : agents'[k] = NoAgent /\ \A v \in Numbers : versions'[k][v] = NoEntry
    BY <2>1, <2>2 DEF Living
  <2>8. LiveIsRecorded'
    <3>1. ASSUME NEW k \in gone, NEW v \in Numbers
          PROVE  versions'[k][v] # NoEntry <=> v <= agents'[k].version
      BY <3>1, <2>7 DEF NoAgent, Numbers
    <3> QED BY <2>3, <2>6, <3>1 DEF IInv, History, LiveIsRecorded
  <2>9. RestoreIsExact'
    <3>1. ASSUME NEW k \in gone, NEW v \in Numbers PROVE versions'[k][v].from = 0
      BY <3>1, <2>7 DEF NoEntry
    <3> QED BY <2>6, <3>1 DEF IInv, History, RestoreIsExact
  <2>10. RowsAreDistinct'
    BY <2>1, <2>3, <2>6, <2>7 DEF IInv, History, RowsAreDistinct, Living
  <2>11. ASSUME NEW q \in Requests PROVE IsSound(q)'
    <3>1. CASE q = r
      <4>1. req'[q] = Idle BY <2>1, <3>1 DEF IInv, TypeOK
      <4> QED BY <4>1, IdleIsSound
    <3>2. CASE q # r
      <4>1. req'[q] = req[q] BY <2>1, <3>2 DEF IInv, TypeOK
      <4>2. \A k \in Living' : k \in Living /\ agents'[k] = agents[k]
                               /\ versions'[k] = versions[k]
        BY <2>3, <2>6 DEF Living
      <4> QED BY <2>1, <4>1, <4>2, LossKeepsRequest
    <3> QED BY <3>1, <3>2
  <2> QED BY <2>5, <2>8, <2>9, <2>10, <2>11 DEF IInv, History, RequestsAreSound
<1>12. CASE UNCHANGED vars
  <2>1. Living' = Living BY <1>12 DEF vars, Living
  <2> QED
    BY <1>12, <2>1 DEF vars, IInv, TypeOK, History, LiveIsRecorded, RestoreIsExact,
       RowsAreDistinct, RequestsAreSound, IsSound, PageIsLive, CheckIsOfThePage, RestoresItsOwn
<1> QED BY <1>1, <1>2, <1>3, <1>4, <1>5, <1>6, <1>7, <1>8, <1>9, <1>10, <1>11, <1>12 DEF Next

-----------------------------------------------------------------------------
(* The history: the theorems.                                              *)

\* The strengthening is an invariant of the history, for every value of its constants.
THEOREM Invariance == Spec => []IInv
BY InitIInv, NextIInv, PTL DEF Spec

\* Every variable keeps its type, for any agents, names, fields and requests.
THEOREM TypeCorrect == Spec => []TypeOK
BY Invariance, PTL DEF IInv

\* What is live is the newest entry of its agent's history, and no entry is missing:
\* through every create, seed, edit, restore, rename and delete.
THEOREM LiveIsRecordedHolds == Spec => []LiveIsRecorded
BY Invariance, PTL DEF IInv, History

\* A restored configuration is exactly the old one, of the same agent.
THEOREM RestoreIsExactHolds == Spec => []RestoreIsExact
BY Invariance, PTL DEF IInv, History

\* What one step writes over, if it is a request's write.
LEMMA EditStep ==
    ASSUME IInv, [Next]_vars, NEW r \in Requests, NEW i \in AgentIds,
           req[r].at = "write", req'[r] = Idle, agents'[i] # agents[i]
    PROVE  /\ i = req[r].page.agent /\ i = req[r].checked
           /\ agents[i].name = req[r].page.name
           /\ agents[i].body = req[r].page.body
<1>1. req[r] # Idle BY DEF Idle
<1>2. req[r] # req'[r] BY <1>1
<1>3. ASSUME NEW q \in Requests, req'[q] # req[q],
             \E new : req' = [req EXCEPT ![q] = new]
      PROVE  q = r
  BY <1>2, <1>3 DEF IInv, TypeOK
<1>4. Write(r)
  <2>1. ASSUME NEW j \in AgentIds, NEW n \in Names, NEW body \in Bodies, Create(j, n, body)
        PROVE  FALSE
    BY <2>1, <1>2 DEF Create
  <2>2. ASSUME NEW n \in Names, NEW body \in Bodies, Seed(n, body) PROVE FALSE
    BY <2>2, <1>2 DEF Seed
  <2>3. ASSUME NEW q \in Requests, NEW n \in Names, Open(q, n) PROVE FALSE
    BY <2>3 DEF Open
  <2>4. ASSUME NEW q \in Requests, Close(q) PROVE FALSE
    BY <2>4 DEF Close
  <2>5. ASSUME NEW q \in Requests, NEW what \in {"edit", "restore"}, Check(q, what) PROVE FALSE
    BY <2>5 DEF Check
  <2>6. ASSUME NEW q \in Requests, NEW n \in Names, NEW what \in {"rename", "delete"},
               CheckOwner(q, n, what)
        PROVE  FALSE
    BY <2>6 DEF CheckOwner
  <2>7. ASSUME NEW q \in Requests, NEW patch \in Patches, Patch(q, patch) PROVE FALSE
    BY <2>7 DEF Patch
  <2>8. ASSUME NEW q \in Requests, NEW number \in Numbers, PickVersion(q, number) PROVE FALSE
    BY <2>8 DEF PickVersion
  <2>9. ASSUME NEW q \in Requests, Write(q) PROVE q = r
    BY <2>9, <1>2 DEF Write, Ends, IInv, TypeOK
  <2>10. ASSUME NEW q \in Requests, NEW to \in Names, Rename(q, to) PROVE FALSE
    <3>1. q = r BY <2>10, <1>2 DEF Rename, Ends, IInv, TypeOK
    <3> QED BY <2>10, <3>1 DEF Rename
  <2>11. ASSUME NEW q \in Requests, Delete(q) PROVE FALSE
    <3>1. q = r BY <2>11, <1>2 DEF Delete, Ends, IInv, TypeOK
    <3> QED BY <2>11, <3>1 DEF Delete
  <2>12. CASE UNCHANGED vars BY <2>12 DEF vars
  <2> QED BY <2>1, <2>2, <2>3, <2>4, <2>5, <2>6, <2>7, <2>8, <2>9, <2>10, <2>11, <2>12 DEF Next
<1>5. PICK j \in Unchanged(r) : \E row : Writes(j, row, req[r].from) BY <1>4, WriteWrites
<1>8. PICK row : Writes(j, row, req[r].from) BY <1>5
<1>6. i = j
  <2>1. Effect(j, row, req[r].from) BY <1>8, SaveTypes DEF IInv, Writes
  <2> QED BY <2>1 DEF Effect
<1>7. i \in Living /\ agents[i].stamp = req[r].page.stamp BY <1>5, <1>6 DEF Unchanged, Called
<1> QED BY <1>7 DEF IInv, RequestsAreSound, IsSound, PageIsLive, CheckIsOfThePage

\* An edit or a restore lands on the agent its author was looking at and had the right to
\* change, as they saw it.
THEOREM EditsHold == Spec => EditsBuildOnWhatWasSeen
<1>1. IInv /\ [Next]_vars =>
        [\A r \in Requests : \A i \in AgentIds :
          (req[r].at = "write" /\ req'[r] = Idle /\ agents'[i] # agents[i])
          => /\ i = req[r].page.agent /\ i = req[r].checked
             /\ agents[i].name = req[r].page.name
             /\ agents[i].body = req[r].page.body]_vars
  BY EditStep
<1> QED BY <1>1, Invariance, PTL DEF Spec, EditsBuildOnWhatWasSeen

\* An agent of whom nothing is lost.
Grows(i) ==
    /\ i \in Living' =>
          /\ agents'[i].version >= agents[i].version
          /\ \A v \in Numbers : versions[i][v] # NoEntry => versions'[i][v] = versions[i][v]
    /\ i \in drawn \ Living => i \notin Living'

LEMMA WritesGrow ==
    ASSUME IInv, NEW j, NEW row, NEW from, Writes(j, row, from), NEW i \in AgentIds
    PROVE  Grows(i)
<1>1. Effect(j, row, from) /\ j \in AgentIds BY SaveTypes DEF IInv, Writes, Sound
<1>2. agents[i].version \in Nat /\ agents[j].version \in Nat
  BY <1>1 DEF IInv, TypeOK, Rows
<1>3. CASE i # j
  <2>1. agents'[i] = agents[i] /\ versions'[i] = versions[i] BY <1>1, <1>3 DEF Effect
  <2>2. i \in Living' => i \in Living BY <2>1 DEF Living
  <2> QED BY <1>2, <2>1, <2>2 DEF Grows
<1>4. CASE i = j
  <2>1. row.version >= agents[j].version
    <3>1. j \notin drawn => agents[j].version = 0
      BY <1>1 DEF IInv, History, RowsAreDistinct, NoAgent
    <3> QED BY <1>2, <3>1 DEF Writes, Sound
  <2>2. \A v \in Numbers : versions[j][v] # NoEntry => versions'[j][v] = versions[j][v]
    BY <1>1 DEF Effect
  <2>3. j \notin drawn \/ j \in Living BY DEF Writes, Sound
  <2> QED BY <1>1, <1>4, <2>1, <2>2, <2>3 DEF Grows, Effect
<1> QED BY <1>3, <1>4

LEMMA StayGrows ==
    ASSUME IInv, agents' = agents, versions' = versions, NEW i \in AgentIds
    PROVE  Grows(i)
<1>1. agents[i].version \in Nat BY DEF IInv, TypeOK, Rows
<1> QED BY <1>1 DEF Grows, Living

LEMMA GrowStep ==
    ASSUME IInv, [Next]_vars, NEW i \in AgentIds
    PROVE  Grows(i)
<1>1. ASSUME NEW r \in Requests, Delete(r) PROVE Grows(i)
  <2>1. agents' = [k \in AgentIds |-> IF k \in Called(req[r].page.name) THEN NoAgent ELSE agents[k]]
        /\ versions' = [k \in AgentIds |-> IF k \in Called(req[r].page.name)
                                           THEN [v \in Numbers |-> NoEntry] ELSE versions[k]]
    BY <1>1 DEF Delete
  <2>2. i \in Living' => /\ i \in Living
                         /\ agents'[i] = agents[i] /\ versions'[i] = versions[i]
    BY <2>1 DEF Living, NoAgent
  <2>3. agents[i].version \in Nat BY DEF IInv, TypeOK, Rows
  <2> QED BY <2>2, <2>3 DEF Grows
<1>2. CASE agents' = agents /\ versions' = versions BY <1>2, StayGrows
<1>3. CASE \E j, row, from : Writes(j, row, from) BY <1>3, WritesGrow
<1>4. ASSUME NEW j \in AgentIds, NEW n \in Names, NEW body \in Bodies, Create(j, n, body)
      PROVE  Grows(i)
  BY <1>4, <1>3, CreateWrites
<1>5. ASSUME NEW n \in Names, NEW body \in Bodies, Seed(n, body) PROVE Grows(i)
  BY <1>5, <1>3, SeedWrites
<1>6. ASSUME NEW r \in Requests, Write(r) PROVE Grows(i)
  BY <1>6, <1>2, <1>3, WriteWrites
<1>7. ASSUME NEW r \in Requests, NEW to \in Names, Rename(r, to) PROVE Grows(i)
  BY <1>7, <1>2, <1>3, RenameWrites
<1>8. ASSUME NEW r \in Requests, NEW n \in Names, Open(r, n) PROVE Grows(i)
  BY <1>8, <1>2 DEF Open
<1>9. ASSUME NEW r \in Requests, Close(r) PROVE Grows(i)
  BY <1>9, <1>2 DEF Close
<1>10. ASSUME NEW r \in Requests, NEW what \in {"edit", "restore"}, Check(r, what)
       PROVE  Grows(i)
  BY <1>10, <1>2 DEF Check
<1>11. ASSUME NEW r \in Requests, NEW n \in Names, NEW what \in {"rename", "delete"},
              CheckOwner(r, n, what)
       PROVE  Grows(i)
  BY <1>11, <1>2 DEF CheckOwner
<1>12. ASSUME NEW r \in Requests, NEW patch \in Patches, Patch(r, patch) PROVE Grows(i)
  BY <1>12, <1>2 DEF Patch
<1>13. ASSUME NEW r \in Requests, NEW number \in Numbers, PickVersion(r, number)
       PROVE  Grows(i)
  BY <1>13, <1>2 DEF PickVersion
<1>14. CASE UNCHANGED vars BY <1>14, <1>2 DEF vars
<1> QED
  BY <1>1, <1>4, <1>5, <1>6, <1>7, <1>8, <1>9, <1>10, <1>11, <1>12, <1>13, <1>14 DEF Next

\* A living agent's history is never rewritten, and its version never goes back.
THEOREM HistoryGrows == Spec => HistoryOnlyGrows
<1>1. IInv /\ [Next]_vars =>
        [\A i \in AgentIds :
          /\ i \in Living' =>
                /\ agents'[i].version >= agents[i].version
                /\ \A v \in Numbers : versions[i][v] # NoEntry => versions'[i][v] = versions[i][v]
          /\ i \in drawn \ Living => i \notin Living']_vars
  BY GrowStep DEF Grows
<1> QED BY <1>1, Invariance, PTL DEF Spec, HistoryOnlyGrows

-----------------------------------------------------------------------------
(* Sharing: the strengthening.                                             *)

OpType  == [do : {"none", "share", "unshare"}, agent : Agents \cup {"none"},
            who : UserIds \cup Addresses \cup {"none"}, role : Levels]
ReqType == [at : {"idle", "create", "stamp", "claim", "signed in", "find", "found", "share",
                  "unshare", "add", "forget"},
            person : People \cup {"none"}, mail : Addresses \cup {"none"},
            user : UserIds \cup {"none"}, moved : BOOLEAN, op : OpType]
RowType == [subject : People \cup {"none"}, mail : Addresses \cup {"none"}, active : BOOLEAN]

\* A row of users is of a person with an address, or is not there.
RowsOK ==
    \A u \in UserIds : \/ users[u] = NoUser
                       \/ users[u].subject \in People /\ users[u].mail \in Addresses

\* The highest level somebody has held covers what they hold.
EverOK == \A g \in Agents, u \in UserIds : ever[g][u] >= grants[g][u].role

\* A grant was given by somebody entitled to, and so was one that waits, which is never
\* an ownership.
GivenAt(g, x, top) ==
    \/ x = NoGrant
    \/ /\ x.role \in User .. top /\ x.by \in UserIds
       /\ ever[g][x.by] >= (IF x.role = Owner THEN Owner ELSE Editor)

GrantsOK  == \A g \in Agents, u \in UserIds : GivenAt(g, grants[g][u], Owner)
PendingOK == \A g \in Agents, a \in Addresses : GivenAt(g, pending[g][a], Editor)

OneOwner ==
    \A g \in Agents, u, v \in UserIds :
        grants[g][u].role = Owner /\ grants[g][v].role = Owner => u = v

\* What a request knows of its caller, and what it has been allowed.
Working == {"find", "found", "share", "unshare", "add", "forget"}

AllowedOnce(q) ==
    /\ q.op.agent \in Agents
    /\ ever[q.op.agent][q.user] >= Editor
    /\ \/ q.op.do = "share" /\ q.op.role \in User .. Owner
       \/ q.op.do = "unshare" /\ q.op.role = None
    /\ q.at \in {"find", "add"} => q.op.who \in Addresses
    /\ q.at = "add" => q.op.role \in User .. Editor
    /\ q.at \in {"found", "share", "unshare"} => q.op.who \in Accounts
    /\ q.at = "forget" => q.mail \in Addresses
    /\ q.at = "share" => q.op.do = "share"
    /\ q.at = "share" /\ q.op.role = Owner => ever[q.op.agent][q.user] >= Owner

Grounded(q) ==
    /\ q.at \in {"create", "stamp", "claim"} => q.mail \in Addresses
    /\ q.at = "create" => q.person \in People
    /\ q.at \in {"idle", "create"} <=> q.user = "none"
    /\ q.user # "none" => q.user \in Accounts
    /\ q.at \in Working => AllowedOnce(q)

ReqOK == \A r \in Calls : Grounded(call[r])

SharingInv ==
    /\ SharingTypeOK /\ RowsOK /\ EverOK /\ GrantsOK /\ PendingOK /\ OneOwner /\ ReqOK
    /\ OneAccount /\ NothingLeftWaiting

-----------------------------------------------------------------------------
(* Sharing: lemmas about the tables.                                       *)

LEMMA Types ==
    SharingTypeOK <=>
               /\ users \in [UserIds -> RowType]
               /\ grants \in [Agents -> [UserIds -> GrantType]]
               /\ pending \in [Agents -> [Addresses -> GrantType]]
               /\ call \in [Calls -> ReqType]
               /\ asked \in 0 .. MaxOps /\ troubles \in 0 .. MaxTroubles
               /\ ever \in [Agents -> [UserIds -> Levels]]
               /\ excused \subseteq Addresses
BY DEF SharingTypeOK, RowType, ReqType, OpType

\* A user who is there has a subject.
LEMMA RowSubject ==
    ASSUME SharingInv, NEW u \in UserIds
    PROVE  /\ users[u] \in RowType
           /\ u \in Accounts <=> users[u].subject # "none"
           /\ u \in Accounts => users[u].subject \in People /\ users[u].mail \in Addresses
<1>1. users[u] \in RowType
  BY Types DEF SharingInv
<1> QED
  BY <1>1, SharingAssumption DEF SharingInv, RowsOK, Accounts, NoUser, RowType

\* What the history keeps covers every grant there has been.
LEMMA Remembered ==
    ASSUME SharingInv, NEW new \in [Agents -> [UserIds -> GrantType]], Grants(new)
    PROVE  /\ grants' = new
           /\ ever' \in [Agents -> [UserIds -> Levels]]
           /\ \A g \in Agents, u \in UserIds : ever'[g][u] >= ever[g][u]
           /\ EverOK'
<1>1. ever \in [Agents -> [UserIds -> Levels]]
  BY Types DEF SharingInv
<1>2. ASSUME NEW g \in Agents, NEW u \in UserIds
      PROVE  ever[g][u] \in Levels /\ new[g][u].role \in Levels
  BY <1>1 DEF GrantType
<1>3. \A g \in Agents, u \in UserIds :
        ever'[g][u] = IF new[g][u].role > ever[g][u] THEN new[g][u].role ELSE ever[g][u]
  BY DEF Grants
<1>4. ever' \in [Agents -> [UserIds -> Levels]]
  BY <1>2 DEF Grants
<1>5. \A g \in Agents, u \in UserIds : ever'[g][u] >= ever[g][u] /\ ever'[g][u] >= new[g][u].role
  BY <1>2, <1>3 DEF Levels, None, Owner
<1> QED
  BY <1>4, <1>5 DEF Grants, EverOK

\* Who was entitled to give stays entitled.
LEMMA StillGiven ==
    ASSUME SharingInv, NEW g \in Agents, NEW x \in GrantType, NEW top \in Levels,
           GivenAt(g, x, top),
           ever' \in [Agents -> [UserIds -> Levels]],
           \A u \in UserIds : ever'[g][u] >= ever[g][u]
    PROVE  GivenAt(g, x, top)'
<1>1. x = NoGrant \/ (x.by \in UserIds /\ ever[g][x.by] \in Levels /\ ever'[g][x.by] \in Levels
                      /\ ever'[g][x.by] >= ever[g][x.by])
  BY Types DEF GivenAt, SharingInv
<1> QED
  BY <1>1 DEF GivenAt, Levels, None, Owner, Editor

\* What waits stays given by the entitled, whatever happens to the grants.
LEMMA PendingStands ==
    ASSUME SharingInv, UNCHANGED pending, ever' \in [Agents -> [UserIds -> Levels]],
           \A g \in Agents, u \in UserIds : ever'[g][u] >= ever[g][u]
    PROVE  PendingOK'
<1> SUFFICES ASSUME NEW g \in Agents, NEW a \in Addresses
             PROVE  GivenAt(g, pending[g][a], Editor)'
  BY DEF PendingOK
<1>1. GivenAt(g, pending[g][a], Editor) /\ pending[g][a] \in GrantType
  BY Types DEF SharingInv, PendingOK
<1> QED
  BY <1>1, StillGiven DEF GivenAt, Levels, None, Editor, Owner

LEMMA GrantsStand ==
    ASSUME SharingInv, UNCHANGED <<grants, ever>>
    PROVE  /\ grants' \in [Agents -> [UserIds -> GrantType]]
           /\ ever' \in [Agents -> [UserIds -> Levels]]
           /\ \A g \in Agents, v \in UserIds : ever'[g][v] >= ever[g][v]
           /\ EverOK' /\ GrantsOK' /\ OneOwner'
<1>1. EverOK' /\ GrantsOK' /\ OneOwner'
  BY DEF SharingInv, EverOK, GrantsOK, GivenAt, OneOwner
<1> QED
  BY <1>1, Types DEF SharingInv, Levels, None, Owner

LEMMA NoGrantType == NoGrant \in GrantType
BY DEF NoGrant, GrantType, Levels, None, Owner

\* What a request has been told stays true while others go on.
LEMMA StillGrounded ==
    ASSUME SharingInv, NEW q \in ReqType, Grounded(q), Accounts \subseteq Accounts',
           ever' \in [Agents -> [UserIds -> Levels]],
           \A g \in Agents, u \in UserIds : ever'[g][u] >= ever[g][u]
    PROVE  Grounded(q)'
<1>1. ASSUME q.at \in Working
      PROVE  AllowedOnce(q)'
  <2>1. AllowedOnce(q) /\ q.user \in UserIds
    BY <1>1 DEF Grounded, ReqType, Working
  <2>2. /\ ever[q.op.agent][q.user] \in Levels /\ ever'[q.op.agent][q.user] \in Levels
        /\ ever'[q.op.agent][q.user] >= ever[q.op.agent][q.user]
    BY <2>1, Types DEF AllowedOnce, SharingInv
  <2> QED
    BY <2>1, <2>2 DEF AllowedOnce, Levels, None, Owner, Editor
<1> QED
  BY <1>1 DEF Grounded

\* A step of one request, whatever tables it writes.
LEMMA OnlyOne ==
    ASSUME SharingInv, NEW r \in Calls, call' \in [Calls -> ReqType],
           \A s \in Calls \ {r} : call'[s] = call[s],
           Grounded(call[r])', Accounts \subseteq Accounts',
           ever' \in [Agents -> [UserIds -> Levels]],
           \A g \in Agents, u \in UserIds : ever'[g][u] >= ever[g][u]
    PROVE  ReqOK'
<1>1. ASSUME NEW s \in Calls \ {r}
      PROVE  Grounded(call[s])'
  <2>1. Grounded(call[s]) /\ call[s] \in ReqType
    BY Types DEF SharingInv, ReqOK
  <2> QED
    BY <2>1, StillGrounded DEF Grounded, AllowedOnce
<1> QED
  BY <1>1 DEF ReqOK

\* A step that writes no table.
LEMMA Apart ==
    ASSUME SharingInv, NEW r \in Calls, call' \in [Calls -> ReqType],
           \A s \in Calls \ {r} : call'[s] = call[s], Grounded(call[r])',
           UNCHANGED <<users, grants, pending, ever>>,
           asked' \in 0 .. MaxOps, troubles' \in 0 .. MaxTroubles,
           excused \subseteq excused', excused' \subseteq Addresses,
           \A a \in Addresses : WillClaim(r, a) => a \in excused' \/ WillClaim(r, a)'
    PROVE  SharingInv'
<1>1. SharingTypeOK'
  BY Types DEF SharingInv, SharingTypeOK, RowType, ReqType, OpType
<1>2. RowsOK' /\ EverOK' /\ GrantsOK' /\ PendingOK' /\ OneOwner'
  BY DEF SharingInv, RowsOK, EverOK, GrantsOK, PendingOK, GivenAt, OneOwner
<1>3. ReqOK'
  <2>1. /\ Accounts \subseteq Accounts' /\ ever' \in [Agents -> [UserIds -> Levels]]
        /\ \A g \in Agents, u \in UserIds : ever'[g][u] >= ever[g][u]
    BY Types DEF SharingInv, Accounts, Levels, None, Owner
  <2> QED
    BY <2>1, OnlyOne
<1>4. OneAccount'
  BY <1>3 DEF SharingInv, OneAccount, ReqOK, Grounded, Accounts
<1>5. NothingLeftWaiting'
  <2> SUFFICES ASSUME NEW g \in Agents, NEW a \in Addresses, (pending[g][a] # NoGrant)',
                      (MailRows(a) # {})', (a \notin excused)'
               PROVE  \E s \in Calls : WillClaim(s, a)'
    BY DEF NothingLeftWaiting
  <2>1. PICK s \in Calls : WillClaim(s, a)
    BY DEF SharingInv, NothingLeftWaiting, MailRows, Accounts
  <2> QED
    BY <2>1 DEF WillClaim
<1> QED
  BY <1>1, <1>2, <1>3, <1>4, <1>5 DEF SharingInv

-----------------------------------------------------------------------------
(* Sharing: signing in.                                                    *)

LEMMA NoCallType == NoCall \in ReqType
<1>1. NoOp \in OpType
  BY DEF NoOp, OpType, Levels, None, Owner
<1> QED
  BY <1>1 DEF NoCall, ReqType

LEMMA ArriveKeeps ==
    ASSUME SharingInv, NEW r \in Calls, NEW p \in People, NEW a \in TokensOf[p], Arrive(r, p, a)
    PROVE  SharingInv'
<1>1. a \in Addresses /\ "none" \notin UserIds
  BY SharingAssumption
<1>0. NoCall \in ReqType
  BY NoCallType
<1>2. \A b : ~WillClaim(r, b)
  <2>1. call[r] = NoCall
    BY DEF Arrive
  <2> QED
    BY <2>1 DEF WillClaim, NoCall
<1>3. CASE call' = [call EXCEPT ![r] = [NoCall EXCEPT !.at = "create", !.person = p, !.mail = a]]
  <2>1. [NoCall EXCEPT !.at = "create", !.person = p, !.mail = a] \in ReqType
    BY <1>0, <1>1 DEF ReqType
  <2>2. call' \in [Calls -> ReqType]
    BY <1>3, <2>1, Types DEF SharingInv
  <2>3. Grounded(call[r])'
    BY <1>1, <1>3, Types DEF SharingInv, Grounded, NoCall, Working
  <2> QED
    BY <1>2, <1>3, <2>2, <2>3, Apart, Types DEF SharingInv, Arrive, Untouched, history
<1>4. ASSUME NEW u \in Accounts, NEW m \in BOOLEAN,
             call' = [call EXCEPT ![r] = [NoCall EXCEPT !.at = "stamp", !.user = u, !.mail = a,
                                                    !.moved = m]]
      PROVE  SharingInv'
  <2>1. [NoCall EXCEPT !.at = "stamp", !.user = u, !.mail = a, !.moved = m] \in ReqType
    BY <1>0, <1>1 DEF ReqType, Accounts
  <2>2. call' \in [Calls -> ReqType]
    BY <1>4, <2>1, Types DEF SharingInv
  <2>3. Grounded(call[r])'
    BY <1>1, <1>4, Types DEF SharingInv, Grounded, NoCall, Working, Accounts, Arrive, Untouched
  <2> QED
    BY <1>2, <1>4, <2>2, <2>3, Apart, Types DEF SharingInv, Arrive, Untouched, history
<1> QED
  BY <1>3, <1>4 DEF Arrive, SubjectRows

\* A request that ends, without having written anything.
LEMMA EndKeeps ==
    ASSUME SharingInv, NEW r \in Calls, Done(r), UNCHANGED <<users, grants, pending, ever>>,
           asked' \in 0 .. MaxOps, troubles' \in 0 .. MaxTroubles,
           excused' \subseteq Addresses,
           excused \cup {a \in Addresses : WillClaim(r, a)} \subseteq excused'
    PROVE  SharingInv'
<1>1. NoCall \in ReqType
  BY NoCallType
<1>2. call' \in [Calls -> ReqType] /\ call'[r] = NoCall
      /\ \A s \in Calls \ {r} : call'[s] = call[s]
  BY <1>1, Types DEF SharingInv, Done
<1>3. Grounded(call[r])'
  BY <1>2 DEF Grounded, NoCall, Working
<1> QED
  BY <1>2, <1>3, Apart

LEMMA LeaveKeeps ==
    ASSUME SharingInv, NEW r \in Calls, Leave(r)
    PROVE  SharingInv'
<1>1. \A a : ~WillClaim(r, a)
  BY DEF Leave, WillClaim
<1>2. UNCHANGED <<users, grants, pending, ever, asked, troubles, excused>> /\ Done(r)
  BY DEF Leave, Untouched, history
<1>3. asked' \in 0 .. MaxOps /\ troubles' \in 0 .. MaxTroubles /\ excused' \subseteq Addresses
  BY <1>2 DEF SharingInv, SharingTypeOK
<1>4. excused \cup {a \in Addresses : WillClaim(r, a)} \subseteq excused'
  BY <1>1, <1>2
<1> QED
  BY <1>2, <1>3, <1>4, EndKeeps

LEMMA DieKeeps ==
    ASSUME SharingInv, NEW r \in Calls, Die(r)
    PROVE  SharingInv'
<1>1. /\ UNCHANGED <<users, grants, pending, ever, asked>> /\ Done(r)
      /\ excused' = excused \cup {a \in Addresses : WillClaim(r, a)}
  BY DEF Die
<1>2. troubles' \in 0 .. MaxTroubles
  <2>1. troubles' = troubles + 1 /\ troubles < MaxTroubles
    BY DEF Die
  <2>2. troubles \in 0 .. MaxTroubles /\ MaxTroubles \in Nat
    BY SharingAssumption DEF SharingInv, SharingTypeOK
  <2> QED
    BY <2>1, <2>2
<1>3. asked' \in 0 .. MaxOps /\ excused' \subseteq Addresses
  BY <1>1 DEF SharingInv, SharingTypeOK
<1> QED
  BY <1>1, <1>2, <1>3, EndKeeps

\* A first login: the row is of a person who had none.
LEMMA FirstTimeKeeps ==
    ASSUME SharingInv, NEW r \in Calls, FirstTime(r)
    PROVE  SharingInv'
<1> DEFINE p == call[r].person
           m == call[r].mail
<1>1. /\ call[r] \in ReqType /\ call[r].at = "create" /\ p \in People /\ m \in Addresses
      /\ call \in [Calls -> ReqType]
  BY Types DEF SharingInv, FirstTime, ReqOK, Grounded
<1>2. UNCHANGED <<grants, pending, asked, troubles, ever, excused>>
  BY DEF FirstTime, history
<1>3. \A a : ~WillClaim(r, a)
  BY <1>1 DEF WillClaim
<1>4. asked' \in 0 .. MaxOps /\ troubles' \in 0 .. MaxTroubles /\ excused' \subseteq Addresses
  BY <1>2 DEF SharingInv, SharingTypeOK
<1>5. ASSUME UNCHANGED users, Done(r)
      PROVE  SharingInv'
  <2>1. excused \cup {a \in Addresses : WillClaim(r, a)} \subseteq excused'
    BY <1>2, <1>3
  <2> QED
    BY <1>2, <1>4, <1>5, <2>1, EndKeeps
<1>6. ASSUME NEW u \in Accounts, NEW f \in BOOLEAN, UNCHANGED users,
             call' = [call EXCEPT ![r].at = "stamp", ![r].person = "none", ![r].user = u,
                                ![r].moved = f]
      PROVE  SharingInv'
  <2>1. [call[r] EXCEPT !.at = "stamp", !.person = "none", !.user = u, !.moved = f] \in ReqType
    BY <1>1 DEF ReqType, Accounts
  <2>2. call' = [call EXCEPT ![r] = [call[r] EXCEPT !.at = "stamp", !.person = "none", !.user = u,
                                                 !.moved = f]]
    BY <1>6
  <2>3. call' \in [Calls -> ReqType] /\ \A s \in Calls \ {r} : call'[s] = call[s]
    BY <1>1, <2>1, <2>2
  <2>4. call'[r].at = "stamp" /\ call'[r].user = u /\ call'[r].mail = m
    BY <1>1, <2>2 DEF ReqType
  <2>5. Grounded(call[r])'
    BY <1>1, <1>6, <2>4, SharingAssumption DEF Grounded, Working, Accounts
  <2> QED
    BY <1>2, <1>3, <1>4, <1>6, <2>3, <2>5, Apart
<1>7. ASSUME NEW u \in UserIds \ Accounts, SubjectRows(p) = {},
             users' = [users EXCEPT ![u] = [subject |-> p, mail |-> m, active |-> TRUE]],
             call' = [call EXCEPT ![r].at = "stamp", ![r].person = "none", ![r].user = u,
                                ![r].moved = TRUE]
      PROVE  SharingInv'
  <2>1. /\ users' \in [UserIds -> RowType]
        /\ users'[u].subject = p /\ users'[u].mail = m
        /\ \A v \in UserIds \ {u} : users'[v] = users[v]
    BY <1>1, <1>7, Types DEF SharingInv, RowType
  <2>2. Accounts' = Accounts \cup {u} /\ users[u] = NoUser
    BY <1>1, <2>1, SharingAssumption DEF Accounts, NoUser
  <2>3. [call[r] EXCEPT !.at = "stamp", !.person = "none", !.user = u, !.moved = TRUE] \in ReqType
    BY <1>1 DEF ReqType, Accounts
  <2>4. call' = [call EXCEPT ![r] = [call[r] EXCEPT !.at = "stamp", !.person = "none", !.user = u,
                                                 !.moved = TRUE]]
    BY <1>7
  <2>5. call' \in [Calls -> ReqType] /\ \A s \in Calls \ {r} : call'[s] = call[s]
    BY <1>1, <2>3, <2>4
  <2>6. call'[r].at = "stamp" /\ call'[r].user = u /\ call'[r].mail = m /\ call'[r].moved
    BY <1>1, <2>4 DEF ReqType
  <2> HIDE DEF p, m
  <2>7. SharingTypeOK'
    BY <1>2, <2>1, <2>5, Types DEF SharingInv, SharingTypeOK, RowType, ReqType, OpType
  <2>8. RowsOK'
    BY <1>1, <2>1 DEF SharingInv, RowsOK
  <2>9. EverOK' /\ GrantsOK' /\ PendingOK' /\ OneOwner'
    BY <1>2 DEF SharingInv, EverOK, GrantsOK, PendingOK, GivenAt, OneOwner
  <2>10. Grounded(call[r])'
    BY <1>1, <2>2, <2>6, SharingAssumption DEF Grounded, Working
  <2>11. ReqOK'
    <3>1. /\ Accounts \subseteq Accounts' /\ ever' \in [Agents -> [UserIds -> Levels]]
          /\ \A g \in Agents, v \in UserIds : ever'[g][v] >= ever[g][v]
      BY <1>2, <2>2, GrantsStand
    <3> QED
      BY <2>5, <2>10, <3>1, OnlyOne
  <2>12. OneAccount'
    <3>1. \A v \in Accounts : users[v].subject # p
      BY <1>7 DEF SubjectRows
    <3>2. \A v, w \in Accounts' : users'[v].subject = users'[w].subject => v = w
      BY <2>1, <2>2, <3>1 DEF SharingInv, OneAccount, Accounts
    <3> QED
      BY <2>11, <3>2 DEF OneAccount, ReqOK, Grounded
  <2>13. NothingLeftWaiting'
    <3> SUFFICES ASSUME NEW g \in Agents, NEW a \in Addresses, (pending[g][a] # NoGrant)',
                        (MailRows(a) # {})', (a \notin excused)'
                 PROVE  \E s \in Calls : WillClaim(s, a)'
      BY DEF NothingLeftWaiting
    <3>1. CASE a = m
      BY <2>6, <3>1 DEF WillClaim
    <3>2. CASE a # m
      <4>1. MailRows(a) # {}
        BY <2>1, <2>2, <3>2 DEF MailRows, Accounts
      <4>2. PICK s \in Calls : WillClaim(s, a)
        BY <1>2, <4>1 DEF SharingInv, NothingLeftWaiting
      <4> QED
        BY <1>3, <2>5, <4>2 DEF WillClaim
    <3> QED
      BY <3>1, <3>2
  <2> QED
    BY <2>7, <2>8, <2>9, <2>11, <2>12, <2>13 DEF SharingInv
<1>8. \/ \E u \in UserIds \ Accounts :
            /\ SubjectRows(p) = {}
            /\ users' = [users EXCEPT ![u] = [subject |-> p, mail |-> m, active |-> TRUE]]
            /\ call' = [call EXCEPT ![r].at = "stamp", ![r].person = "none", ![r].user = u,
                                  ![r].moved = TRUE]
      \/ \E u \in Accounts :
            /\ UNCHANGED users
            /\ \/ \E f \in BOOLEAN : call' = [call EXCEPT ![r].at = "stamp", ![r].person = "none",
                                                       ![r].user = u, ![r].moved = f]
               \/ Done(r)
  BY DEF FirstTime, SubjectRows
<1> QED
  BY <1>5, <1>6, <1>7, <1>8

\* The address of a token is recorded: what waited for another address waits as before.
LEMMA StampKeeps ==
    ASSUME SharingInv, NEW r \in Calls, Stamp(r)
    PROVE  SharingInv'
<1> DEFINE u == call[r].user
           m == call[r].mail
<1>1. /\ call[r] \in ReqType /\ call[r].at = "stamp" /\ u \in Accounts /\ m \in Addresses
      /\ call \in [Calls -> ReqType] /\ u # "none" /\ u \in UserIds
  BY Types DEF SharingInv, Stamp, ReqOK, Grounded, Accounts
<1>2. UNCHANGED <<grants, pending, asked, troubles, ever>>
  BY DEF Stamp
<1>3. /\ users' \in [UserIds -> RowType]
      /\ users'[u].subject = users[u].subject /\ users'[u].mail = m
      /\ \A v \in UserIds \ {u} : users'[v] = users[v]
  BY <1>1, Types DEF SharingInv, Stamp, RowType
<1>4. Accounts' = Accounts
  <2>1. users[u].subject # "none" /\ users'[u].subject # "none"
    BY <1>1, <1>3, RowSubject
  <2> QED
    BY <1>1, <1>3, <2>1 DEF Accounts, NoUser
<1>5. /\ excused' = IF ~call[r].moved /\ users[u].mail # m THEN excused \cup {m} ELSE excused
      /\ excused \subseteq excused' /\ excused' \subseteq Addresses
  BY <1>1, Types DEF SharingInv, Stamp
<1>6. [call[r] EXCEPT !.at = "claim"] \in ReqType /\ SignedIn(r) \in ReqType
  <2>1. NoCall \in ReqType
    BY NoCallType
  <2> QED
    BY <1>1, <2>1 DEF ReqType, SignedIn
<1>7. call' = [call EXCEPT ![r] = IF call[r].moved THEN [call[r] EXCEPT !.at = "claim"]
                                  ELSE SignedIn(r)]
  BY DEF Stamp
<1>8. call' \in [Calls -> ReqType] /\ \A s \in Calls \ {r} : call'[s] = call[s]
  BY <1>1, <1>6, <1>7
<1>9. /\ call'[r].user = u /\ call'[r].at \in {"claim", "signed in"}
      /\ call[r].moved => call'[r].at = "claim" /\ call'[r].mail = m
      /\ ~call[r].moved => call'[r].at = "signed in"
  BY <1>1, <1>7 DEF ReqType, SignedIn, NoCall
<1> HIDE DEF u, m
<1>10. SharingTypeOK'
  BY <1>2, <1>3, <1>5, <1>8, Types DEF SharingInv, SharingTypeOK, RowType, ReqType, OpType
<1>11. RowsOK'
  BY <1>1, <1>3, RowSubject DEF SharingInv, RowsOK, NoUser
<1>12. EverOK' /\ GrantsOK' /\ PendingOK' /\ OneOwner'
  BY <1>2 DEF SharingInv, EverOK, GrantsOK, PendingOK, GivenAt, OneOwner
<1>13. ReqOK'
  <2>1. Grounded(call[r])'
    BY <1>1, <1>4, <1>9 DEF Grounded, Working
  <2>2. /\ Accounts \subseteq Accounts' /\ ever' \in [Agents -> [UserIds -> Levels]]
        /\ \A g \in Agents, v \in UserIds : ever'[g][v] >= ever[g][v]
    BY <1>2, <1>4, GrantsStand
  <2> QED
    BY <1>8, <2>1, <2>2, OnlyOne
<1>14. OneAccount'
  <2>1. \A v \in Accounts : users'[v].subject = users[v].subject
    BY <1>3 DEF Accounts
  <2> QED
    BY <1>4, <1>13, <2>1 DEF SharingInv, OneAccount, ReqOK, Grounded
<1>15. NothingLeftWaiting'
  <2> SUFFICES ASSUME NEW g \in Agents, NEW a \in Addresses, (pending[g][a] # NoGrant)',
                      (MailRows(a) # {})', (a \notin excused)'
               PROVE  \E s \in Calls : WillClaim(s, a)'
    BY DEF NothingLeftWaiting
  <2>1. CASE a = m /\ call[r].moved
    BY <1>9, <2>1 DEF WillClaim
  <2>2. CASE a # m \/ ~call[r].moved
    <3>1. a # m \/ users[u].mail = m
      BY <1>5, <2>2
    <3>2. MailRows(a) # {}
      BY <1>1, <1>3, <1>4, <3>1 DEF MailRows, Accounts
    <3>3. PICK s \in Calls : WillClaim(s, a)
      BY <1>2, <1>5, <3>2 DEF SharingInv, NothingLeftWaiting
    <3>4. s # r
      BY <1>1, <2>2, <3>3 DEF WillClaim, m
    <3> QED
      BY <1>8, <3>3, <3>4 DEF WillClaim
  <2> QED
    BY <2>1, <2>2
<1> QED
  BY <1>10, <1>11, <1>12, <1>13, <1>14, <1>15 DEF SharingInv

\* A step of one request on the tables of grants.
LEMMA Served ==
    ASSUME SharingInv, NEW r \in Calls, UNCHANGED <<users, asked, troubles>>,
           call' \in [Calls -> ReqType], \A s \in Calls \ {r} : call'[s] = call[s],
           Grounded(call[r])',
           grants' \in [Agents -> [UserIds -> GrantType]],
           ever' \in [Agents -> [UserIds -> Levels]],
           \A g \in Agents, u \in UserIds : ever'[g][u] >= ever[g][u],
           EverOK', GrantsOK', OneOwner',
           pending' \in [Agents -> [Addresses -> GrantType]], PendingOK',
           excused \subseteq excused', excused' \subseteq Addresses,
           \A g \in Agents, a \in Addresses : pending'[g][a] # NoGrant =>
              /\ ~WillClaim(r, a)
              /\ pending[g][a] # NoGrant \/ MailRows(a) = {} \/ a \in excused'
    PROVE  SharingInv'
<1>1. SharingTypeOK'
  BY Types DEF SharingInv, SharingTypeOK, RowType, ReqType, OpType
<1>2. Accounts' = Accounts
  BY DEF Accounts
<1>3. RowsOK'
  BY DEF SharingInv, RowsOK
<1>4. ReqOK'
  BY <1>2, OnlyOne
<1>5. OneAccount'
  BY <1>2, <1>4 DEF SharingInv, OneAccount, ReqOK, Grounded
<1>6. NothingLeftWaiting'
  <2> SUFFICES ASSUME NEW g \in Agents, NEW a \in Addresses, (pending[g][a] # NoGrant)',
                      (MailRows(a) # {})', (a \notin excused)'
               PROVE  \E s \in Calls : WillClaim(s, a)'
    BY DEF NothingLeftWaiting
  <2>1. MailRows(a) # {}
    BY <1>2 DEF MailRows
  <2>2. PICK s \in Calls : WillClaim(s, a)
    BY <2>1 DEF SharingInv, NothingLeftWaiting
  <2>3. s # r
    BY <2>2
  <2> QED
    BY <2>2, <2>3 DEF WillClaim
<1> QED
  BY <1>1, <1>3, <1>4, <1>5, <1>6 DEF SharingInv

\* What waits for an address becomes its owner's, where it is more than they hold.
LEMMA ClaimKeeps ==
    ASSUME SharingInv, NEW r \in Calls, Claim(r)
    PROVE  SharingInv'
<1> DEFINE u == call[r].user
           m == call[r].mail
           new == [g \in Agents |-> [grants[g] EXCEPT ![u] =
                      IF pending[g][m].role > @.role THEN pending[g][m] ELSE @]]
<1>1. /\ call[r] \in ReqType /\ call[r].at = "claim" /\ u \in UserIds /\ u # "none"
      /\ u \in Accounts /\ m \in Addresses /\ call \in [Calls -> ReqType]
  BY Types DEF SharingInv, Claim, ReqOK, Grounded, Accounts
<1>2. /\ grants \in [Agents -> [UserIds -> GrantType]]
      /\ pending \in [Agents -> [Addresses -> GrantType]]
  BY Types DEF SharingInv
<1>3. /\ UNCHANGED <<users, asked, troubles, excused>> /\ Grants(new)
      /\ pending' = [g \in Agents |-> [pending[g] EXCEPT ![m] = NoGrant]]
      /\ call' = [call EXCEPT ![r] = SignedIn(r)]
  BY DEF Claim
<1>4. ASSUME NEW g \in Agents, NEW v \in UserIds
      PROVE  /\ new[g][v] \in GrantType
             /\ new[g][v] = grants[g][v] \/ new[g][v] = pending[g][m]
             /\ new[g][v].role >= grants[g][v].role
  BY <1>1, <1>2 DEF GrantType, Levels, None, Owner
<1>5. new \in [Agents -> [UserIds -> GrantType]]
  BY <1>1, <1>2, <1>4
<1> HIDE DEF new, u, m
<1>6. /\ grants' = new /\ grants' \in [Agents -> [UserIds -> GrantType]]
      /\ ever' \in [Agents -> [UserIds -> Levels]]
      /\ \A g \in Agents, v \in UserIds : ever'[g][v] >= ever[g][v]
      /\ EverOK'
  BY <1>3, <1>5, Remembered
<1>7. /\ NoGrant \in GrantType
      /\ pending' \in [Agents -> [Addresses -> GrantType]]
      /\ \A g \in Agents : /\ pending'[g][m] = NoGrant
                           /\ \A a \in Addresses \ {m} : pending'[g][a] = pending[g][a]
  <2>1. NoGrant \in GrantType
    BY DEF NoGrant, GrantType, Levels, None, Owner
  <2> QED
    BY <1>1, <1>2, <1>3, <2>1
<1>8. GrantsOK'
  <2> SUFFICES ASSUME NEW g \in Agents, NEW v \in UserIds
               PROVE  GivenAt(g, grants[g][v], Owner)'
    BY DEF GrantsOK
  <2>1. GivenAt(g, new[g][v], Owner)
    BY <1>1, <1>4 DEF SharingInv, GrantsOK, PendingOK, GivenAt, User, Editor, Owner
  <2> QED
    BY <1>4, <1>6, <2>1, StillGiven DEF GivenAt, Levels, None, Owner
<1>9. PendingOK'
  <2> SUFFICES ASSUME NEW g \in Agents, NEW a \in Addresses
               PROVE  GivenAt(g, pending[g][a], Editor)'
    BY DEF PendingOK
  <2>1. CASE a = m
    BY <1>7, <2>1 DEF GivenAt
  <2>2. CASE a # m
    <3>1. GivenAt(g, pending[g][a], Editor) /\ pending[g][a] \in GrantType
      BY <1>2 DEF SharingInv, PendingOK
    <3> QED
      BY <1>6, <1>7, <2>2, <3>1, StillGiven DEF GivenAt, Levels, None, Editor, Owner
  <2> QED
    BY <2>1, <2>2
<1>10. OneOwner'
  <2> SUFFICES ASSUME NEW g \in Agents, NEW v \in UserIds, NEW w \in UserIds,
                      new[g][v].role = Owner, new[g][w].role = Owner
               PROVE  v = w
    BY <1>6 DEF OneOwner
  <2>1. pending[g][m].role # Owner
    BY <1>1 DEF SharingInv, PendingOK, GivenAt, NoGrant, User, Editor, Owner, None
  <2> QED
    BY <1>4, <2>1 DEF SharingInv, OneOwner
<1>11. SignedIn(r) \in ReqType
  <2>1. NoCall \in ReqType
    BY NoCallType
  <2> QED
    BY <1>1, <2>1 DEF ReqType, SignedIn
<1>12. /\ call' \in [Calls -> ReqType] /\ \A s \in Calls \ {r} : call'[s] = call[s]
       /\ call'[r].at = "signed in" /\ call'[r].user = u
  BY <1>1, <1>3, <1>11 DEF SignedIn, NoCall, u
<1>13. Grounded(call[r])'
  BY <1>1, <1>3, <1>12 DEF Grounded, Working, Accounts
<1>14. excused \subseteq excused' /\ excused' \subseteq Addresses
  BY <1>3 DEF SharingInv, SharingTypeOK
<1>15. ASSUME NEW g \in Agents, NEW a \in Addresses, pending'[g][a] # NoGrant
       PROVE  ~WillClaim(r, a) /\ pending[g][a] # NoGrant
  BY <1>7, <1>15 DEF WillClaim, m
<1>16. UNCHANGED <<users, asked, troubles>>
  BY <1>3
<1> QED
  BY <1>6, <1>7, <1>8, <1>9, <1>10, <1>12, <1>13, <1>14, <1>15, <1>16, Served

-----------------------------------------------------------------------------
(* Sharing: sharing and taking away.                                       *)

\* Who is allowed has been entitled: the history covers what they hold now.
LEMMA RequireKeeps ==
    ASSUME SharingInv, NEW r \in Calls, NEW op \in Ops \cup {call[r].op}, Require(r, op)
    PROVE  SharingInv'
<1>1. /\ call[r] \in ReqType /\ call \in [Calls -> ReqType] /\ Grounded(call[r])
      /\ call[r].at \in {"signed in", "found"}
  BY Types DEF SharingInv, ReqOK, Require
<1>2. /\ UNCHANGED <<users, grants, pending, troubles, ever, excused>>
      /\ \A a : ~WillClaim(r, a)
  BY <1>1 DEF Require, history, WillClaim
<1>3. asked' \in 0 .. MaxOps
  <2>1. asked \in 0 .. MaxOps /\ MaxOps \in Nat
    BY SharingAssumption DEF SharingInv, SharingTypeOK
  <2>2. asked' = asked \/ (asked < MaxOps /\ asked' = asked + 1)
    BY DEF Require
  <2> QED
    BY <2>1, <2>2
<1>4. troubles' \in 0 .. MaxTroubles /\ excused' \subseteq Addresses /\ excused \subseteq excused'
  BY <1>2 DEF SharingInv, SharingTypeOK
<1>5. CASE Done(r)
  BY <1>2, <1>3, <1>4, <1>5, EndKeeps
<1>6. CASE call' = [call EXCEPT ![r].at = IF op.who \in Addresses THEN "find" ELSE op.do,
                              ![r].op = op] /\ Allowed(r, op)
  <2> DEFINE q == call[r]
  <2>1. /\ q.user \in Accounts /\ q.user \in UserIds /\ q.user # "none"
    BY <1>1 DEF Grounded, ReqType
  <2>2. /\ op \in OpType /\ op.agent \in Agents /\ op.who \in Accounts \cup Addresses
        /\ \/ op.do = "share" /\ op.role \in User .. Owner
           \/ op.do = "unshare" /\ op.role = None
        /\ q.at = "found" => op.who \notin Addresses
    <3>1. CASE q.at = "signed in" /\ op \in Ops
      <4>1. Accounts \subseteq UserIds /\ User .. Owner \subseteq Levels /\ None \in Levels
        BY DEF Accounts, Levels, None, User, Owner
      <4>2. \/ op \in [do : {"share"}, agent : Agents, who : Accounts \cup Addresses,
                       role : User .. Owner]
            \/ op \in [do : {"unshare"}, agent : Agents, who : Accounts \cup Addresses,
                       role : {None}]
        BY <3>1 DEF Ops
      <4> QED
        BY <3>1, <4>1, <4>2 DEF OpType
    <3>2. CASE q.at = "found" /\ op = q.op
      BY <1>1, <3>2, SharingAssumption DEF Grounded, Working, AllowedOnce, ReqType, Accounts
    <3> QED
      BY <3>1, <3>2 DEF Require
  <2>3. /\ ever[op.agent][q.user] >= Editor
        /\ op.role = Owner /\ op.who \in UserIds => ever[op.agent][q.user] >= Owner
    <3>1. /\ grants[op.agent][q.user].role \in Levels /\ ever[op.agent][q.user] \in Levels
          /\ ever[op.agent][q.user] >= grants[op.agent][q.user].role
      BY <2>1, <2>2, Types DEF SharingInv, EverOK, GrantType
    <3>2. /\ grants[op.agent][q.user].role >= Editor
          /\ op.role = Owner /\ op.who \in UserIds => grants[op.agent][q.user].role >= Owner
      BY <1>6, <2>2, <3>1 DEF Allowed, Holds, Levels, Editor, Owner, None
    <3> QED
      BY <3>1, <3>2 DEF Levels, None, Editor, Owner
  <2>4. [q EXCEPT !.at = IF op.who \in Addresses THEN "find" ELSE op.do, !.op = op] \in ReqType
    BY <1>1, <2>2 DEF ReqType
  <2>5. call' = [call EXCEPT ![r] = [q EXCEPT !.at = IF op.who \in Addresses THEN "find" ELSE op.do,
                                            !.op = op]]
    BY <1>6
  <2>6. /\ call' \in [Calls -> ReqType] /\ \A s \in Calls \ {r} : call'[s] = call[s]
        /\ call'[r].at = IF op.who \in Addresses THEN "find" ELSE op.do
        /\ call'[r].op = op /\ call'[r].user = q.user
    <3>1. call' \in [Calls -> ReqType] /\ \A s \in Calls \ {r} : call'[s] = call[s]
      BY <1>1, <2>4, <2>5
    <3>2. call'[r] = [q EXCEPT !.at = IF op.who \in Addresses THEN "find" ELSE op.do, !.op = op]
      BY <1>1, <2>5
    <3> QED
      BY <1>1, <3>1, <3>2 DEF ReqType
  <2> HIDE DEF q
  <2>7. AllowedOnce(call[r])'
    BY <1>2, <2>2, <2>3, <2>6 DEF AllowedOnce, Accounts
  <2>8. Grounded(call[r])'
    BY <1>2, <2>1, <2>2, <2>6, <2>7 DEF Grounded, Accounts
  <2> QED
    BY <1>2, <1>3, <1>4, <2>6, <2>8, Apart
<1> QED
  BY <1>5, <1>6 DEF Require

LEMMA FindKeeps ==
    ASSUME SharingInv, NEW r \in Calls, Find(r)
    PROVE  SharingInv'
<1> DEFINE q    == call[r]
           op   == q.op
           kept == IF op.do = "unshare" THEN op.who ELSE "none"
<1>1. /\ q \in ReqType /\ call \in [Calls -> ReqType] /\ Grounded(q) /\ q.at = "find"
      /\ op \in OpType /\ AllowedOnce(q) /\ op.who \in Addresses /\ op.agent \in Agents
      /\ kept \in Addresses \cup {"none"} /\ q.user \in Accounts /\ q.user # "none"
  BY Types DEF SharingInv, ReqOK, Find, Grounded, Working, AllowedOnce, ReqType
<1>2. /\ UNCHANGED <<users, grants, pending, asked, troubles, ever, excused>>
      /\ \A a : ~WillClaim(r, a)
  BY <1>1 DEF Find, Untouched, history, WillClaim
<1>3. /\ asked' \in 0 .. MaxOps /\ troubles' \in 0 .. MaxTroubles
      /\ excused' \subseteq Addresses /\ excused \subseteq excused'
  BY <1>2 DEF SharingInv, SharingTypeOK
<1>4. CASE Done(r)
  BY <1>2, <1>3, <1>4, EndKeeps
<1>5. ASSUME NEW u \in Accounts,
             call' = [call EXCEPT ![r].at = "found", ![r].op.who = u, ![r].mail = kept]
      PROVE  SharingInv'
  <2>1. [op EXCEPT !.who = u] \in OpType
    BY <1>1 DEF OpType, Accounts
  <2>2. [q EXCEPT !.at = "found", !.op = [op EXCEPT !.who = u], !.mail = kept] \in ReqType
    BY <1>1, <2>1 DEF ReqType
  <2>3. call' = [call EXCEPT ![r] = [q EXCEPT !.at = "found", !.op = [op EXCEPT !.who = u],
                                            !.mail = kept]]
    BY <1>1, <1>5 DEF ReqType
  <2>4. /\ call' \in [Calls -> ReqType] /\ \A s \in Calls \ {r} : call'[s] = call[s]
        /\ call'[r].at = "found" /\ call'[r].op = [op EXCEPT !.who = u] /\ call'[r].user = q.user
    <3>1. call' \in [Calls -> ReqType] /\ \A s \in Calls \ {r} : call'[s] = call[s]
      BY <1>1, <2>2, <2>3
    <3>2. call'[r] = [q EXCEPT !.at = "found", !.op = [op EXCEPT !.who = u], !.mail = kept]
      BY <1>1, <2>3
    <3> QED
      BY <1>1, <3>1, <3>2 DEF ReqType
  <2>5. /\ call'[r].op.who = u /\ call'[r].op.agent = op.agent /\ call'[r].op.do = op.do
        /\ call'[r].op.role = op.role
    BY <1>1, <2>4 DEF OpType
  <2> HIDE DEF q, op, kept
  <2>6. AllowedOnce(call[r])'
    BY <1>1, <1>2, <2>4, <2>5 DEF AllowedOnce, Accounts, op
  <2>7. Grounded(call[r])'
    BY <1>1, <1>2, <2>4, <2>6 DEF Grounded, Accounts
  <2> QED
    BY <1>2, <1>3, <2>4, <2>7, Apart
<1>6. ASSUME op.role # Owner,
             call' = [call EXCEPT ![r].at = IF op.do = "share" THEN "add" ELSE "forget",
                                ![r].mail = kept]
      PROVE  SharingInv'
  <2>1. [q EXCEPT !.at = IF op.do = "share" THEN "add" ELSE "forget", !.mail = kept] \in ReqType
    BY <1>1 DEF ReqType
  <2>2. call' = [call EXCEPT ![r] = [q EXCEPT !.at = IF op.do = "share" THEN "add" ELSE "forget",
                                            !.mail = kept]]
    BY <1>6
  <2>3. /\ call' \in [Calls -> ReqType] /\ \A s \in Calls \ {r} : call'[s] = call[s]
        /\ call'[r].at = IF op.do = "share" THEN "add" ELSE "forget"
        /\ call'[r].op = op /\ call'[r].user = q.user /\ call'[r].mail = kept
    <3>1. call' \in [Calls -> ReqType] /\ \A s \in Calls \ {r} : call'[s] = call[s]
      BY <1>1, <2>1, <2>2
    <3>2. call'[r] = [q EXCEPT !.at = IF op.do = "share" THEN "add" ELSE "forget", !.mail = kept]
      BY <1>1, <2>2
    <3> HIDE DEF op, kept
    <3>3. /\ call'[r].at = IF op.do = "share" THEN "add" ELSE "forget"
          /\ call'[r].op = q.op /\ call'[r].user = q.user /\ call'[r].mail = kept
      BY <1>1, <3>2 DEF ReqType
    <3> QED
      BY <3>1, <3>3 DEF op
  <2>4. /\ op.do = "share" => op.role \in User .. Editor
        /\ op.do # "share" => kept \in Addresses
    BY <1>1, <1>6 DEF AllowedOnce, User, Editor, Owner
  <2> HIDE DEF q, op, kept
  <2>5. AllowedOnce(call[r])'
    BY <1>1, <1>2, <2>3, <2>4 DEF AllowedOnce, Accounts, op
  <2>6. Grounded(call[r])'
    BY <1>1, <1>2, <2>3, <2>5 DEF Grounded, Accounts
  <2> QED
    BY <1>2, <1>3, <2>3, <2>6, Apart
<1> QED
  BY <1>4, <1>5, <1>6 DEF Find, MailRows

\* A request that ends says nothing any more.
LEMMA Ended ==
    ASSUME SharingInv, NEW r \in Calls, Done(r)
    PROVE  /\ call' \in [Calls -> ReqType] /\ \A s \in Calls \ {r} : call'[s] = call[s]
           /\ Grounded(call[r])'
<1>1. NoCall \in ReqType
  BY NoCallType
<1>2. call' \in [Calls -> ReqType] /\ call'[r] = NoCall
      /\ \A s \in Calls \ {r} : call'[s] = call[s]
  BY <1>1, Types DEF SharingInv, Done
<1> QED
  BY <1>2 DEF Grounded, NoCall, Working

\* A grant replaces what there was; an ownership leaves one owner.
LEMMA ShareKeeps ==
    ASSUME SharingInv, NEW r \in Calls, Share(r)
    PROVE  SharingInv'
<1> DEFINE q   == call[r]
           op  == q.op
           new == IF op.role = Owner THEN Transferred(op.agent, op.who, q.user)
                  ELSE [grants EXCEPT ![op.agent][op.who] = [role |-> op.role, by |-> q.user]]
<1>1. /\ call \in [Calls -> ReqType] /\ q.at = "share" /\ AllowedOnce(q)
      /\ q.user \in UserIds /\ op.agent \in Agents /\ op.who \in UserIds
      /\ op.role \in User .. Owner
      /\ ever[op.agent][q.user] >= (IF op.role = Owner THEN Owner ELSE Editor)
  <2>1. /\ call \in [Calls -> ReqType] /\ q \in ReqType /\ Grounded(q) /\ q.at = "share"
    BY Types DEF SharingInv, ReqOK, Share
  <2>2. AllowedOnce(q) /\ q.user \in UserIds
    BY <2>1 DEF Grounded, Working, ReqType
  <2> QED
    BY <2>1, <2>2 DEF AllowedOnce, Accounts
<1>2. grants \in [Agents -> [UserIds -> GrantType]]
  BY Types DEF SharingInv
<1>3. UNCHANGED <<users, pending, asked, troubles, excused>> /\ Grants(new) /\ Done(r)
  BY DEF Share
<1>4. ASSUME NEW g \in Agents, NEW v \in UserIds
      PROVE  /\ new[g][v] \in GrantType
             /\ \/ /\ new[g][v] = grants[g][v]
                   /\ g = op.agent /\ op.role = Owner => new[g][v].role # Owner
                \/ g = op.agent /\ v = op.who /\ new[g][v] = [role |-> op.role, by |-> q.user]
                \/ /\ grants[g][v].role = Owner
                   /\ new[g][v] = [role |-> Editor, by |-> grants[g][v].by]
  <2>1. grants[g][v] \in GrantType
    BY <1>2
  <2>2. [role |-> op.role, by |-> q.user] \in GrantType
    BY <1>1 DEF GrantType, Levels, None, User, Owner
  <2>3. [role |-> Editor, by |-> grants[g][v].by] \in GrantType
    BY <2>1 DEF GrantType, Levels, None, Editor, Owner
  <2>4. [grants[g][v] EXCEPT !.role = Editor] = [role |-> Editor, by |-> grants[g][v].by]
    BY <2>1 DEF GrantType
  <2> HIDE DEF q, op
  <2>5. CASE op.role = Owner
    BY <1>1, <1>2, <2>1, <2>2, <2>3, <2>4, <2>5 DEF Transferred
  <2>6. CASE op.role # Owner
    BY <1>1, <1>2, <2>1, <2>2, <2>6
  <2> QED
    BY <2>5, <2>6
<1>5. new \in [Agents -> [UserIds -> GrantType]]
  <2>1. new = [g \in Agents |-> new[g]]
    BY <1>1, <1>2 DEF Transferred
  <2>2. ASSUME NEW g \in Agents
        PROVE  new[g] = [v \in UserIds |-> new[g][v]]
    BY <1>1, <1>2 DEF Transferred
  <2> HIDE DEF new
  <2> QED
    BY <1>4, <2>1, <2>2
<1> HIDE DEF new
<1>6. /\ grants' = new /\ grants' \in [Agents -> [UserIds -> GrantType]]
      /\ ever' \in [Agents -> [UserIds -> Levels]]
      /\ \A g \in Agents, v \in UserIds : ever'[g][v] >= ever[g][v]
      /\ EverOK'
  BY <1>3, <1>5, Remembered
<1>7. GrantsOK'
  <2> SUFFICES ASSUME NEW g \in Agents, NEW v \in UserIds
               PROVE  GivenAt(g, grants[g][v], Owner)'
    BY DEF GrantsOK
  <2> HIDE DEF q, op
  <2>1. GivenAt(g, grants[g][v], Owner)
    BY DEF SharingInv, GrantsOK
  <2>2. GivenAt(g, new[g][v], Owner)
    <3>1. CASE new[g][v] = grants[g][v]
      BY <2>1, <3>1
    <3>2. CASE g = op.agent /\ new[g][v] = [role |-> op.role, by |-> q.user]
      BY <1>1, <3>2 DEF GivenAt
    <3>3. CASE grants[g][v].role = Owner /\ new[g][v] = [role |-> Editor, by |-> grants[g][v].by]
      <4>1. grants[g][v].by \in UserIds /\ ever[g][grants[g][v].by] >= Owner
        BY <2>1, <3>3 DEF GivenAt, NoGrant, None, Owner
      <4>2. ever[g][grants[g][v].by] \in Levels
        BY <4>1, Types DEF SharingInv
      <4> QED
        BY <3>3, <4>1, <4>2 DEF GivenAt, Levels, None, User, Editor, Owner
    <3> QED
      BY <1>4, <3>1, <3>2, <3>3
  <2> QED
    BY <1>4, <1>6, <2>2, StillGiven DEF GivenAt, Levels, None, Owner
<1>8. PendingOK'
  <2>1. UNCHANGED pending
    BY <1>3
  <2> QED
    BY <1>6, <2>1, PendingStands
<1>9. OneOwner'
  <2> SUFFICES ASSUME NEW g \in Agents, NEW v \in UserIds, NEW w \in UserIds,
                      new[g][v].role = Owner, new[g][w].role = Owner
               PROVE  v = w
    BY <1>6 DEF OneOwner
  <2>1. \A y \in UserIds : new[g][y].role = Owner =>
           \/ grants[g][y].role = Owner /\ (g = op.agent => op.role # Owner)
           \/ g = op.agent /\ op.role = Owner /\ y = op.who
    <3> HIDE DEF q, op
    <3> SUFFICES ASSUME NEW y \in UserIds, new[g][y].role = Owner
                 PROVE  \/ grants[g][y].role = Owner /\ (g = op.agent => op.role # Owner)
                        \/ g = op.agent /\ op.role = Owner /\ y = op.who
      OBVIOUS
    <3>1. new[g][y] # [role |-> Editor, by |-> grants[g][y].by]
      BY DEF Editor, Owner
    <3> QED
      BY <1>4, <3>1
  <2> HIDE DEF q, op
  <2> QED
    BY <2>1 DEF SharingInv, OneOwner
<1>10. /\ call' \in [Calls -> ReqType] /\ \A s \in Calls \ {r} : call'[s] = call[s]
       /\ Grounded(call[r])'
  BY <1>3, Ended
<1>11. \A a : ~WillClaim(r, a)
  BY <1>1 DEF WillClaim
<1>12. /\ excused \subseteq excused' /\ excused' \subseteq Addresses /\ pending' = pending
       /\ pending' \in [Agents -> [Addresses -> GrantType]]
  BY <1>3, Types DEF SharingInv
<1>13. UNCHANGED <<users, asked, troubles>>
  BY <1>3
<1> QED
  BY <1>6, <1>7, <1>8, <1>9, <1>10, <1>11, <1>12, <1>13, Served

LEMMA AddPendingKeeps ==
    ASSUME SharingInv, NEW r \in Calls, AddPending(r)
    PROVE  SharingInv'
<1> DEFINE q  == call[r]
           op == q.op
           x  == [role |-> op.role, by |-> q.user]
<1>1. /\ call \in [Calls -> ReqType] /\ q.at = "add" /\ AllowedOnce(q)
      /\ q.user \in UserIds /\ op.agent \in Agents /\ op.who \in Addresses
      /\ op.role \in User .. Editor
      /\ ever[op.agent][q.user] >= Editor
  <2>1. /\ call \in [Calls -> ReqType] /\ q \in ReqType /\ Grounded(q) /\ q.at = "add"
    BY Types DEF SharingInv, ReqOK, AddPending
  <2>2. AllowedOnce(q) /\ q.user \in UserIds
    BY <2>1 DEF Grounded, Working, ReqType
  <2> QED
    BY <2>1, <2>2 DEF AllowedOnce
<1>2. /\ UNCHANGED <<users, grants, asked, troubles, ever>> /\ Done(r)
      /\ pending' = [pending EXCEPT ![op.agent][op.who] = x]
      /\ excused' = IF MailRows(op.who) # {} THEN excused \cup {op.who} ELSE excused
  BY DEF AddPending
<1>3. x \in GrantType /\ GivenAt(op.agent, x, Editor)
  BY <1>1 DEF GrantType, GivenAt, Levels, None, User, Editor, Owner
<1> HIDE DEF x
<1>4. /\ pending' \in [Agents -> [Addresses -> GrantType]]
      /\ \A g \in Agents, a \in Addresses :
            pending'[g][a] = IF g = op.agent /\ a = op.who THEN x ELSE pending[g][a]
  BY <1>1, <1>2, <1>3, Types DEF SharingInv
<1>5. /\ grants' \in [Agents -> [UserIds -> GrantType]]
      /\ ever' \in [Agents -> [UserIds -> Levels]]
      /\ \A g \in Agents, v \in UserIds : ever'[g][v] >= ever[g][v]
      /\ EverOK' /\ GrantsOK' /\ OneOwner'
  BY <1>2, GrantsStand
<1>6. PendingOK'
  <2> SUFFICES ASSUME NEW g \in Agents, NEW a \in Addresses
               PROVE  GivenAt(g, pending'[g][a], Editor)
    BY <1>2 DEF PendingOK, GivenAt
  <2> QED
    BY <1>3, <1>4 DEF SharingInv, PendingOK
<1>7. /\ call' \in [Calls -> ReqType] /\ \A s \in Calls \ {r} : call'[s] = call[s]
      /\ Grounded(call[r])'
  BY <1>2, Ended
<1>8. /\ \A a : ~WillClaim(r, a)
      /\ excused \subseteq excused' /\ excused' \subseteq Addresses
      /\ MailRows(op.who) = {} \/ op.who \in excused'
  BY <1>1, <1>2, Types DEF SharingInv, WillClaim
<1>9. UNCHANGED <<users, asked, troubles>>
  BY <1>2
<1>10. ASSUME NEW g \in Agents, NEW a \in Addresses, pending'[g][a] # NoGrant
       PROVE  pending[g][a] # NoGrant \/ MailRows(a) = {} \/ a \in excused'
  BY <1>4, <1>8, <1>10
<1> QED
  BY <1>4, <1>5, <1>6, <1>7, <1>8, <1>9, <1>10, Served

LEMMA UnshareKeeps ==
    ASSUME SharingInv, NEW r \in Calls, Unshare(r)
    PROVE  SharingInv'
<1> DEFINE q   == call[r]
           op  == q.op
           new == [grants EXCEPT ![op.agent][op.who] = NoGrant]
<1>1. /\ call \in [Calls -> ReqType] /\ q \in ReqType /\ q.at = "unshare" /\ AllowedOnce(q)
      /\ q.user \in Accounts /\ q.user # "none" /\ op.agent \in Agents /\ op.who \in UserIds
  <2>1. /\ call \in [Calls -> ReqType] /\ q \in ReqType /\ Grounded(q) /\ q.at = "unshare"
    BY Types DEF SharingInv, ReqOK, Unshare
  <2> QED
    BY <2>1 DEF Grounded, Working, AllowedOnce, Accounts
<1>2. grants \in [Agents -> [UserIds -> GrantType]]
  BY Types DEF SharingInv
<1>3. /\ UNCHANGED <<users, pending, asked, troubles, excused>> /\ Grants(new)
      /\ IF q.mail \in Addresses THEN Moves(r, "forget") ELSE Done(r)
  BY DEF Unshare
<1>4. /\ new \in [Agents -> [UserIds -> GrantType]]
      /\ \A g \in Agents, v \in UserIds : new[g][v] = grants[g][v] \/ new[g][v] = NoGrant
  BY <1>1, <1>2, NoGrantType
<1> HIDE DEF new
<1>5. /\ grants' = new /\ grants' \in [Agents -> [UserIds -> GrantType]]
      /\ ever' \in [Agents -> [UserIds -> Levels]]
      /\ \A g \in Agents, v \in UserIds : ever'[g][v] >= ever[g][v]
      /\ EverOK'
  BY <1>3, <1>4, Remembered
<1>6. GrantsOK'
  <2> SUFFICES ASSUME NEW g \in Agents, NEW v \in UserIds
               PROVE  GivenAt(g, grants[g][v], Owner)'
    BY DEF GrantsOK
  <2>1. GivenAt(g, new[g][v], Owner) /\ new[g][v] \in GrantType
    BY <1>4 DEF SharingInv, GrantsOK, GivenAt
  <2> QED
    BY <1>5, <2>1, StillGiven DEF GivenAt, Levels, None, Owner
<1>7. PendingOK'
  <2>1. UNCHANGED pending
    BY <1>3
  <2> QED
    BY <1>5, <2>1, PendingStands
<1>8. OneOwner'
  BY <1>4, <1>5 DEF SharingInv, OneOwner, NoGrant, None, Owner
<1>9. /\ call' \in [Calls -> ReqType] /\ \A s \in Calls \ {r} : call'[s] = call[s]
      /\ Grounded(call[r])'
  <2>1. CASE q.mail \notin Addresses
    BY <1>3, <2>1, Ended
  <2>2. CASE q.mail \in Addresses
    <3>1. [q EXCEPT !.at = "forget"] \in ReqType
      BY <1>1 DEF ReqType
    <3>2. call' = [call EXCEPT ![r] = [q EXCEPT !.at = "forget"]]
      BY <1>3, <2>2 DEF Moves
    <3>3. call' \in [Calls -> ReqType] /\ \A s \in Calls \ {r} : call'[s] = call[s]
      BY <1>1, <3>1, <3>2
    <3>4. /\ call'[r].at = "forget" /\ call'[r].op = op /\ call'[r].user = q.user
          /\ call'[r].mail = q.mail
      BY <1>1, <3>2 DEF ReqType
    <3>5. ever[op.agent][q.user] >= Editor /\ ever'[op.agent][q.user] >= Editor
      <4>1. /\ ever[op.agent][q.user] \in Levels /\ ever'[op.agent][q.user] \in Levels
            /\ ever'[op.agent][q.user] >= ever[op.agent][q.user]
        BY <1>1, <1>5, Types DEF SharingInv, Accounts
      <4> QED
        BY <1>1, <4>1 DEF AllowedOnce, Levels, None, Editor, Owner
    <3> HIDE DEF q, op
    <3>6. AllowedOnce(call[r])'
      BY <1>1, <2>2, <3>4, <3>5 DEF AllowedOnce, op
    <3> QED
      BY <1>1, <1>3, <3>3, <3>4, <3>6 DEF Grounded, Accounts
  <2> QED
    BY <2>1, <2>2
<1>10. \A a : ~WillClaim(r, a)
  BY <1>1 DEF WillClaim
<1>11. /\ excused \subseteq excused' /\ excused' \subseteq Addresses /\ pending' = pending
       /\ pending' \in [Agents -> [Addresses -> GrantType]]
  BY <1>3, Types DEF SharingInv
<1>12. UNCHANGED <<users, asked, troubles>>
  BY <1>3
<1> QED
  BY <1>5, <1>6, <1>7, <1>8, <1>9, <1>10, <1>11, <1>12, Served

LEMMA ForgetKeeps ==
    ASSUME SharingInv, NEW r \in Calls, Forget(r)
    PROVE  SharingInv'
<1> DEFINE q == call[r]
<1>1. /\ call \in [Calls -> ReqType] /\ q.at = "forget" /\ q.op.agent \in Agents
      /\ q.mail \in Addresses
  BY Types DEF SharingInv, ReqOK, Forget, Grounded, Working, AllowedOnce
<1>2. /\ UNCHANGED <<users, grants, asked, troubles, ever, excused>> /\ Done(r)
      /\ pending' = [pending EXCEPT ![q.op.agent][q.mail] = NoGrant]
  BY DEF Forget, history
<1>3. /\ pending' \in [Agents -> [Addresses -> GrantType]]
      /\ \A g \in Agents, a \in Addresses :
            pending'[g][a] = pending[g][a] \/ pending'[g][a] = NoGrant
  BY <1>1, <1>2, NoGrantType, Types DEF SharingInv
<1>4. /\ grants' \in [Agents -> [UserIds -> GrantType]]
      /\ ever' \in [Agents -> [UserIds -> Levels]]
      /\ \A g \in Agents, v \in UserIds : ever'[g][v] >= ever[g][v]
      /\ EverOK' /\ GrantsOK' /\ OneOwner'
  BY <1>2, GrantsStand
<1>5. PendingOK'
  <2> SUFFICES ASSUME NEW g \in Agents, NEW a \in Addresses
               PROVE  GivenAt(g, pending'[g][a], Editor)
    BY <1>2 DEF PendingOK, GivenAt
  <2>1. GivenAt(g, pending[g][a], Editor)
    BY DEF SharingInv, PendingOK
  <2> QED
    BY <1>3, <2>1 DEF GivenAt
<1>6. /\ call' \in [Calls -> ReqType] /\ \A s \in Calls \ {r} : call'[s] = call[s]
      /\ Grounded(call[r])'
  BY <1>2, Ended
<1>7. /\ \A a : ~WillClaim(r, a)
      /\ excused \subseteq excused' /\ excused' \subseteq Addresses
  BY <1>1, <1>2, Types DEF SharingInv, WillClaim
<1>8. UNCHANGED <<users, asked, troubles>>
  BY <1>2
<1> QED
  BY <1>3, <1>4, <1>5, <1>6, <1>7, <1>8, Served

-----------------------------------------------------------------------------
(* Sharing: an administrator, the start, and the results.                  *)

LEMMA SetActiveKeeps ==
    ASSUME SharingInv, NEW u \in UserIds, SetActive(u)
    PROVE  SharingInv'
<1>1. /\ u \in Accounts /\ UNCHANGED <<grants, pending, call, asked, ever, excused>>
      /\ users' = [users EXCEPT ![u].active = ~@]
  BY DEF SetActive, history
<1>2. troubles' \in 0 .. MaxTroubles
  <2>1. troubles' = troubles + 1 /\ troubles < MaxTroubles
    BY DEF SetActive
  <2>2. troubles \in 0 .. MaxTroubles /\ MaxTroubles \in Nat
    BY SharingAssumption DEF SharingInv, SharingTypeOK
  <2> QED
    BY <2>1, <2>2
<1>3. /\ users' \in [UserIds -> RowType]
      /\ \A v \in UserIds : users'[v].subject = users[v].subject /\ users'[v].mail = users[v].mail
      /\ \A v \in UserIds \ {u} : users'[v] = users[v]
  BY <1>1, Types DEF SharingInv, RowType
<1>4. Accounts' = Accounts
  <2>1. users[u].subject # "none" /\ users[u].subject = users'[u].subject
    BY <1>1, <1>3, RowSubject
  <2> QED
    BY <1>1, <1>3, <2>1 DEF Accounts, NoUser
<1>5. SharingTypeOK'
  BY <1>1, <1>2, <1>3, Types DEF SharingInv, SharingTypeOK, RowType, ReqType, OpType
<1>6. RowsOK'
  BY <1>1, <1>3, RowSubject DEF SharingInv, RowsOK
<1>7. EverOK' /\ GrantsOK' /\ PendingOK' /\ OneOwner'
  BY <1>1 DEF SharingInv, EverOK, GrantsOK, PendingOK, GivenAt, OneOwner
<1>8. ReqOK'
  BY <1>1, <1>4 DEF SharingInv, ReqOK, Grounded, AllowedOnce
<1>9. OneAccount'
  BY <1>1, <1>3, <1>4 DEF SharingInv, OneAccount, Accounts
<1>10. NothingLeftWaiting'
  <2>1. \A a : MailRows(a)' = MailRows(a)
    BY <1>3, <1>4 DEF MailRows, Accounts
  <2> QED
    BY <1>1, <2>1 DEF SharingInv, NothingLeftWaiting, WillClaim
<1> QED
  BY <1>5, <1>6, <1>7, <1>8, <1>9, <1>10 DEF SharingInv

LEMMA SharingInitSound == SharingInit => SharingInv
<1> SUFFICES ASSUME SharingInit
             PROVE  SharingInv
  OBVIOUS
<1> PICK u \in UserIds, p \in People : \E a \in TokensOf[p] :
          /\ users = [v \in UserIds |-> IF v = u
                                        THEN [subject |-> p, mail |-> a, active |-> TRUE]
                                        ELSE NoUser]
          /\ grants = [g \in Agents |-> [v \in UserIds |->
                          IF v = u THEN [role |-> Owner, by |-> u] ELSE NoGrant]]
          /\ ever = [g \in Agents |-> [v \in UserIds |-> IF v = u THEN Owner ELSE None]]
  BY DEF SharingInit
<1> PICK a \in TokensOf[p] :
          /\ users = [v \in UserIds |-> IF v = u
                                        THEN [subject |-> p, mail |-> a, active |-> TRUE]
                                        ELSE NoUser]
          /\ grants = [g \in Agents |-> [v \in UserIds |->
                          IF v = u THEN [role |-> Owner, by |-> u] ELSE NoGrant]]
          /\ ever = [g \in Agents |-> [v \in UserIds |-> IF v = u THEN Owner ELSE None]]
  OBVIOUS
<1>1. a \in Addresses /\ p # "none"
  BY SharingAssumption
<1>2. /\ pending = [g \in Agents |-> [b \in Addresses |-> NoGrant]]
      /\ call = [r \in Calls |-> NoCall]
      /\ asked = 0 /\ troubles = 0 /\ excused = {}
  BY DEF SharingInit
<1>3. asked \in 0 .. MaxOps /\ troubles \in 0 .. MaxTroubles
  BY <1>2, SharingAssumption
<1>4. SharingTypeOK
  <2>1. users \in [UserIds -> RowType]
    BY <1>1 DEF RowType, NoUser
  <2>2. [role |-> Owner, by |-> u] \in GrantType /\ NoGrant \in GrantType
    BY NoGrantType DEF GrantType, Levels, None, Owner
  <2>3. grants \in [Agents -> [UserIds -> GrantType]]
    BY <2>2
  <2>4. pending \in [Agents -> [Addresses -> GrantType]]
    BY <1>2, <2>2
  <2>5. call \in [Calls -> ReqType]
    BY <1>2, NoCallType
  <2>6. ever \in [Agents -> [UserIds -> Levels]]
    BY DEF Levels, None, Owner
  <2> QED
    BY <1>2, <1>3, <2>1, <2>3, <2>4, <2>5, <2>6, Types
<1>5. Accounts = {u} /\ RowsOK
  BY <1>1 DEF Accounts, RowsOK, NoUser
<1>6. EverOK /\ OneOwner
  BY DEF EverOK, OneOwner, NoGrant, None, Owner
<1>7. GrantsOK
  BY DEF GrantsOK, GivenAt, User, Editor, Owner
<1>8. PendingOK
  BY <1>2 DEF PendingOK, GivenAt
<1>9. ReqOK /\ OneAccount
  BY <1>2, <1>5 DEF ReqOK, Grounded, NoCall, Working, OneAccount
<1>10. NothingLeftWaiting
  BY <1>2 DEF NothingLeftWaiting
<1> QED
  BY <1>4, <1>5, <1>6, <1>7, <1>8, <1>9, <1>10 DEF SharingInv

LEMMA SharingNextKeeps == SharingInv /\ [SharingNext]_sharingVars => SharingInv'
<1> SUFFICES ASSUME SharingInv, [SharingNext]_sharingVars
             PROVE  SharingInv'
  OBVIOUS
<1>1. CASE UNCHANGED sharingVars
  <2>1. UNCHANGED <<users, grants, pending, call, asked, troubles, ever, excused>>
    BY <1>1 DEF sharingVars, history
  <2>2. SharingTypeOK'
    BY <2>1, Types DEF SharingInv, SharingTypeOK, RowType, ReqType, OpType
  <2>6. RowsOK' /\ EverOK' /\ OneOwner'
    BY <2>1 DEF SharingInv, RowsOK, EverOK, OneOwner
  <2>3. GrantsOK' /\ PendingOK'
    BY <2>1 DEF SharingInv, GrantsOK, PendingOK, GivenAt
  <2>4. ReqOK'
    BY <2>1 DEF SharingInv, ReqOK, Grounded, AllowedOnce, Accounts
  <2>5. OneAccount' /\ NothingLeftWaiting'
    BY <2>1 DEF SharingInv, OneAccount, NothingLeftWaiting, MailRows, Accounts, WillClaim
  <2> QED
    BY <2>2, <2>3, <2>4, <2>5, <2>6 DEF SharingInv
<1>2. ASSUME NEW r \in Calls, NEW p \in People, NEW a \in TokensOf[p], Arrive(r, p, a)
      PROVE  SharingInv'
  BY <1>2, ArriveKeeps
<1>3. ASSUME NEW r \in Calls, NEW op \in Ops \cup {call[r].op}, Require(r, op)
      PROVE  SharingInv'
  BY <1>3, RequireKeeps
<1>4. ASSUME NEW r \in Calls,
             FirstTime(r) \/ Stamp(r) \/ Claim(r) \/ Leave(r) \/ Find(r)
      PROVE  SharingInv'
  BY <1>4, FirstTimeKeeps, StampKeeps, ClaimKeeps, LeaveKeeps, FindKeeps
<1>5. ASSUME NEW r \in Calls,
             Share(r) \/ AddPending(r) \/ Unshare(r) \/ Forget(r) \/ Die(r)
      PROVE  SharingInv'
  BY <1>5, ShareKeeps, AddPendingKeeps, UnshareKeeps, ForgetKeeps, DieKeeps
<1>6. ASSUME NEW u \in UserIds, SetActive(u)
      PROVE  SharingInv'
  BY <1>6, SetActiveKeeps
<1> QED
  BY <1>1, <1>2, <1>3, <1>4, <1>5, <1>6 DEF SharingNext

LEMMA SharingInvariance == SharingSpec => []SharingInv
BY SharingInitSound, SharingNextKeeps, PTL DEF SharingSpec

\* Every variable keeps its type.
THEOREM SharingTypeCorrect == SharingSpec => []SharingTypeOK
<1>1. SharingInv => SharingTypeOK
  BY DEF SharingInv
<1> QED
  BY <1>1, SharingInvariance, PTL

\* First requests of one person that race make one account, and are served as it.
\* (_first_time, the unique key on issuer and subject)
THEOREM OneAccountHolds == SharingSpec => []OneAccount
<1>1. SharingInv => OneAccount
  BY DEF SharingInv
<1> QED
  BY <1>1, SharingInvariance, PTL

\* Whoever is named as the giver of a grant has been entitled to give it, and an agent has
\* one owner at most.  (require, granted_by)
THEOREM GivenByTheEntitledHolds == SharingSpec => []GivenByTheEntitled
<1>1. SharingInv => GivenByTheEntitled
  BY DEF SharingInv, GivenByTheEntitled, GrantsOK, PendingOK, GivenAt, OneOwner, User, Editor, Owner
<1> QED
  BY <1>1, SharingInvariance, PTL

\* What waits for an address waits for nobody who is here, with the exceptions the property
\* names.  (claim_for, share_by_email)
THEOREM NothingLeftWaitingHolds == SharingSpec => []NothingLeftWaiting
<1>1. SharingInv => NothingLeftWaiting
  BY DEF SharingInv
<1> QED
  BY <1>1, SharingInvariance, PTL

\* Only a claim writes grants while its request signs in.
LEMMA SigningIn ==
    ASSUME SharingInv, [SharingNext]_sharingVars, NEW r \in Calls,
           call[r].at \in {"idle", "create", "stamp", "claim"}, call'[r] # call[r],
           NEW g \in Agents, NEW u \in UserIds
    PROVE  grants'[g][u].role >= grants[g][u].role
<1> DEFINE Goal == grants'[g][u].role >= grants[g][u].role
<1>1. /\ call \in [Calls -> ReqType]
      /\ grants[g][u] \in GrantType /\ grants[g][u].role \in Nat
      /\ \A b \in Addresses : pending[g][b] \in GrantType /\ pending[g][b].role \in Nat
  BY Types DEF SharingInv, GrantType, Levels, None, Owner
<1>2. grants' = grants => Goal
  BY <1>1
<1>3. ASSUME NEW s \in Calls, Claim(s)
      PROVE  Goal
  <2>1. call[s].user \in UserIds /\ call[s].mail \in Addresses
    BY <1>3, Types DEF Claim, SharingInv, ReqOK, Grounded, ReqType
  <2>2. grants'[g] = [grants[g] EXCEPT ![call[s].user] =
                        IF pending[g][call[s].mail].role > @.role
                        THEN pending[g][call[s].mail] ELSE @]
    BY <1>3 DEF Claim, Grants
  <2>3. grants[g] \in [UserIds -> GrantType]
    BY Types DEF SharingInv
  <2> QED
    BY <1>1, <2>1, <2>2, <2>3
<1>4. ASSUME NEW s \in Calls, Share(s)
      PROVE  FALSE
  BY <1>1, <1>4 DEF Share, Done
<1>5. ASSUME NEW s \in Calls, Unshare(s)
      PROVE  FALSE
  BY <1>1, <1>5 DEF Unshare, Done, Moves
<1>6. ASSUME NEW s \in Calls, NEW p \in People, NEW a \in TokensOf[p], Arrive(s, p, a)
      PROVE  Goal
  BY <1>2, <1>6 DEF Arrive, Untouched
<1>7. ASSUME NEW s \in Calls, NEW op \in Ops \cup {call[s].op}, Require(s, op)
      PROVE  Goal
  BY <1>2, <1>7 DEF Require
<1>8. ASSUME NEW s \in Calls,
             FirstTime(s) \/ Stamp(s) \/ Leave(s) \/ Find(s) \/ AddPending(s) \/ Forget(s) \/ Die(s)
      PROVE  Goal
  BY <1>2, <1>8 DEF FirstTime, Stamp, Leave, Find, AddPending, Forget, Die, Untouched
<1>9. ASSUME NEW v \in UserIds, SetActive(v)
      PROVE  Goal
  BY <1>2, <1>9 DEF SetActive
<1>10. ASSUME UNCHANGED sharingVars
       PROVE  Goal
  BY <1>2, <1>10 DEF sharingVars
<1> HIDE DEF Goal
<1>11. Goal
  <2>1. CASE \E s \in Calls, p \in People : \E a \in TokensOf[p] : Arrive(s, p, a)
    BY <1>6, <2>1
  <2>2. CASE \E s \in Calls : \E op \in Ops \cup {call[s].op} : Require(s, op)
    BY <1>7, <2>2
  <2>3. CASE \E s \in Calls :
                \/ FirstTime(s) \/ Stamp(s) \/ Claim(s) \/ Leave(s) \/ Find(s) \/ Share(s)
                \/ AddPending(s) \/ Unshare(s) \/ Forget(s) \/ Die(s)
    BY <1>3, <1>4, <1>5, <1>8, <2>3
  <2>4. CASE \E v \in UserIds : SetActive(v)
    BY <1>9, <2>4
  <2>5. CASE SharingNext
    BY <2>1, <2>2, <2>3, <2>4, <2>5 DEF SharingNext
  <2> QED
    BY <1>10, <2>5
<1> QED
  BY <1>11 DEF Goal

\* Signing in lowers nobody's level.  (claim_pending_grants)
THEOREM SignInTakesNothingHolds == SharingSpec => SignInTakesNothing
<1>1. SharingInv /\ [SharingNext]_sharingVars =>
        [\A r \in Calls :
            call[r].at \in {"idle", "create", "stamp", "claim"} /\ call'[r] # call[r] =>
                \A g \in Agents, u \in UserIds : grants'[g][u].role >= grants[g][u].role
        ]_sharingVars
  BY SigningIn
<1> QED
  BY <1>1, SharingInvariance, PTL DEF SharingSpec, SignInTakesNothing
=============================================================================
