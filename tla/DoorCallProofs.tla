--------------------------- MODULE DoorCallProofs ---------------------------
(* Theorems about a call through the door, for any threads, tokens, ceilings *)
(* and bounds.                                                               *)
EXTENDS DoorCall, FiniteSetTheorems, WellFoundedInduction, TLAPS

USE DEF Agents, Days, Verdicts

-----------------------------------------------------------------------------
(* Type correctness.                                                       *)

LEMMA LowestIsLeast ==
  ASSUME NEW S \in SUBSET Agents, S # {}
  PROVE  Lowest(S) \in S /\ \A a \in S : Lowest(S) <= a
<1> DEFINE less == {ss \in Nat \X Nat : ss[1] < ss[2]}
<1>1. S \subseteq Nat
  BY CountsAssumption
<1>2. IsWellFoundedOn(less, Nat)
  BY NatLessThanWellFounded DEF OpToRel
<1>3. \E n \in S : \A m \in S : ~(<<m, n>> \in less)
  <2> HIDE DEF less
  <2> QED BY <1>1, <1>2, WFMin
<1>4. \A m, n \in Nat : ~(<<m, n>> \in less) => n <= m
  OBVIOUS
<1>5. PICK n \in S : \A m \in S : n <= m
  <2> HIDE DEF less
  <2> QED BY <1>1, <1>3, <1>4
<1> QED BY <1>5 DEF Lowest

LEMMA IdleIsHeld == \A t \in Tokens : Idle(t) \in Held
BY CountsAssumption DEF Idle, Held, Places

LEMMA NoTokenIsToken == NoToken \in Tokens
BY OwnersAssumption DEF NoToken

LEMMA SubjectType == \A t \in Tokens : Subject(t) \in Subjects
BY OwnersAssumption DEF Subject

LEMMA DecidedIsHeld ==
  ASSUME TypeOK, NEW r \in Requests, NEW p \in Places
  PROVE  Decided(r, p) \in Held
BY IdleIsHeld DEF Decided, TypeOK, Held, Idle

LEMMA InitTypeOK == Init => TypeOK
<1> SUFFICES ASSUME Init PROVE TypeOK
  OBVIOUS
<1>1. req \in [Requests -> Held]
  BY IdleIsHeld, NoTokenIsToken DEF Init
<1>2. grants \subseteq Subjects \X Agents
  BY SubjectType DEF Init, Owners
<1> QED BY <1>1, <1>2, CountsAssumption DEF Init, TypeOK

\* What a thread holds stays well typed, however it is updated.
LEMMA ArriveHeld ==
  ASSUME NEW h \in Held, NEW p \in Places, NEW n \in Nat,
         NEW A \in SUBSET Agents, NEW B \in SUBSET Agents
  PROVE  [h EXCEPT !.pc = p, !.call = n, !.held = A, !.seen = B,
                   !.steady = A \intersect B] \in Held
BY DEF Held

LEMMA GotoHeld ==
  ASSUME NEW h \in Held, NEW p \in Places
  PROVE  [h EXCEPT !.pc = p] \in Held
BY DEF Held

LEMMA NamesHeld ==
  ASSUME NEW h \in Held, NEW p \in Places, NEW A \in SUBSET Agents
  PROVE  [h EXCEPT !.pc = p, !.names = A] \in Held
BY DEF Held

LEMMA ConfigHeld ==
  ASSUME NEW h \in Held, NEW A \in SUBSET Agents, NEW B \in SUBSET Agents,
         NEW C \in SUBSET Agents
  PROVE  [h EXCEPT !.names = A, !.cand = B, !.allow = C] \in Held
BY DEF Held

LEMMA ChosenHeld ==
  ASSUME NEW h \in Held, NEW d \in Days, NEW a \in Agents
  PROVE  [h EXCEPT !.pc = "spend", !.window = d, !.chosen = a, !.cand = {},
                   !.allow = {}] \in Held
BY DEF Held, Places

LEMMA HistoryHeld ==
  ASSUME NEW h \in Held, NEW A \in SUBSET Agents, NEW B \in SUBSET Agents
  PROVE  /\ [h EXCEPT !.held = A, !.steady = B] \in Held
         /\ [h EXCEPT !.seen = A] \in Held
         /\ [h EXCEPT !.steady = B] \in Held
BY DEF Held

LEMMA GotoType ==
  ASSUME TypeOK, NEW r \in Requests, NEW p \in Places, Goto(r, p)
  PROVE  req' \in [Requests -> Held]
<1>1. [req[r] EXCEPT !.pc = p] \in Held
  BY GotoHeld DEF TypeOK
<1> QED BY <1>1 DEF Goto, TypeOK

LEMMA LeaveType ==
  ASSUME TypeOK, NEW r \in Requests, Leave(r)
  PROVE  req' \in [Requests -> Held]
BY IdleIsHeld, NoTokenIsToken DEF Leave, TypeOK

LEMMA ReqType ==
  ASSUME TypeOK, NEW r \in Requests, Serve(r)
  PROVE  req' \in [Requests -> Held]
<1>0. /\ req \in [Requests -> Held] /\ req[r] \in Held
      /\ req[r].names \in SUBSET Agents /\ req[r].cand \in SUBSET Agents
      /\ req[r].allow \in SUBSET Agents
  BY DEF TypeOK, Held
<1>1. CASE ReadGrants(r)
  <2>1. [req[r] EXCEPT !.pc = "configs", !.names = Granted(req[r].token)] \in Held
    BY <1>0, NamesHeld DEF Granted, Places
  <2> QED BY <1>0, <1>1, <2>1 DEF ReadGrants
<1>2. CASE ReadConfig(r)
  <2> DEFINE a == Lowest(req[r].names)
             B == IF config[a] # "without" THEN req[r].cand \union {a} ELSE req[r].cand
             C == IF config[a] = "allows" THEN req[r].allow \union {a} ELSE req[r].allow
  <2>1. a \in Agents
    <3>1. req[r].names # {}
      BY <1>2 DEF ReadConfig
    <3> QED BY <1>0, <3>1, LowestIsLeast
  <2>2. [req[r] EXCEPT !.names = req[r].names \ {a}, !.cand = B, !.allow = C] \in Held
    <3>1. /\ req[r].names \ {a} \in SUBSET Agents
          /\ B \in SUBSET Agents /\ C \in SUBSET Agents
      BY <1>0, <2>1
    <3> HIDE DEF a, B, C
    <3> QED BY <1>0, <3>1, ConfigHeld
  <2>3. req' = [req EXCEPT ![r] =
          [req[r] EXCEPT !.names = req[r].names \ {a}, !.cand = B, !.allow = C]]
    BY <1>0, <1>2 DEF ReadConfig, Held
  <2> QED BY <1>0, <2>2, <2>3
<1>3. CASE Adjudicate(r)
  <2>1. PICK described \in BOOLEAN :
          LET allow == {a \in req[r].allow : described} IN
            req' = IF allow = {}
                   THEN [req EXCEPT ![r] = Decided(r, "deny")]
                   ELSE [req EXCEPT ![r].pc = "spend", ![r].window = Window,
                           ![r].chosen = Lowest(allow),
                           ![r].cand = {}, ![r].allow = {}]
    BY <1>3 DEF Adjudicate
  <2> DEFINE allow == {a \in req[r].allow : described}
  <2>2. CASE allow = {}
    <3>1. Decided(r, "deny") \in Held
      BY DecidedIsHeld DEF Places
    <3> QED BY <1>0, <2>1, <2>2, <3>1
  <2>3. CASE allow # {}
    <3>1. Lowest(allow) \in Agents
      BY <1>0, <2>3, LowestIsLeast
    <3>2. [req[r] EXCEPT !.pc = "spend", !.window = today,
             !.chosen = Lowest(allow), !.cand = {}, !.allow = {}] \in Held
      BY <1>0, <3>1, ChosenHeld DEF TypeOK
    <3>3. req' = [req EXCEPT ![r] =
            [req[r] EXCEPT !.pc = "spend", !.window = today,
               !.chosen = Lowest(allow), !.cand = {}, !.allow = {}]]
      BY <1>0, <2>1, <2>3 DEF Window, Held
    <3> QED BY <1>0, <3>2, <3>3
  <2> QED BY <2>2, <2>3
<1>4. CASE CheckSpend(r)
  <2>1. Decided(r, "deny") \in Held /\ Decided(r, "count") \in Held
    BY DecidedIsHeld DEF Places
  <2> QED BY <1>0, <1>4, <2>1 DEF CheckSpend
<1>5. CASE Candidates(r) \/ Count(r) \/ Credential(r)
  <2>1. Leave(r) \/ Goto(r, "bind") \/ Goto(r, "credential") \/ Goto(r, "deny")
        \/ Goto(r, "unusable") \/ Goto(r, "running")
    BY <1>5 DEF Candidates, Count, Credential
  <2> QED BY <2>1, LeaveType, GotoType DEF Places
<1>6. CASE Unbound(r) \/ Deny(r) \/ Unusable(r) \/ Record(r) \/ Raise(r)
  BY <1>6, LeaveType DEF Unbound, Deny, Unusable, Record, Raise
<1> QED BY <1>1, <1>2, <1>3, <1>4, <1>5, <1>6 DEF Serve

\* What the database and the histories hold stays well typed.
LEMMA EntryType ==
  ASSUME TypeOK, NEW r \in Requests
  PROVE  EntryOf(r) \in Entries /\ Key(r) \in Subjects \X Days
BY SubjectType DEF TypeOK, Held, EntryOf, Entries, Key

LEMMA ServeTypeOK ==
  ASSUME TypeOK, NEW r \in Requests, Serve(r)
  PROVE  TypeOK'
<1>1. req' \in [Requests -> Held]
  BY ReqType
<1>2. req[r].call \in Nat /\ req[r].token \in Tokens
  BY DEF TypeOK, Held
<1>3. calls' \in [Subjects \X Days -> Nat] /\ charged' \subseteq Entries
  <2>1. CASE Count(r)
    <3>1. Charge(r) \/ UNCHANGED <<calls, charged>>
      BY <2>1 DEF Count
    <3>2. /\ calls \in [Subjects \X Days -> Nat] /\ charged \subseteq Entries
          /\ EntryOf(r) \in Entries /\ Key(r) \in Subjects \X Days
      BY EntryType DEF TypeOK
    <3> QED BY <3>1, <3>2 DEF Charge
  <2>2. CASE ~Count(r)
    BY <2>2 DEF Serve, TypeOK, ledger, ReadGrants, ReadConfig, Candidates,
         Unbound, Adjudicate, Deny, CheckSpend, Credential, Unusable, Record,
         Raise
  <2> QED BY <2>1, <2>2
<1>4. ran' \subseteq Entries
  <2>1. CASE Credential(r)
    <3>1. EntryOf(r) \in Entries
      BY EntryType
    <3>2. ran' = ran \/ ran' = ran \union {EntryOf(r)}
      BY <2>1 DEF Credential
    <3> QED BY <3>1, <3>2 DEF TypeOK
  <2>2. CASE ~Credential(r)
    <3>1. ran' = ran
      BY <2>2 DEF Serve, ReadGrants, ReadConfig, Candidates, Unbound, Adjudicate,
           Deny, CheckSpend, Count, Unusable, Record, Raise
    <3> QED BY <3>1 DEF TypeOK
  <2> QED BY <2>1, <2>2
<1>5. spent' \in [Subjects \X Days -> Nat]
  <2>1. CASE Record(r)
    <3>1. <<Subject(req[r].token), today>> \in Subjects \X Days
      BY <1>2, SubjectType DEF TypeOK
    <3>2. PICK cost \in 0..MaxCost :
            \/ spent' = [spent EXCEPT
                 ![<<Subject(req[r].token), today>>] = @ + cost]
            \/ UNCHANGED spent
      BY <2>1 DEF Record
    <3>3. spent \in [Subjects \X Days -> Nat] /\ cost \in Nat
      BY CountsAssumption DEF TypeOK
    <3> QED BY <3>1, <3>2, <3>3
  <2>2. CASE ~Record(r)
    BY <2>2 DEF Serve, TypeOK, ledger, ReadGrants, ReadConfig, Candidates,
         Unbound, Adjudicate, Deny, CheckSpend, Count, Credential, Unusable,
         Raise
  <2> QED BY <2>1, <2>2
<1>6. denied' \subseteq Nat /\ recorded' \subseteq Nat /\ fallback' \subseteq Nat
      /\ killed' \subseteq Nat
  BY <1>2 DEF Serve, TypeOK, rows, ReadGrants, ReadConfig, Candidates,
     Unbound, Adjudicate, Deny, CheckSpend, Count, Credential, Unusable, Record,
     Raise
<1>7. UNCHANGED <<admin, env>>
  BY DEF Serve, ReadGrants, ReadConfig, Candidates, Unbound, Adjudicate,
     Deny, CheckSpend, Count, Credential, Unusable, Record, Raise
<1> QED BY <1>1, <1>3, <1>4, <1>5, <1>6, <1>7 DEF TypeOK, admin, env

LEMMA StepTypeOK == TypeOK /\ [Next]_vars => TypeOK'
<1> SUFFICES ASSUME TypeOK, [Next]_vars PROVE TypeOK'
  OBVIOUS
<1>1. ASSUME NEW r \in Requests, NEW t \in Tokens, Arrive(r, t) PROVE TypeOK'
  <2>1. Idle(t) \in Held /\ Granted(t) \in SUBSET Agents
        /\ Allowing \in SUBSET Agents /\ arrived + 1 \in 0..MaxCalls
        /\ arrived + 1 \in Nat
    BY <1>1, IdleIsHeld, CountsAssumption DEF Granted, Allowing, Arrive, TypeOK
  <2>2. [Idle(t) EXCEPT !.pc = "grants", !.call = arrived + 1,
           !.held = Granted(t), !.seen = Allowing,
           !.steady = Granted(t) \intersect Allowing] \in Held
    BY <2>1, ArriveHeld DEF Places
  <2>3. req' \in [Requests -> Held]
    BY <1>1, <2>2 DEF Arrive, TypeOK
  <2> QED BY <1>1, <2>1, <2>3 DEF Arrive, TypeOK, admin, ledger, rows
<1>2. ASSUME NEW r \in Requests, Serve(r) PROVE TypeOK'
  BY <1>2, ServeTypeOK
<1>3. ASSUME NEW r \in Requests, Crash(r) PROVE TypeOK'
  <2>1. req' \in [Requests -> Held] /\ req[r].call \in Nat
    BY <1>3, LeaveType DEF Crash, TypeOK, Held
  <2>2. troubles' \in 0..MaxTroubles
    BY <1>3, CountsAssumption DEF Crash, TypeOK
  <2>3. killed' \subseteq Nat /\ UNCHANGED <<admin, today, up, arrived, ledger, ran, rows>>
    BY <1>3, <2>1 DEF Crash, TypeOK
  <2> QED BY <2>1, <2>2, <2>3 DEF TypeOK, admin, ledger, rows
<1>4. ASSUME NEW s \in Owners, NEW a \in Agents, Regrant(s, a) PROVE TypeOK'
  <2>1. s \in Subjects
    BY SubjectType DEF Owners
  <2>2. ASSUME NEW q \in Requests
        PROVE  [req[q] EXCEPT !.held = @ \union {a}, !.steady = @ \ {a}] \in Held
    <3>1. /\ req[q] \in Held /\ req[q].held \union {a} \in SUBSET Agents
          /\ req[q].steady \ {a} \in SUBSET Agents
      BY DEF TypeOK, Held
    <3> QED BY <3>1, HistoryHeld
  <2>3. req' \in [Requests -> Held]
    BY <1>4, <2>2 DEF Regrant, TypeOK
  <2>0. grants \subseteq Subjects \X Agents /\ troubles \in 0..MaxTroubles
    BY DEF TypeOK
  <2>4. troubles < MaxTroubles /\ troubles' = troubles + 1
    BY <1>4 DEF Regrant
  <2>5. grants' \subseteq Subjects \X Agents
    <3>1. grants' = grants \ {<<s, a>>} \/ grants' = grants \union {<<s, a>>}
      BY <1>4 DEF Regrant
    <3> QED BY <2>0, <2>1, <3>1
  <2>6. UNCHANGED <<config, today, up, arrived, ledger, ran, rows, killed>>
    BY <1>4 DEF Regrant
  <2>7. troubles' \in 0..MaxTroubles
    BY <2>0, <2>4, CountsAssumption
  <2> QED BY <2>3, <2>5, <2>6, <2>7 DEF TypeOK, ledger, rows
<1>5. ASSUME NEW a \in Agents, NEW v \in Verdicts, Edit(a, v) PROVE TypeOK'
  <2>1. ASSUME NEW q \in Requests
        PROVE  /\ req[q] \in Held
               /\ [req[q] EXCEPT !.seen = @ \union {a}] \in Held
               /\ [req[q] EXCEPT !.steady = @ \ {a}] \in Held
    <3>1. /\ req[q] \in Held /\ req[q].seen \union {a} \in SUBSET Agents
          /\ req[q].steady \ {a} \in SUBSET Agents
      BY DEF TypeOK, Held
    <3> QED BY <3>1, HistoryHeld
  <2>2. req' \in [Requests -> Held]
    BY <1>5, <2>1 DEF Edit
  <2>3. troubles' \in 0..MaxTroubles
    BY <1>5, CountsAssumption DEF Edit, TypeOK
  <2>4. config' \in [Agents -> Verdicts]
    BY <1>5 DEF Edit, TypeOK
  <2>5. UNCHANGED <<grants, today, up, arrived, ledger, ran, rows, killed>>
    BY <1>5 DEF Edit
  <2> QED BY <2>2, <2>3, <2>4, <2>5 DEF TypeOK, ledger, rows
<1>6. CASE Midnight
  BY <1>6, CountsAssumption DEF Midnight, TypeOK, admin, ledger, rows
<1>9. CASE Recover
  BY <1>9, CountsAssumption DEF Recover, TypeOK, admin, ledger, rows
<1>7. CASE Outage
  <2>1. troubles' \in 0..MaxTroubles
    BY <1>7, CountsAssumption DEF Outage, TypeOK
  <2>2. /\ up' \in BOOLEAN
        /\ UNCHANGED <<admin, today, arrived, ledger, req, ran, rows, killed>>
    BY <1>7 DEF Outage
  <2> QED BY <2>1, <2>2 DEF TypeOK, admin, ledger, rows
<1>8. CASE UNCHANGED vars
  BY <1>8 DEF vars, TypeOK, admin, env, ledger, rows
<1> QED BY <1>1, <1>2, <1>3, <1>4, <1>5, <1>6, <1>7, <1>8, <1>9 DEF Next, World

\* Every variable keeps its type in every behaviour.
THEOREM TypeCorrect == Spec => []TypeOK
<1>1. Init => TypeOK
  BY InitTypeOK
<1>2. TypeOK /\ [Next]_vars => TypeOK'
  BY StepTypeOK
<1> QED BY <1>1, <1>2, PTL DEF Spec

-----------------------------------------------------------------------------
(* What a step does to the calls being served.  Most invariants read of a    *)
(* request only its place and the three fields that name its call.           *)

\* Thread r goes from one of the places "from" to one of "to" with its call.
Moves(r, from, to) ==
  /\ req[r].pc \in from /\ req'[r].pc \in to
  /\ req'[r].call = req[r].call /\ req'[r].token = req[r].token
  /\ \A q \in Requests \ {r} : req'[q] = req[q]

\* ... and with the window it was charged to.
MovesOn(r, from, to) == Moves(r, from, to) /\ req'[r].window = req[r].window

\* Thread r is done with its call.
Ends(r, from) ==
  /\ req[r].pc \in from /\ req'[r].pc = "idle"
  /\ \A q \in Requests \ {r} : req'[q] = req[q]

LEMMA GotoMoves ==
  ASSUME TypeOK, NEW r \in Requests, NEW from, NEW to \in Places,
         req[r].pc \in from, Goto(r, to)
  PROVE  MovesOn(r, from, {to})
BY DEF Goto, TypeOK, Held, MovesOn, Moves

LEMMA LeaveEnds ==
  ASSUME TypeOK, NEW r \in Requests, NEW from, req[r].pc \in from, Leave(r)
  PROVE  Ends(r, from)
BY DEF Leave, TypeOK, Held, Ends, Idle

LEMMA DecidedMoves ==
  ASSUME TypeOK, NEW r \in Requests, NEW from, NEW to, req[r].pc \in from,
         req' = [req EXCEPT ![r] = Decided(r, to)]
  PROVE  MovesOn(r, from, {to})
BY DEF Decided, Idle, TypeOK, Held, MovesOn, Moves

\* The places of a call the broker has not charged, and of one the door or
\* the spend check still holds.
Before == {"grants", "configs", "bind", "deny", "spend", "count"}
Early == {"grants", "configs", "bind", "spend"}
Door == {"grants", "configs", "bind", "deny", "spend"}

\* The door's own steps touch nothing but what their thread holds.
LEMMA DoorMoves ==
  ASSUME TypeOK, NEW r \in Requests,
         \/ ReadGrants(r) \/ ReadConfig(r) \/ Candidates(r) \/ Unbound(r)
         \/ Adjudicate(r)
  PROVE  Moves(r, Early, Door) \/ Ends(r, Early)
<1>0. /\ \A x : MovesOn(r, Early, {x}) /\ x \in Door => Moves(r, Early, Door)
      /\ \A x : req[r].pc \in Early /\ req' = [req EXCEPT ![r] = Decided(r, x)]
              => MovesOn(r, Early, {x})
  BY DecidedMoves DEF MovesOn, Moves
<1> USE DEF Early, Door
<1>1. CASE ReadGrants(r)
  BY <1>1 DEF ReadGrants, At, TypeOK, Held, Moves
<1>2. CASE ReadConfig(r)
  BY <1>2 DEF ReadConfig, At, TypeOK, Held, Moves
<1>3. CASE Candidates(r)
  <2>1. req[r].pc \in Early /\ (Leave(r) \/ Goto(r, "bind"))
    BY <1>3 DEF Candidates, At
  <2>2. Goto(r, "bind") => Moves(r, Early, {"bind"})
    BY <2>1, GotoMoves DEF Places, MovesOn
  <2>3. Leave(r) => Ends(r, Early)
    BY <2>1, LeaveEnds
  <2> QED BY <2>1, <2>2, <2>3 DEF Moves
<1>4. CASE Unbound(r)
  BY <1>4, LeaveEnds DEF Unbound, At
<1>5. CASE Adjudicate(r)
  <2>1. req[r].pc \in Early
    BY <1>5 DEF Adjudicate, At
  <2>2. PICK described \in BOOLEAN :
          LET allow == {a \in req[r].allow : described} IN
            req' = IF allow = {}
                   THEN [req EXCEPT ![r] = Decided(r, "deny")]
                   ELSE [req EXCEPT ![r].pc = "spend", ![r].window = Window,
                           ![r].chosen = Lowest(allow),
                           ![r].cand = {}, ![r].allow = {}]
    BY <1>5 DEF Adjudicate
  <2> DEFINE allow == {a \in req[r].allow : described}
  <2>3. CASE allow = {}
    <3>1. req' = [req EXCEPT ![r] = Decided(r, "deny")]
      BY <2>2, <2>3
    <3> QED BY <1>0, <2>1, <3>1
  <2>4. CASE allow # {}
    BY <2>1, <2>2, <2>4 DEF TypeOK, Held, Moves
  <2> QED BY <2>3, <2>4
<1> QED BY <1>1, <1>2, <1>3, <1>4, <1>5

LEMMA CheckSpendMoves ==
  ASSUME TypeOK, NEW r \in Requests, CheckSpend(r)
  PROVE  IF OverSpend(Subject(req[r].token)) THEN MovesOn(r, {"spend"}, {"deny"})
         ELSE MovesOn(r, {"spend"}, {"count"})
<1>0. req[r].pc = "spend" /\ req[r].pc \in Early
  BY DEF CheckSpend, At, Early
<1>4. \A x : req[r].pc \in Early /\ req' = [req EXCEPT ![r] = Decided(r, x)]
            => MovesOn(r, Early, {x})
  BY DecidedMoves DEF MovesOn, Moves
<1>1. \A x : req' = [req EXCEPT ![r] = Decided(r, x)] => MovesOn(r, {"spend"}, {x})
  BY <1>0, <1>4 DEF MovesOn, Moves
<1>2. CASE OverSpend(Subject(req[r].token))
  <2>1. req' = [req EXCEPT ![r] = Decided(r, "deny")]
    BY <1>2 DEF CheckSpend
  <2> QED BY <1>1, <1>2, <2>1
<1>3. CASE ~OverSpend(Subject(req[r].token))
  <2>1. req' = [req EXCEPT ![r] = Decided(r, "count")]
    BY <1>3 DEF CheckSpend
  <2> QED BY <1>1, <1>3, <2>1
<1> QED BY <1>2, <1>3

\* The steps before the broker has admitted a call.
LEMMA EarlyMoves ==
  ASSUME TypeOK, NEW r \in Requests,
         \/ ReadGrants(r) \/ ReadConfig(r) \/ Candidates(r) \/ Unbound(r)
         \/ Adjudicate(r) \/ CheckSpend(r)
  PROVE  Moves(r, Early, Before) \/ Ends(r, Early)
<1>1. Moves(r, Early, Door) => Moves(r, Early, Before)
  BY DEF Moves, Door, Before
<1>2. \/ MovesOn(r, {"spend"}, {"deny"}) \/ MovesOn(r, {"spend"}, {"count"})
      => Moves(r, Early, Before)
  BY DEF MovesOn, Moves, Early, Before
<1> QED BY <1>1, <1>2, DoorMoves, CheckSpendMoves

-----------------------------------------------------------------------------
(* The ledger: charges, executions and rows.                               *)

\* Calls are numbered once, and everything written is about one that arrived.
CallsOK ==
  /\ \A r \in Requests : req[r].pc # "idle" => req[r].call \in 1..arrived
  /\ \A r, q \in Requests :
       r # q /\ req[r].pc # "idle" /\ req[q].pc # "idle" => req[r].call # req[q].call
  /\ \A e \in charged \union ran : e.call <= arrived
  /\ \A c \in denied \union recorded \union fallback : c <= arrived

\* What has not been written yet of a call in flight.
FreshOK ==
  \A r \in Requests :
    /\ req[r].pc \in Before => \A e \in charged \union ran : e.call # req[r].call
    /\ req[r].pc \in {"credential", "unusable"} => \A e \in ran : e.call # req[r].call
    /\ req[r].pc # "idle" => req[r].call \notin denied \union recorded \union fallback
    /\ req[r].pc = "credential" /\ Ceiling > 0 => EntryOf(r) \in charged

\* The counter counts the charges, and nothing runs without one.
LedgerOK ==
  Ceiling > 0 =>
    /\ ran \subseteq charged
    /\ IsFiniteSet(charged)
    /\ \A s \in Subjects, d \in Days :
         /\ Cardinality(ChargedTo(s, d)) = calls[<<s, d>>]
         /\ calls[<<s, d>>] <= Ceiling

LInv == CallsOK /\ FreshOK /\ LedgerOK /\ RefusalsAreFree /\ EveryRunRecorded

LEMMA InitLInv == Init => LInv
<1> SUFFICES ASSUME Init PROVE LInv
  OBVIOUS
<1>1. \A r \in Requests : req[r].pc = "idle"
  BY DEF Init, Idle
<1>2. charged = {} /\ ran = {} /\ denied = {} /\ recorded = {} /\ fallback = {}
  BY DEF Init
<1>3. LedgerOK
  <2>1. \A s \in Subjects, d \in Days : ChargedTo(s, d) = {} /\ calls[<<s, d>>] = 0
    BY <1>2 DEF ChargedTo, Init
  <2> QED BY <1>2, <2>1, FS_EmptySet, CountsAssumption DEF LedgerOK
<1> QED BY <1>1, <1>2, <1>3 DEF LInv, CallsOK, FreshOK, Before, RefusalsAreFree,
      EveryRunRecorded

\* A step that writes nothing, and starts or forgets nothing that ran.
LEMMA QuietStep ==
  ASSUME TypeOK, TypeOK', LInv, NEW r \in Requests,
         UNCHANGED <<arrived, calls, charged, ran, denied, recorded, fallback, killed>>,
         Moves(r, Before, Before) \/ Ends(r, Places \ {"idle", "running"})
  PROVE  LInv'
<1>1. /\ \A q \in Requests : req'[q].pc # "idle" =>
           req[q].pc # "idle" /\ req'[q].call = req[q].call
      /\ \A q \in Requests : req'[q].pc \in Before =>
           req[q].pc \in Before /\ req'[q].call = req[q].call
      /\ \A q \in Requests : req[q].pc = "running" \/ req'[q].pc \notin Before \union {"idle"} =>
           req'[q] = req[q]
  BY DEF Moves, Ends, Before
<1>2. CallsOK'
  BY <1>1 DEF LInv, CallsOK
<1>3. FreshOK'
  <2> SUFFICES ASSUME NEW q \in Requests
               PROVE  /\ req'[q].pc \in Before => \A e \in charged \union ran : e.call # req'[q].call
                      /\ req'[q].pc \in {"credential", "unusable"} => \A e \in ran : e.call # req'[q].call
                      /\ req'[q].pc # "idle" => req'[q].call \notin denied \union recorded \union fallback
                      /\ req'[q].pc = "credential" /\ Ceiling > 0 => EntryOf(q)' \in charged
    BY DEF FreshOK
  <2>1. CASE req'[q].pc \in Before \union {"idle"}
    BY <1>1, <2>1 DEF LInv, FreshOK, Before
  <2>2. CASE req'[q].pc \notin Before \union {"idle"}
    <3>1. req'[q] = req[q]
      BY <1>1, <2>2
    <3> QED BY <3>1, <2>2 DEF LInv, FreshOK, EntryOf
  <2> QED BY <2>1, <2>2
<1>4. LedgerOK'
  BY DEF LInv, LedgerOK, ChargedTo
<1>5. RefusalsAreFree'
  BY DEF LInv, RefusalsAreFree
<1>6. EveryRunRecorded'
  BY <1>1 DEF LInv, EveryRunRecorded, At
<1> QED BY <1>2, <1>3, <1>4, <1>5, <1>6 DEF LInv

\* The steps that write: each one's effect on the ledger.
LEMMA DenyLInv ==
  ASSUME TypeOK, TypeOK', LInv, NEW r \in Requests, Deny(r)
  PROVE  LInv'
<1>1. /\ Ends(r, {"deny"}) /\ denied' = denied \union {req[r].call}
      /\ UNCHANGED <<arrived, calls, charged, ran, recorded, fallback, killed>>
  BY LeaveEnds DEF Deny, At, env, ledger
<1>2. CallsOK'
  BY <1>1 DEF LInv, CallsOK, Ends
<1>3. FreshOK'
  <2> SUFFICES ASSUME NEW q \in Requests, req'[q].pc # "idle"
               PROVE  /\ req'[q] = req[q] /\ req[q].call # req[r].call
    BY <1>1 DEF LInv, FreshOK, EntryOf, Before
  <2> QED BY <1>1 DEF Ends, LInv, CallsOK
<1>4. LedgerOK'
  BY <1>1 DEF LInv, LedgerOK, ChargedTo
<1>5. RefusalsAreFree'
  BY <1>1 DEF LInv, RefusalsAreFree, FreshOK, Before, Ends
<1>6. EveryRunRecorded'
  BY <1>1 DEF LInv, EveryRunRecorded, At, Ends
<1> QED BY <1>2, <1>3, <1>4, <1>5, <1>6 DEF LInv

LEMMA ChargeLedger ==
  ASSUME TypeOK, TypeOK', LInv, NEW r \in Requests, req[r].pc = "count",
         Ceiling > 0, calls[Key(r)] < Ceiling, Charge(r), UNCHANGED ran
  PROVE  LedgerOK'
<1> DEFINE e == EntryOf(r)
<1>1. /\ e \in Entries /\ e \notin charged /\ e.token = req[r].token
      /\ e.day = req[r].window /\ e.call = req[r].call
      /\ charged' = charged \union {e}
  BY EntryType DEF EntryOf, LInv, FreshOK, Before, Charge
<1>2. /\ ran \subseteq charged /\ IsFiniteSet(charged)
      /\ \A s \in Subjects, d \in Days :
           Cardinality(ChargedTo(s, d)) = calls[<<s, d>>] /\ calls[<<s, d>>] <= Ceiling
  BY DEF LInv, LedgerOK
<1>3. IsFiniteSet(charged')
  BY <1>1, <1>2, FS_AddElement
<1>4. ASSUME NEW s \in Subjects, NEW d \in Days
      PROVE  /\ Cardinality(ChargedTo(s, d)') = calls'[<<s, d>>]
             /\ calls'[<<s, d>>] <= Ceiling
  <2>1. IsFiniteSet(ChargedTo(s, d)) /\ e \notin ChargedTo(s, d)
    <3>1. ChargedTo(s, d) \in SUBSET charged
      BY DEF ChargedTo
    <3> QED BY <3>1, <1>1, <1>2, FS_Subset
  <2>2. /\ calls \in [Subjects \X Days -> Nat] /\ Key(r) \in Subjects \X Days
        /\ calls' = [calls EXCEPT ![Key(r)] = @ + 1]
    BY EntryType DEF TypeOK, Charge
  <2>3. CASE <<s, d>> = Key(r)
    <3>1. OwnerOf[e.token] = s /\ e.day = d
      BY <1>1, <2>3 DEF Key, Subject
    <3>2. ChargedTo(s, d)' = ChargedTo(s, d) \union {e}
      BY <1>1, <3>1 DEF ChargedTo
    <3>3. Cardinality(ChargedTo(s, d)') = Cardinality(ChargedTo(s, d)) + 1
      BY <2>1, <3>2, FS_AddElement
    <3> QED BY <1>2, <2>2, <2>3, <3>3, CountsAssumption
  <2>4. CASE <<s, d>> # Key(r)
    <3>1. ~(OwnerOf[e.token] = s /\ e.day = d)
      BY <1>1, <2>4 DEF Key, Subject
    <3>2. ChargedTo(s, d)' = ChargedTo(s, d)
      BY <1>1, <3>1 DEF ChargedTo
    <3> QED BY <1>2, <2>2, <2>4, <3>2
  <2> QED BY <2>3, <2>4
<1> QED BY <1>1, <1>2, <1>3, <1>4 DEF LedgerOK

LEMMA CountLInv ==
  ASSUME TypeOK, TypeOK', LInv, NEW r \in Requests, Count(r)
  PROVE  LInv'
<1>1. /\ req[r].pc = "count"
      /\ UNCHANGED <<arrived, ran, denied, recorded, fallback, killed>>
  BY DEF Count, At, env, rows
<1>2. CASE Goto(r, "deny") /\ UNCHANGED <<calls, charged>>
  <2>1. Moves(r, Before, Before)
    BY <1>1, <1>2, GotoMoves DEF Before, Places, MovesOn, Moves
  <2> QED BY <1>1, <1>2, <2>1, QuietStep
<1>3. CASE /\ Goto(r, "credential")
           /\ IF Ceiling > 0 THEN calls[Key(r)] < Ceiling /\ Charge(r)
              ELSE UNCHANGED <<calls, charged>>
  <2>1. /\ MovesOn(r, {"count"}, {"credential"})
        /\ charged' \subseteq charged \union {EntryOf(r)} /\ charged \subseteq charged'
        /\ Ceiling > 0 => EntryOf(r) \in charged'
        /\ EntryOf(r)' = EntryOf(r) /\ EntryOf(r).call = req[r].call
    <3>1. MovesOn(r, {"count"}, {"credential"})
      BY <1>1, <1>3, GotoMoves DEF Places
    <3> QED BY <1>3, <3>1 DEF Charge, EntryOf, MovesOn, Moves
  <2>2. CallsOK'
    <3>1. req[r].call <= arrived
      BY <1>1 DEF LInv, CallsOK, TypeOK
    <3>2. \A e \in charged' \union ran' : e.call <= arrived
      BY <1>1, <2>1, <3>1 DEF LInv, CallsOK
    <3> QED BY <1>1, <2>1, <3>2 DEF LInv, CallsOK, MovesOn, Moves
  <2>3. FreshOK'
    <3> SUFFICES ASSUME NEW q \in Requests
                 PROVE  /\ req'[q].pc \in Before => \A e \in charged' \union ran : e.call # req'[q].call
                        /\ req'[q].pc \in {"credential", "unusable"} => \A e \in ran : e.call # req'[q].call
                        /\ req'[q].pc # "idle" => req'[q].call \notin denied \union recorded \union fallback
                        /\ req'[q].pc = "credential" /\ Ceiling > 0 => EntryOf(q)' \in charged'
      BY <1>1 DEF FreshOK
    <3>1. CASE q = r
      BY <1>1, <2>1, <3>1 DEF MovesOn, Moves, LInv, FreshOK, Before
    <3>2. CASE q # r
      <4>1. req'[q] = req[q] /\ (req[q].pc # "idle" => req[q].call # req[r].call)
        BY <1>1, <2>1, <3>2 DEF MovesOn, Moves, LInv, CallsOK
      <4> QED BY <2>1, <4>1 DEF LInv, FreshOK, EntryOf, Before
    <3> QED BY <3>1, <3>2
  <2>4. LedgerOK'
    <3>1. CASE Ceiling > 0
      BY <1>1, <1>3, <3>1, ChargeLedger
    <3>2. CASE ~(Ceiling > 0)
      BY <3>2 DEF LedgerOK
    <3> QED BY <3>1, <3>2
  <2>5. RefusalsAreFree'
    BY <1>1, <2>1 DEF LInv, RefusalsAreFree, FreshOK
  <2>6. EveryRunRecorded'
    BY <1>1, <2>1 DEF LInv, EveryRunRecorded, At, MovesOn, Moves
  <2> QED BY <2>2, <2>3, <2>4, <2>5, <2>6 DEF LInv
<1> QED BY <1>2, <1>3, CountsAssumption DEF Count

\* A call that has written what it writes, and is done.
LEMMA EndFresh ==
  ASSUME LInv, NEW r \in Requests, Ends(r, Places \ {"idle"}),
         UNCHANGED <<arrived, charged, ran>>,
         \A c \in denied' \union recorded' \union fallback' :
           c \in denied \union recorded \union fallback \/ c = req[r].call
  PROVE  CallsOK' /\ FreshOK'
<1>1. CallsOK'
  BY DEF LInv, CallsOK, Ends
<1>2. ASSUME NEW q \in Requests, req'[q].pc # "idle"
      PROVE  req'[q] = req[q] /\ req[q].call # req[r].call
  BY <1>2 DEF Ends, LInv, CallsOK
<1>3. FreshOK'
  <2> SUFFICES ASSUME NEW q \in Requests
               PROVE  /\ req'[q].pc \in Before => \A e \in charged \union ran : e.call # req'[q].call
                      /\ req'[q].pc \in {"credential", "unusable"} => \A e \in ran : e.call # req'[q].call
                      /\ req'[q].pc # "idle" => req'[q].call \notin denied' \union recorded' \union fallback'
                      /\ req'[q].pc = "credential" /\ Ceiling > 0 => EntryOf(q)' \in charged
    BY DEF FreshOK
  <2>1. CASE req'[q].pc = "idle"
    BY <2>1 DEF Before
  <2>2. CASE req'[q].pc # "idle"
    BY <1>2, <2>2 DEF LInv, FreshOK, EntryOf
  <2> QED BY <2>1, <2>2
<1> QED BY <1>1, <1>3

LEMMA UnusableLInv ==
  ASSUME TypeOK, TypeOK', LInv, NEW r \in Requests, Unusable(r)
  PROVE  LInv'
<1>1. /\ Ends(r, {"unusable"}) /\ recorded' = recorded \union {req[r].call}
      /\ UNCHANGED <<arrived, calls, charged, ran, denied, fallback, killed>>
  BY LeaveEnds DEF Unusable, At, env, ledger
<1>2. CallsOK' /\ FreshOK'
  BY <1>1, EndFresh DEF Ends, Places
<1>3. LedgerOK' /\ RefusalsAreFree'
  BY <1>1 DEF LInv, LedgerOK, ChargedTo, RefusalsAreFree
<1>4. EveryRunRecorded'
  BY <1>1 DEF LInv, EveryRunRecorded, At, Ends, FreshOK
<1> QED BY <1>2, <1>3, <1>4 DEF LInv

LEMMA RecordLInv ==
  ASSUME TypeOK, TypeOK', LInv, NEW r \in Requests, Record(r)
  PROVE  LInv'
<1>1. /\ Ends(r, {"running"})
      /\ UNCHANGED <<arrived, calls, charged, ran, denied, killed>>
      /\ \/ recorded' = recorded \union {req[r].call} /\ UNCHANGED fallback
         \/ fallback' = fallback \union {req[r].call} /\ UNCHANGED recorded
  BY LeaveEnds DEF Record, At, env
<1>2. CallsOK' /\ FreshOK'
  BY <1>1, EndFresh DEF Ends, Places
<1>3. LedgerOK' /\ RefusalsAreFree'
  BY <1>1 DEF LInv, LedgerOK, ChargedTo, RefusalsAreFree
<1>4. req[r].call \notin recorded \union fallback
  BY <1>1 DEF LInv, FreshOK, Ends
<1>5. EveryRunRecorded'
  BY <1>1, <1>4 DEF LInv, EveryRunRecorded, At, Ends
<1> QED BY <1>2, <1>3, <1>5 DEF LInv

LEMMA CrashLInv ==
  ASSUME TypeOK, TypeOK', LInv, NEW r \in Requests, Crash(r)
  PROVE  LInv'
<1>1. /\ Ends(r, Places \ {"idle"}) /\ killed' = killed \union {req[r].call}
      /\ UNCHANGED <<arrived, calls, charged, ran, denied, recorded, fallback>>
  <2>1. req[r].pc \in Places
    BY DEF TypeOK, Held
  <2>2. Leave(r) /\ req[r].pc \in Places \ {"idle"}
    BY <2>1 DEF Crash, At
  <2>3. Ends(r, Places \ {"idle"})
    BY <2>2, LeaveEnds
  <2>4. /\ killed' = killed \union {req[r].call}
        /\ UNCHANGED <<arrived, calls, charged, ran, denied, recorded, fallback>>
    BY DEF Crash, ledger, rows
  <2> QED BY <2>3, <2>4
<1>2. CallsOK' /\ FreshOK'
  BY <1>1, EndFresh
<1>3. LedgerOK' /\ RefusalsAreFree'
  BY <1>1 DEF LInv, LedgerOK, ChargedTo, RefusalsAreFree
<1>4. EveryRunRecorded'
  BY <1>1 DEF LInv, EveryRunRecorded, At, Ends
<1> QED BY <1>2, <1>3, <1>4 DEF LInv

LEMMA CredentialLInv ==
  ASSUME TypeOK, TypeOK', LInv, NEW r \in Requests, Credential(r)
  PROVE  LInv'
<1>1. /\ req[r].pc = "credential"
      /\ UNCHANGED <<arrived, calls, charged, denied, recorded, fallback, killed>>
      /\ \/ MovesOn(r, {"credential"}, {"unusable"}) /\ UNCHANGED ran
         \/ MovesOn(r, {"credential"}, {"running"}) /\ ran' = ran \union {EntryOf(r)}
  <2>1. /\ req[r].pc = "credential"
        /\ \/ Goto(r, "unusable") /\ UNCHANGED ran
           \/ Goto(r, "running") /\ ran' = ran \union {EntryOf(r)}
    BY DEF Credential, At
  <2>2. UNCHANGED <<arrived, calls, charged, denied, recorded, fallback, killed>>
    BY DEF Credential, env, ledger, rows
  <2> QED BY <2>1, <2>2, GotoMoves DEF Places
<1>2. /\ EntryOf(r).call = req[r].call /\ ran \subseteq ran'
      /\ ran' \subseteq ran \union {EntryOf(r)}
      /\ req'[r].call = req[r].call /\ req'[r].pc \in {"unusable", "running"}
      /\ \A q \in Requests \ {r} : req'[q] = req[q]
  BY <1>1 DEF EntryOf, MovesOn, Moves
<1>3. CallsOK'
  <2>1. req[r].call <= arrived
    BY <1>1 DEF LInv, CallsOK, TypeOK
  <2>2. \A e \in charged' \union ran' : e.call <= arrived
    BY <1>1, <1>2, <2>1 DEF LInv, CallsOK
  <2> QED BY <1>1, <1>2, <2>2 DEF LInv, CallsOK
<1>4. FreshOK'
  <2> SUFFICES ASSUME NEW q \in Requests
               PROVE  /\ req'[q].pc \in Before => \A e \in charged \union ran' : e.call # req'[q].call
                      /\ req'[q].pc \in {"credential", "unusable"} => \A e \in ran' : e.call # req'[q].call
                      /\ req'[q].pc # "idle" => req'[q].call \notin denied \union recorded \union fallback
                      /\ req'[q].pc = "credential" /\ Ceiling > 0 => EntryOf(q)' \in charged
    BY <1>1 DEF FreshOK
  <2>1. CASE q = r
    BY <1>1, <1>2, <2>1 DEF LInv, FreshOK, Before, MovesOn, Moves
  <2>2. CASE q # r
    <3>1. req'[q] = req[q] /\ (req[q].pc # "idle" => req[q].call # req[r].call)
      BY <1>1, <1>2, <2>2 DEF LInv, CallsOK
    <3> QED BY <1>2, <3>1 DEF LInv, FreshOK, EntryOf, Before
  <2> QED BY <2>1, <2>2
<1>5. LedgerOK'
  <2>1. Ceiling > 0 => ran' \subseteq charged
    BY <1>1, <1>2 DEF LInv, LedgerOK, FreshOK
  <2> QED BY <1>1, <2>1 DEF LInv, LedgerOK, ChargedTo
<1>6. RefusalsAreFree'
  BY <1>1, <1>2 DEF LInv, RefusalsAreFree, FreshOK
<1>7. EveryRunRecorded'
  <2> SUFFICES ASSUME NEW e \in ran'
               PROVE  /\ \/ e.call \in recorded \union fallback \union killed
                         \/ \E q \in Requests : req'[q].call = e.call /\ req'[q].pc = "running"
                      /\ ~(e.call \in recorded /\ e.call \in fallback)
    BY <1>1 DEF EveryRunRecorded, At
  <2>1. CASE e \in ran
    BY <1>1, <1>2, <2>1 DEF LInv, EveryRunRecorded, At
  <2>2. CASE e \notin ran
    BY <1>1, <1>2, <2>2 DEF LInv, FreshOK, MovesOn, Moves
  <2> QED BY <2>1, <2>2
<1> QED BY <1>3, <1>4, <1>5, <1>6, <1>7 DEF LInv

LEMMA ArriveLInv ==
  ASSUME TypeOK, TypeOK', LInv, NEW r \in Requests, NEW t \in Tokens, Arrive(r, t)
  PROVE  LInv'
<1>1. /\ arrived' = arrived + 1 /\ arrived \in Nat
      /\ req'[r].pc = "grants" /\ req'[r].call = arrived + 1
      /\ \A q \in Requests \ {r} : req'[q] = req[q]
      /\ UNCHANGED <<calls, charged, ran, denied, recorded, fallback, killed>>
      /\ req[r].pc = "idle"
  <2>1. /\ arrived' = arrived + 1 /\ req[r].pc = "idle"
        /\ UNCHANGED <<calls, charged, ran, denied, recorded, fallback, killed>>
    BY DEF Arrive, At, ledger, rows
  <2>2. arrived \in Nat
    BY CountsAssumption DEF TypeOK
  <2>3. /\ req'[r].pc = "grants" /\ req'[r].call = arrived + 1
        /\ \A q \in Requests \ {r} : req'[q] = req[q]
    BY DEF Arrive, Idle, TypeOK
  <2> QED BY <2>1, <2>2, <2>3
<1>2. \A e \in charged \union ran : e.call \in Nat /\ e.call <= arrived
  BY DEF LInv, CallsOK, TypeOK, Entries
<1>3. \A c \in denied \union recorded \union fallback : c \in Nat /\ c <= arrived
  BY DEF LInv, CallsOK, TypeOK
<1>4. CallsOK'
  BY <1>1, <1>2, <1>3 DEF LInv, CallsOK
<1>5. FreshOK'
  <2> SUFFICES ASSUME NEW q \in Requests
               PROVE  /\ req'[q].pc \in Before => \A e \in charged \union ran : e.call # req'[q].call
                      /\ req'[q].pc \in {"credential", "unusable"} => \A e \in ran : e.call # req'[q].call
                      /\ req'[q].pc # "idle" => req'[q].call \notin denied \union recorded \union fallback
                      /\ req'[q].pc = "credential" /\ Ceiling > 0 => EntryOf(q)' \in charged
    BY <1>1 DEF FreshOK
  <2>1. CASE q = r
    BY <1>1, <1>2, <1>3, <2>1 DEF Before
  <2>2. CASE q # r
    BY <1>1, <2>2 DEF LInv, FreshOK, EntryOf
  <2> QED BY <2>1, <2>2
<1>6. LedgerOK' /\ RefusalsAreFree'
  BY <1>1 DEF LInv, LedgerOK, ChargedTo, RefusalsAreFree
<1>7. EveryRunRecorded'
  BY <1>1 DEF LInv, EveryRunRecorded, At
<1> QED BY <1>4, <1>5, <1>6, <1>7 DEF LInv

\* Administrators, midnight and outages leave every call where it is.
LEMMA WorldKeeps ==
  ASSUME TypeOK, World \/ UNCHANGED vars
  PROVE  /\ \A q \in Requests :
              /\ req'[q].pc = req[q].pc /\ req'[q].call = req[q].call
              /\ req'[q].token = req[q].token /\ req'[q].window = req[q].window
         /\ UNCHANGED <<arrived, ledger, ran, rows, killed>>
<1>1. ASSUME NEW s \in Owners, NEW a \in Agents, Regrant(s, a)
      PROVE  \A q \in Requests :
               /\ req'[q].pc = req[q].pc /\ req'[q].call = req[q].call
               /\ req'[q].token = req[q].token /\ req'[q].window = req[q].window
  BY <1>1 DEF Regrant, TypeOK, Held
<1>2. ASSUME NEW a \in Agents, NEW v \in Verdicts, Edit(a, v)
      PROVE  \A q \in Requests :
               /\ req'[q].pc = req[q].pc /\ req'[q].call = req[q].call
               /\ req'[q].token = req[q].token /\ req'[q].window = req[q].window
  BY <1>2 DEF Edit, TypeOK, Held
<1>3. Midnight \/ Outage \/ Recover \/ UNCHANGED vars => UNCHANGED req
  BY DEF Midnight, Outage, Recover, vars
<1>4. UNCHANGED <<arrived, ledger, ran, rows, killed>>
  BY DEF World, Regrant, Edit, Midnight, Outage, Recover, vars, env
<1> QED BY <1>1, <1>2, <1>3, <1>4 DEF World

LEMMA WorldLInv ==
  ASSUME TypeOK, TypeOK', LInv, World \/ UNCHANGED vars
  PROVE  LInv'
<1>1. /\ \A q \in Requests :
           /\ req'[q].pc = req[q].pc /\ req'[q].call = req[q].call
           /\ EntryOf(q)' = EntryOf(q)
      /\ UNCHANGED <<arrived, calls, charged, ran, denied, recorded, fallback, killed>>
  BY WorldKeeps DEF EntryOf, ledger, rows
<1>2. CallsOK' /\ FreshOK'
  BY <1>1 DEF LInv, CallsOK, FreshOK
<1>3. LedgerOK' /\ RefusalsAreFree'
  BY <1>1 DEF LInv, LedgerOK, ChargedTo, RefusalsAreFree
<1>4. EveryRunRecorded'
  BY <1>1 DEF LInv, EveryRunRecorded, At
<1> QED BY <1>2, <1>3, <1>4 DEF LInv

LEMMA StepLInv == TypeOK /\ LInv /\ [Next]_vars => LInv'
<1> SUFFICES ASSUME TypeOK, LInv, [Next]_vars PROVE LInv'
  OBVIOUS
<1>0. TypeOK'
  BY StepTypeOK
<1>1. ASSUME NEW r \in Requests, NEW t \in Tokens, Arrive(r, t) PROVE LInv'
  BY <1>0, <1>1, ArriveLInv
<1>2. ASSUME NEW r \in Requests, Serve(r) PROVE LInv'
  <2>1. CASE ReadGrants(r) \/ ReadConfig(r) \/ Candidates(r) \/ Unbound(r)
             \/ Adjudicate(r) \/ CheckSpend(r)
    <3>1. Moves(r, Early, Before) \/ Ends(r, Early)
      BY <2>1, EarlyMoves
    <3>2. Moves(r, Before, Before) \/ Ends(r, Places \ {"idle", "running"})
      BY <3>1 DEF Moves, Ends, Early, Before, Places
    <3>3. UNCHANGED <<arrived, calls, charged, ran, denied, recorded, fallback, killed>>
      BY <2>1 DEF ReadGrants, ReadConfig, Candidates, Unbound, Adjudicate,
         CheckSpend, env, ledger, rows
    <3> QED BY <1>0, <3>2, <3>3, QuietStep
  <2>2. CASE Raise(r)
    <3>1. Ends(r, Places \ {"idle", "running"})
      BY <2>2, LeaveEnds DEF Raise, At, Places
    <3>2. UNCHANGED <<arrived, calls, charged, ran, denied, recorded, fallback, killed>>
      BY <2>2 DEF Raise, env, ledger, rows
    <3> QED BY <1>0, <3>1, <3>2, QuietStep
  <2>3. CASE Deny(r) \/ Count(r)
    BY <1>0, <2>3, DenyLInv, CountLInv
  <2>4. CASE Credential(r) \/ Unusable(r) \/ Record(r)
    BY <1>0, <2>4, CredentialLInv, UnusableLInv, RecordLInv
  <2> QED BY <1>2, <2>1, <2>2, <2>3, <2>4 DEF Serve
<1>3. ASSUME NEW r \in Requests, Crash(r) PROVE LInv'
  BY <1>0, <1>3, CrashLInv
<1>4. CASE World \/ UNCHANGED vars
  BY <1>0, <1>4, WorldLInv
<1> QED BY <1>1, <1>2, <1>3, <1>4 DEF Next

LEMMA LedgerInvariance == Spec => [](TypeOK /\ LInv)
<1>1. Init => TypeOK /\ LInv
  BY InitTypeOK, InitLInv
<1>2. TypeOK /\ LInv /\ [Next]_vars => (TypeOK /\ LInv)'
  BY StepTypeOK, StepLInv
<1> QED BY <1>1, <1>2, PTL DEF Spec

\* The ceiling is one allowance for all the tokens of an owner: whatever the
\* threads, tokens and ceiling, no more calls than it reach a tool in a window.
THEOREM Pooled == Spec => []PooledCeiling
<1>1. TypeOK /\ LInv => PooledCeiling
  <2> SUFFICES ASSUME TypeOK, LInv, Ceiling > 0, NEW s \in Subjects, NEW d \in Days
               PROVE  Cardinality({e \in ran : OwnerOf[e.token] = s /\ e.day = d})
                        <= Ceiling
    BY DEF PooledCeiling
  <2> DEFINE used == {e \in ran : OwnerOf[e.token] = s /\ e.day = d}
  <2>1. /\ used \in SUBSET ChargedTo(s, d) /\ ChargedTo(s, d) \in SUBSET charged
        /\ IsFiniteSet(charged)
        /\ Cardinality(ChargedTo(s, d)) = calls[<<s, d>>] /\ calls[<<s, d>>] <= Ceiling
        /\ calls[<<s, d>>] \in Nat
    BY DEF LInv, LedgerOK, ChargedTo, TypeOK
  <2>2. IsFiniteSet(ChargedTo(s, d))
    BY <2>1, FS_Subset
  <2>3. IsFiniteSet(used) /\ Cardinality(used) <= Cardinality(ChargedTo(s, d))
    BY <2>1, <2>2, FS_Subset
  <2>4. Cardinality(used) \in Nat
    BY <2>3, FS_CardinalityType
  <2> QED BY <2>1, <2>3, <2>4, CountsAssumption
<1> QED BY <1>1, LedgerInvariance, PTL

\* A refusal never charges and never runs, for any interleaving of calls.
THEOREM RefusalsFree == Spec => []RefusalsAreFree
<1>1. TypeOK /\ LInv => RefusalsAreFree
  BY DEF LInv
<1> QED BY <1>1, LedgerInvariance, PTL

\* Whatever the database and the other calls do, an execution has one row, or
\* is in flight, or died with its process.
THEOREM RunsRecorded == Spec => []EveryRunRecorded
<1>1. TypeOK /\ LInv => EveryRunRecorded
  BY DEF LInv
<1> QED BY <1>1, LedgerInvariance, PTL

-----------------------------------------------------------------------------
(* One ledger of the calls: the counter, the rows and the file implement   *)
(* CallLedger.                                                             *)

Accounts == Owners \X Days

\* What the mapping needs beside the above: the counter counts numbers of calls, and
\* what is about to be written of a call follows what has been.
FateOK ==
  /\ \A r \in Requests :
       /\ req[r].pc # "idle" => req[r].call \notin killed
       /\ req[r].pc = "unusable" /\ Ceiling > 0 => EntryOf(r) \in charged
       /\ req[r].pc = "running" => EntryOf(r) \in ran
  /\ \A c \in killed : c <= arrived
  /\ Ceiling = 0 => charged = {}
  /\ Ceiling > 0 => \A k \in Accounts :
       IsFiniteSet(PaidBy[k]) /\ Cardinality(PaidBy[k]) = calls[k]

LEMMA SameCardinality == \A S : Ledger!Cardinality(S) = Cardinality(S)
BY DEF Ledger!Cardinality, Cardinality

LEMMA KeyIsAccount ==
  ASSUME TypeOK, NEW r \in Requests
  PROVE  Key(r) \in Accounts
BY DEF TypeOK, Held, Key, Accounts, Owners

LEMMA CallInRange ==
  ASSUME TypeOK, LInv, NEW r \in Requests, req[r].pc # "idle"
  PROVE  req[r].call \in 1..MaxCalls
BY CountsAssumption DEF TypeOK, LInv, CallsOK

LEMMA EntryCalls ==
  ASSUME NEW S, NEW r \in Requests
  PROVE  /\ CallsOf(S \union {EntryOf(r)}) = CallsOf(S) \union {req[r].call}
         /\ EntryOf(r) \in S => req[r].call \in CallsOf(S)
         /\ (\A e \in S : e.call # req[r].call) <=> req[r].call \notin CallsOf(S)
<1>1. EntryOf(r).call = req[r].call
  BY DEF EntryOf
<1> QED BY <1>1 DEF CallsOf

\* What has become of a call in flight.
LEMMA FateInFlight ==
  ASSUME TypeOK, LInv, FateOK, NEW r \in Requests, req[r].pc # "idle"
  PROVE  LET n == req[r].call IN
         /\ n \notin denied \union recorded \union fallback \union killed
         /\ Fate[n] \in {"open", "charged", "running"}
         /\ req[r].pc \in Before => Fate[n] = "open"
         /\ req[r].pc \in {"credential", "unusable"} => Fate[n] = Ledger!Cleared
         /\ req[r].pc = "running" => Fate[n] = "running"
<1> DEFINE n == req[r].call
<1>1. n \in 1..MaxCalls
  BY CallInRange
<1>2. n \notin denied \union recorded \union fallback \union killed
  BY DEF LInv, FreshOK, FateOK
<1>3. Fate[n] = IF n \in CallsOf(ran) THEN "running"
                ELSE IF n \in CallsOf(charged) THEN "charged" ELSE "open"
  BY <1>1, <1>2 DEF Fate
<1>4. CASE req[r].pc \in Before
  <2>1. n \notin CallsOf(ran) /\ n \notin CallsOf(charged)
    <3>1. \A e \in charged \union ran : e.call # n
      BY <1>4 DEF LInv, FreshOK
    <3> QED BY <3>1 DEF CallsOf
  <2> QED BY <1>2, <1>3, <1>4, <2>1 DEF Before
<1>5. CASE req[r].pc \in {"credential", "unusable"}
  <2>1. n \notin CallsOf(ran)
    BY <1>5, EntryCalls DEF LInv, FreshOK
  <2>2. CASE Ceiling > 0
    <3>1. n \in CallsOf(charged)
      BY <1>5, <2>2, EntryCalls DEF LInv, FreshOK, FateOK
    <3> QED BY <1>2, <1>3, <1>5, <2>1, <2>2, <3>1 DEF Ledger!Cleared, Before
  <2>3. CASE ~(Ceiling > 0)
    <3>1. n \notin CallsOf(charged)
      BY <2>3, CountsAssumption DEF FateOK, CallsOf
    <3> QED BY <1>2, <1>3, <1>5, <2>1, <2>3, <3>1 DEF Ledger!Cleared, Before
  <2> QED BY <2>2, <2>3
<1>6. CASE req[r].pc = "running"
  <2>1. n \in CallsOf(ran)
    BY <1>6, EntryCalls DEF FateOK
  <2> QED BY <1>2, <1>3, <1>6, <2>1 DEF Before
<1>7. req[r].pc \in Before \union {"credential", "unusable", "running"}
  BY DEF TypeOK, Held, Places, Before
<1> QED BY <1>4, <1>5, <1>6, <1>7

\* A step that is about call n changes no other call's fate.
LEMMA FateMoves ==
  ASSUME NEW n \in 1..MaxCalls,
         \A m \in 1..MaxCalls : m # n =>
           /\ m \in denied' <=> m \in denied
           /\ m \in recorded' <=> m \in recorded
           /\ m \in fallback' <=> m \in fallback
           /\ m \in killed' <=> m \in killed
           /\ m \in CallsOf(ran)' <=> m \in CallsOf(ran)
           /\ m \in CallsOf(charged)' <=> m \in CallsOf(charged)
  PROVE  Fate' = [Fate EXCEPT ![n] = Fate'[n]]
<1>1. \A m \in 1..MaxCalls : m # n => Fate'[m] = Fate[m]
  BY DEF Fate
<1>2. /\ Fate = [m \in 1..MaxCalls |-> Fate[m]]
      /\ Fate' = [m \in 1..MaxCalls |-> Fate'[m]]
  BY DEF Fate
<1> HIDE DEF Fate
<1> QED BY <1>1, <1>2

LEMMA Quiet ==
  ASSUME UNCHANGED <<charged, ran, denied, recorded, fallback, killed>>
  PROVE  UNCHANGED Ledger!ledgerVars
BY DEF Ledger!ledgerVars, Fate, PaidBy, ChargedTo, CallsOf

\* The steps that write, each as a step of the ledger.
LEMMA DenyRefines ==
  ASSUME TypeOK, LInv, FateOK, NEW r \in Requests, Deny(r)
  PROVE  FateOK' /\ Ledger!Next
<1> DEFINE n == req[r].call
<1>1. /\ Ends(r, {"deny"}) /\ denied' = denied \union {n} /\ req[r].pc \in Before
      /\ UNCHANGED <<arrived, calls, charged, ran, recorded, fallback, killed>>
  BY LeaveEnds DEF Deny, At, env, ledger, Before
<1>2. FateOK'
  BY <1>1 DEF FateOK, Ends, EntryOf, PaidBy, ChargedTo, CallsOf
<1>3. n \in 1..MaxCalls /\ Fate[n] = "open"
  BY <1>1, CallInRange, FateInFlight DEF Before
<1>4. Fate'[n] = "refused"
  BY <1>1, <1>3 DEF Fate
<1>5. Fate' = [Fate EXCEPT ![n] = Fate'[n]] /\ PaidBy' = PaidBy
  BY <1>1, <1>3, FateMoves DEF CallsOf, PaidBy, ChargedTo
<1>6. Ledger!Refuse(n)
  BY <1>3, <1>4, <1>5 DEF Ledger!Refuse, Ledger!Becomes
<1> QED BY <1>2, <1>3, <1>4, <1>6 DEF Ledger!Next

LEMMA PayRefines ==
  ASSUME TypeOK, LInv, FateOK, NEW r \in Requests, MovesOn(r, {"count"}, {"credential"}),
         Ceiling > 0, calls[Key(r)] < Ceiling, Charge(r),
         UNCHANGED <<arrived, ran, denied, recorded, fallback, killed>>
  PROVE  FateOK' /\ Ledger!Next
<1> DEFINE n == req[r].call
           k == Key(r)
<1>1. /\ req[r].pc \in Before /\ req[r].pc # "idle" /\ req'[r].pc = "credential"
      /\ \A q \in Requests \ {r} : req'[q] = req[q]
      /\ req'[r].call = n
  BY DEF MovesOn, Moves, Before
<1>2. /\ k \in Accounts /\ EntryOf(r).day = k[2] /\ OwnerOf[EntryOf(r).token] = k[1]
      /\ charged' = charged \union {EntryOf(r)} /\ calls' = [calls EXCEPT ![k] = @ + 1]
  BY KeyIsAccount DEF Key, EntryOf, Subject, Charge
<1>3. n \in 1..MaxCalls /\ Fate[n] = "open"
  BY <1>1, CallInRange, FateInFlight
<1>4. n \notin CallsOf(charged) /\ n \notin CallsOf(ran)
  <2>1. \A e \in charged \union ran : e.call # n
    BY <1>1 DEF LInv, FreshOK
  <2> QED BY <2>1 DEF CallsOf
<1>5. ASSUME NEW j \in Accounts
      PROVE  /\ PaidBy'[j] = IF j = k THEN PaidBy[j] \union {n} ELSE PaidBy[j]
             /\ n \notin PaidBy[j]
             /\ IsFiniteSet(PaidBy[j]) /\ Cardinality(PaidBy[j]) = calls[j]
  <2>1. /\ PaidBy[j] = CallsOf(ChargedTo(j[1], j[2]))
        /\ PaidBy'[j] = CallsOf(ChargedTo(j[1], j[2])')
    BY DEF PaidBy, Accounts, CallsOf
  <2>2. j = k <=> j[1] = k[1] /\ j[2] = k[2]
    BY <1>2 DEF Accounts
  <2>3. ChargedTo(j[1], j[2])' = IF j = k THEN ChargedTo(j[1], j[2]) \union {EntryOf(r)}
                                 ELSE ChargedTo(j[1], j[2])
    BY <1>2, <2>2 DEF ChargedTo
  <2>4. n \notin PaidBy[j]
    <3>1. CallsOf(ChargedTo(j[1], j[2])) \subseteq CallsOf(charged)
      BY DEF CallsOf, ChargedTo
    <3> QED BY <1>4, <2>1, <3>1
  <2>5. CallsOf(ChargedTo(j[1], j[2]) \union {EntryOf(r)})
          = CallsOf(ChargedTo(j[1], j[2])) \union {n}
    BY EntryCalls
  <2>6. IsFiniteSet(PaidBy[j]) /\ Cardinality(PaidBy[j]) = calls[j]
    BY DEF FateOK
  <2> HIDE DEF n, k
  <2> QED BY <2>1, <2>3, <2>4, <2>5, <2>6
<1>6. PaidBy' = [PaidBy EXCEPT ![k] = @ \union {n}]
  <2>1. /\ PaidBy = [j \in Accounts |-> PaidBy[j]] /\ PaidBy' = [j \in Accounts |-> PaidBy'[j]]
    BY DEF PaidBy, Accounts
  <2> HIDE DEF k
  <2> QED BY <1>2, <1>5, <2>1
<1>7. FateOK'
  <2>1. ASSUME NEW j \in Accounts
        PROVE  IsFiniteSet(PaidBy'[j]) /\ Cardinality(PaidBy'[j]) = calls'[j]
    <3>1. j \in DOMAIN calls /\ calls[j] \in Nat
      BY SubjectType DEF TypeOK, Accounts, Owners
    <3>2. CASE j = k
      <4>1. Cardinality(PaidBy[j] \union {n}) = Cardinality(PaidBy[j]) + 1
            /\ IsFiniteSet(PaidBy[j] \union {n})
        BY <1>5, FS_AddElement
      <4>2. PaidBy'[j] = PaidBy[j] \union {n} /\ calls'[j] = calls[j] + 1
        BY <1>2, <1>5, <3>1, <3>2
      <4> QED BY <1>5, <4>1, <4>2
    <3>3. CASE j # k
      BY <1>2, <1>5, <3>1, <3>3
    <3> QED BY <3>2, <3>3
  <2>2. \A q \in Requests : EntryOf(q) \in charged' => EntryOf(q)' \in charged' \/ q = r
    BY <1>1 DEF EntryOf
  <2>3. \A q \in Requests :
          /\ req'[q].pc # "idle" => req'[q].call \notin killed'
          /\ req'[q].pc = "unusable" /\ Ceiling > 0 => EntryOf(q)' \in charged'
          /\ req'[q].pc = "running" => EntryOf(q)' \in ran'
    BY <1>1, <1>2 DEF FateOK, EntryOf
  <2>4. (\A c \in killed : c <= arrived)' /\ (Ceiling = 0 => charged = {})'
    BY DEF FateOK
  <2> QED BY <2>1, <2>3, <2>4 DEF FateOK, Accounts
<1>8. Fate'[n] = "charged"
  BY <1>2, <1>3, <1>4, <1>1, EntryCalls, FateInFlight DEF Fate
<1>9. Fate' = [Fate EXCEPT ![n] = Fate'[n]]
  <2>1. \A m \in 1..MaxCalls : m # n =>
          /\ m \in CallsOf(ran)' <=> m \in CallsOf(ran)
          /\ m \in CallsOf(charged)' <=> m \in CallsOf(charged)
    BY <1>2, EntryCalls DEF CallsOf
  <2> QED BY <1>3, <2>1, FateMoves
<1>10. Cardinality(PaidBy[k]) < Ceiling
  BY <1>2, <1>5
<1>11. Ledger!Pay(n, k)
  <2>1. Fate' = [Fate EXCEPT ![n] = "charged"]
    BY <1>8, <1>9
  <2> HIDE DEF n, k
  <2> QED BY <1>3, <1>6, <1>10, <2>1, SameCardinality DEF Ledger!Pay, Ledger!Becomes
<1> QED BY <1>2, <1>3, <1>7, <1>8, <1>11 DEF Ledger!Next, Accounts

LEMMA RunRefines ==
  ASSUME TypeOK, LInv, FateOK, NEW r \in Requests, MovesOn(r, {"credential"}, {"running"}),
         ran' = ran \union {EntryOf(r)},
         UNCHANGED <<arrived, calls, charged, denied, recorded, fallback, killed>>
  PROVE  FateOK' /\ Ledger!Next
<1> DEFINE n == req[r].call
<1>1. /\ req[r].pc = "credential" /\ req'[r].pc = "running"
      /\ \A q \in Requests \ {r} : req'[q] = req[q]
      /\ req'[r].call = n /\ EntryOf(r)' = EntryOf(r)
  BY DEF MovesOn, Moves, EntryOf
<1>2. /\ n \in 1..MaxCalls /\ Fate[n] = Ledger!Cleared
      /\ n \notin denied \union recorded \union fallback \union killed
  BY <1>1, CallInRange, FateInFlight
<1>3. PaidBy' = PaidBy /\ CallsOf(charged)' = CallsOf(charged)
  BY DEF PaidBy, ChargedTo, CallsOf
<1>4. CallsOf(ran)' = CallsOf(ran) \union {n}
  BY EntryCalls DEF CallsOf
<1>5. FateOK'
  BY <1>1, <1>2, <1>3 DEF FateOK, EntryOf
<1>6. Fate'[n] = "running"
  BY <1>2, <1>4 DEF Fate
<1>7. Fate' = [Fate EXCEPT ![n] = Fate'[n]]
  BY <1>2, <1>3, <1>4, FateMoves
<1>8. Ledger!Run(n)
  BY <1>2, <1>3, <1>6, <1>7 DEF Ledger!Run, Ledger!Becomes
<1> QED BY <1>2, <1>5, <1>6, <1>8 DEF Ledger!Next, Ledger!Cleared

\* A call that is over: its row, or the death of its process.
LEMMA EndRefines ==
  ASSUME TypeOK, LInv, FateOK, NEW r \in Requests, Ends(r, Places \ {"idle"}),
         UNCHANGED <<arrived, calls, charged, ran, denied>>,
         \/ /\ req[r].pc \in {"unusable", "running"}
            /\ recorded' = recorded \union {req[r].call}
            /\ fallback' = fallback /\ killed' = killed
         \/ /\ req[r].pc = "running"
            /\ fallback' = fallback \union {req[r].call}
            /\ recorded' = recorded /\ killed' = killed
         \/ /\ killed' = killed \union {req[r].call}
            /\ recorded' = recorded /\ fallback' = fallback
  PROVE  FateOK' /\ Ledger!Next
<1> DEFINE n == req[r].call
<1>1. /\ req[r].pc # "idle" /\ req'[r].pc = "idle" /\ n <= arrived
      /\ \A q \in Requests \ {r} : req'[q] = req[q] /\ (req[q].pc # "idle" => req[q].call # n)
  BY DEF Ends, LInv, CallsOK, TypeOK
<1>2. /\ n \in 1..MaxCalls /\ Fate[n] \in {"open", "charged", "running"}
      /\ n \notin denied \union recorded \union fallback \union killed
      /\ req[r].pc = "unusable" => Fate[n] = Ledger!Cleared
      /\ req[r].pc = "running" => Fate[n] = "running"
  BY <1>1, CallInRange, FateInFlight
<1>3. /\ PaidBy' = PaidBy /\ CallsOf(charged)' = CallsOf(charged)
      /\ CallsOf(ran)' = CallsOf(ran)
  BY DEF PaidBy, ChargedTo, CallsOf
<1>4. FateOK'
  <2>1. \A q \in Requests :
          /\ req'[q].pc # "idle" => req'[q].call \notin killed'
          /\ req'[q].pc = "unusable" /\ Ceiling > 0 => EntryOf(q)' \in charged'
          /\ req'[q].pc = "running" => EntryOf(q)' \in ran'
    BY <1>1 DEF FateOK, EntryOf
  <2>2. \A c \in killed' : c <= arrived'
    BY <1>1 DEF FateOK
  <2> QED BY <1>3, <2>1, <2>2 DEF FateOK
<1>5. Fate' = [Fate EXCEPT ![n] = Fate'[n]]
  <2>1. \A m \in 1..MaxCalls : m # n =>
          /\ m \in recorded' <=> m \in recorded
          /\ m \in fallback' <=> m \in fallback
          /\ m \in killed' <=> m \in killed
    OBVIOUS
  <2> QED BY <1>2, <1>3, <2>1, FateMoves
<1>6. CASE /\ req[r].pc \in {"unusable", "running"}
           /\ recorded' = recorded \union {n} /\ fallback' = fallback /\ killed' = killed
  <2>1. Fate'[n] = "recorded"
    BY <1>2, <1>6 DEF Fate
  <2>2. Fate' = [Fate EXCEPT ![n] = "recorded"] /\ Fate[n] \in {Ledger!Cleared, "running"}
    BY <1>2, <1>5, <1>6, <2>1
  <2>3. Ledger!Record(n)
    BY <1>3, <2>2 DEF Ledger!Record, Ledger!Becomes
  <2> QED BY <1>2, <1>4, <2>1, <2>3 DEF Ledger!Next
<1>7. CASE /\ req[r].pc = "running"
           /\ fallback' = fallback \union {n} /\ recorded' = recorded /\ killed' = killed
  <2>1. Fate'[n] = "filed"
    BY <1>2, <1>7 DEF Fate
  <2>2. Fate' = [Fate EXCEPT ![n] = "filed"] /\ Fate[n] = "running"
    BY <1>2, <1>5, <1>7, <2>1
  <2>3. Ledger!File(n)
    BY <1>3, <2>2 DEF Ledger!File, Ledger!Becomes
  <2> QED BY <1>2, <1>4, <2>1, <2>3 DEF Ledger!Next
<1>8. CASE killed' = killed \union {n} /\ recorded' = recorded /\ fallback' = fallback
  <2>1. Fate'[n] = "lost"
    BY <1>2, <1>8 DEF Fate
  <2>2. Fate' = [Fate EXCEPT ![n] = "lost"]
    BY <1>5, <2>1
  <2>3. Ledger!Lose(n)
    BY <1>2, <1>3, <2>2 DEF Ledger!Lose, Ledger!Becomes
  <2> QED BY <1>2, <1>4, <2>1, <2>3 DEF Ledger!Next
<1> QED BY <1>6, <1>7, <1>8

\* The other steps write nothing, and the ledger stands still.
LEMMA QuietRefines ==
  ASSUME FateOK,
         UNCHANGED <<calls, charged, ran, denied, recorded, fallback, killed>>,
         \A c \in killed : c <= arrived',
         \A q \in Requests :
           /\ req'[q].pc # "idle" => req'[q].call \notin killed
           /\ req'[q].pc = "unusable" /\ Ceiling > 0 => EntryOf(q)' \in charged
           /\ req'[q].pc = "running" => EntryOf(q)' \in ran
  PROVE  FateOK' /\ UNCHANGED Ledger!ledgerVars
<1>1. PaidBy' = PaidBy
  BY DEF PaidBy, ChargedTo, CallsOf
<1> QED BY <1>1, Quiet DEF FateOK

LEMMA EarlyRefines ==
  ASSUME FateOK, NEW r \in Requests,
         Moves(r, Before, Before \union {"credential"}) \/ Ends(r, Places),
         UNCHANGED <<arrived, calls, charged, ran, denied, recorded, fallback, killed>>
  PROVE  FateOK' /\ UNCHANGED Ledger!ledgerVars
<1>1. \A c \in killed : c <= arrived'
  BY DEF FateOK
<1>2. ASSUME NEW q \in Requests
      PROVE  /\ req'[q].pc # "idle" => req'[q].call \notin killed
             /\ req'[q].pc = "unusable" /\ Ceiling > 0 => EntryOf(q)' \in charged
             /\ req'[q].pc = "running" => EntryOf(q)' \in ran
  <2>1. CASE q = r
    BY <2>1 DEF Moves, Ends, Before, FateOK
  <2>2. CASE q # r
    <3>1. req'[q] = req[q]
      BY <2>2 DEF Moves, Ends
    <3> QED BY <3>1 DEF FateOK, EntryOf
  <2> QED BY <2>1, <2>2
<1> QED BY <1>1, <1>2, QuietRefines

LEMMA CountRefines ==
  ASSUME TypeOK, LInv, FateOK, NEW r \in Requests, Count(r)
  PROVE  FateOK' /\ [Ledger!Next]_(Ledger!ledgerVars)
<1>1. /\ req[r].pc = "count" /\ Ceiling \in Nat
      /\ UNCHANGED <<arrived, ran, denied, recorded, fallback, killed>>
  BY CountsAssumption DEF Count, At, env, rows
<1>2. CASE Ceiling > 0 /\ calls[Key(r)] < Ceiling
  <2>1. Charge(r) /\ Goto(r, "credential")
    BY <1>2 DEF Count
  <2>2. MovesOn(r, {"count"}, {"credential"})
    BY <1>1, <2>1, GotoMoves DEF Places
  <2> QED BY <1>1, <1>2, <2>1, <2>2, PayRefines
<1>3. CASE ~(Ceiling > 0 /\ calls[Key(r)] < Ceiling)
  <2>1. UNCHANGED <<calls, charged>> /\ (Goto(r, "credential") \/ Goto(r, "deny"))
    BY <1>3 DEF Count
  <2>2. MovesOn(r, {"count"}, {"credential"}) \/ MovesOn(r, {"count"}, {"deny"})
    BY <1>1, <2>1, GotoMoves DEF Places
  <2>3. Moves(r, Before, Before \union {"credential"})
    BY <2>2 DEF MovesOn, Moves, Before
  <2> QED BY <1>1, <2>1, <2>3, EarlyRefines
<1> QED BY <1>2, <1>3

LEMMA CredentialRefines ==
  ASSUME TypeOK, LInv, FateOK, NEW r \in Requests, Credential(r)
  PROVE  FateOK' /\ [Ledger!Next]_(Ledger!ledgerVars)
<1>1. /\ req[r].pc = "credential"
      /\ UNCHANGED <<arrived, calls, charged, denied, recorded, fallback, killed>>
  BY DEF Credential, At, env, ledger, rows
<1>2. CASE Goto(r, "running") /\ ran' = ran \union {EntryOf(r)}
  <2>1. MovesOn(r, {"credential"}, {"running"})
    BY <1>1, <1>2, GotoMoves DEF Places
  <2> QED BY <1>1, <1>2, <2>1, RunRefines
<1>3. CASE Goto(r, "unusable") /\ UNCHANGED ran
  <2>1. MovesOn(r, {"credential"}, {"unusable"})
    BY <1>1, <1>3, GotoMoves DEF Places
  <2>2. ASSUME NEW q \in Requests
        PROVE  /\ req'[q].pc # "idle" => req'[q].call \notin killed
               /\ req'[q].pc = "unusable" /\ Ceiling > 0 => EntryOf(q)' \in charged
               /\ req'[q].pc = "running" => EntryOf(q)' \in ran
    <3>1. CASE q = r
      <4>1. req'[r].pc = "unusable" /\ req'[r].call = req[r].call /\ EntryOf(r)' = EntryOf(r)
        BY <2>1 DEF MovesOn, Moves, EntryOf
      <4>2. req[r].call \notin killed /\ (Ceiling > 0 => EntryOf(r) \in charged)
        BY <1>1 DEF FateOK, LInv, FreshOK
      <4> QED BY <3>1, <4>1, <4>2
    <3>2. CASE q # r
      <4>1. req'[q] = req[q]
        BY <2>1, <3>2 DEF MovesOn, Moves
      <4> QED BY <4>1 DEF FateOK, EntryOf
    <3> QED BY <3>1, <3>2
  <2>3. \A c \in killed : c <= arrived'
    BY <1>1 DEF FateOK
  <2> QED BY <1>1, <1>3, <2>2, <2>3, QuietRefines
<1> QED BY <1>2, <1>3 DEF Credential

LEMMA ArriveRefines ==
  ASSUME TypeOK, FateOK, NEW r \in Requests, NEW t \in Tokens, Arrive(r, t)
  PROVE  FateOK' /\ UNCHANGED Ledger!ledgerVars
<1>1. /\ arrived' = arrived + 1 /\ arrived \in Nat
      /\ req'[r].pc = "grants" /\ req'[r].call = arrived + 1
      /\ \A q \in Requests \ {r} : req'[q] = req[q]
      /\ UNCHANGED <<calls, charged, ran, denied, recorded, fallback, killed>>
  <2>1. /\ arrived' = arrived + 1
        /\ UNCHANGED <<calls, charged, ran, denied, recorded, fallback, killed>>
    BY DEF Arrive, ledger, rows
  <2>2. arrived \in Nat
    BY CountsAssumption DEF TypeOK
  <2>3. /\ req'[r].pc = "grants" /\ req'[r].call = arrived + 1
        /\ \A q \in Requests \ {r} : req'[q] = req[q]
    BY DEF Arrive, Idle, TypeOK
  <2> QED BY <2>1, <2>2, <2>3
<1>2. \A c \in killed : c \in Nat /\ c <= arrived
  BY DEF FateOK, TypeOK
<1>3. ASSUME NEW q \in Requests
      PROVE  /\ req'[q].pc # "idle" => req'[q].call \notin killed
             /\ req'[q].pc = "unusable" /\ Ceiling > 0 => EntryOf(q)' \in charged
             /\ req'[q].pc = "running" => EntryOf(q)' \in ran
  <2>1. CASE q = r
    BY <1>1, <1>2, <2>1
  <2>2. CASE q # r
    BY <1>1, <2>2 DEF FateOK, EntryOf
  <2> QED BY <2>1, <2>2
<1>4. \A c \in killed : c <= arrived'
  BY <1>1, <1>2
<1> QED BY <1>1, <1>3, <1>4, QuietRefines

LEMMA WorldRefines ==
  ASSUME TypeOK, FateOK, World \/ UNCHANGED vars
  PROVE  FateOK' /\ UNCHANGED Ledger!ledgerVars
<1>1. /\ \A q \in Requests :
           /\ req'[q].pc = req[q].pc /\ req'[q].call = req[q].call
           /\ EntryOf(q)' = EntryOf(q)
      /\ UNCHANGED <<arrived, calls, charged, ran, denied, recorded, fallback, killed>>
  BY WorldKeeps DEF EntryOf, ledger, rows
<1>2. /\ \A c \in killed : c <= arrived'
      /\ \A q \in Requests :
           /\ req'[q].pc # "idle" => req'[q].call \notin killed
           /\ req'[q].pc = "unusable" /\ Ceiling > 0 => EntryOf(q)' \in charged
           /\ req'[q].pc = "running" => EntryOf(q)' \in ran
  BY <1>1 DEF FateOK
<1> QED BY <1>1, <1>2, QuietRefines

LEMMA InitRefines == Init => FateOK /\ Ledger!Init
<1> SUFFICES ASSUME Init PROVE FateOK /\ Ledger!Init
  OBVIOUS
<1>1. /\ \A r \in Requests : req[r].pc = "idle"
      /\ charged = {} /\ ran = {} /\ denied = {} /\ recorded = {} /\ fallback = {}
      /\ killed = {}
  BY DEF Init, Idle
<1>2. PaidBy = [k \in Accounts |-> {}]
  BY <1>1 DEF PaidBy, ChargedTo, CallsOf, Accounts
<1>3. \A k \in Accounts : calls[k] = 0
  BY SubjectType DEF Init, Accounts, Owners
<1>4. FateOK
  <2>1. \A k \in Accounts : IsFiniteSet(PaidBy[k]) /\ Cardinality(PaidBy[k]) = calls[k]
    BY <1>2, <1>3, FS_EmptySet
  <2> QED BY <1>1, <2>1 DEF FateOK
<1>5. Fate = [n \in 1..MaxCalls |-> "open"]
  BY <1>1 DEF Fate, CallsOf
<1> QED BY <1>2, <1>4, <1>5 DEF Ledger!Init, Accounts

LEMMA StepRefines ==
  TypeOK /\ LInv /\ FateOK /\ [Next]_vars => FateOK' /\ [Ledger!Next]_(Ledger!ledgerVars)
<1> SUFFICES ASSUME TypeOK, LInv, FateOK, [Next]_vars
             PROVE  FateOK' /\ [Ledger!Next]_(Ledger!ledgerVars)
  OBVIOUS
<1>1. ASSUME NEW r \in Requests, NEW t \in Tokens, Arrive(r, t)
      PROVE  FateOK' /\ [Ledger!Next]_(Ledger!ledgerVars)
  BY <1>1, ArriveRefines
<1>2. ASSUME NEW r \in Requests, Serve(r)
      PROVE  FateOK' /\ [Ledger!Next]_(Ledger!ledgerVars)
  <2>1. CASE ReadGrants(r) \/ ReadConfig(r) \/ Candidates(r) \/ Unbound(r)
             \/ Adjudicate(r) \/ CheckSpend(r)
    <3>1. Moves(r, Early, Before) \/ Ends(r, Early)
      BY <2>1, EarlyMoves
    <3>2. Moves(r, Before, Before \union {"credential"}) \/ Ends(r, Places)
      BY <3>1 DEF Moves, Ends, Early, Before, Places
    <3>3. UNCHANGED <<arrived, calls, charged, ran, denied, recorded, fallback, killed>>
      BY <2>1 DEF ReadGrants, ReadConfig, Candidates, Unbound, Adjudicate,
         CheckSpend, env, ledger, rows
    <3> QED BY <3>2, <3>3, EarlyRefines
  <2>2. CASE Raise(r)
    <3>1. Ends(r, Places)
      BY <2>2, LeaveEnds DEF Raise, At, Places
    <3>2. UNCHANGED <<arrived, calls, charged, ran, denied, recorded, fallback, killed>>
      BY <2>2 DEF Raise, env, ledger, rows
    <3> QED BY <3>1, <3>2, EarlyRefines
  <2>3. CASE Deny(r) \/ Count(r) \/ Credential(r)
    BY <2>3, DenyRefines, CountRefines, CredentialRefines
  <2>4. CASE Unusable(r)
    <3>1. /\ req[r].pc = "unusable" /\ Ends(r, Places \ {"idle"})
          /\ recorded' = recorded \union {req[r].call}
          /\ UNCHANGED <<arrived, calls, charged, ran, denied, fallback, killed>>
      BY <2>4, LeaveEnds DEF Unusable, At, Places, env, ledger
    <3> QED BY <3>1, EndRefines
  <2>5. CASE Record(r)
    <3>1. /\ req[r].pc = "running" /\ Ends(r, Places \ {"idle"})
          /\ UNCHANGED <<arrived, calls, charged, ran, denied, killed>>
          /\ \/ recorded' = recorded \union {req[r].call} /\ UNCHANGED fallback
             \/ fallback' = fallback \union {req[r].call} /\ UNCHANGED recorded
      BY <2>5, LeaveEnds DEF Record, At, Places, env
    <3> QED BY <3>1, EndRefines
  <2> QED BY <1>2, <2>1, <2>2, <2>3, <2>4, <2>5 DEF Serve
<1>3. ASSUME NEW r \in Requests, Crash(r)
      PROVE  FateOK' /\ [Ledger!Next]_(Ledger!ledgerVars)
  <2>1. Leave(r) /\ req[r].pc \in Places \ {"idle"}
    BY <1>3 DEF Crash, At, TypeOK, Held
  <2>2. /\ Ends(r, Places \ {"idle"}) /\ killed' = killed \union {req[r].call}
        /\ UNCHANGED <<arrived, calls, charged, ran, denied, recorded, fallback>>
    BY <1>3, <2>1, LeaveEnds DEF Crash, ledger, rows
  <2> QED BY <2>2, EndRefines
<1>4. CASE World \/ UNCHANGED vars
  BY <1>4, WorldRefines
<1> QED BY <1>1, <1>2, <1>3, <1>4 DEF Next

\* Whatever the threads, tokens, ceiling, outages and crashes, the counter, the
\* rows and the file keep the one ledger that CallLedger describes.
THEOREM LedgerRefinement == Spec => ImplementsLedger
<1>1. Init => FateOK /\ Ledger!Init
  BY InitRefines
<1>2. TypeOK /\ LInv /\ FateOK /\ [Next]_vars
      => FateOK' /\ [Ledger!Next]_(Ledger!ledgerVars)
  BY StepRefines
<1> QED BY <1>1, <1>2, LedgerInvariance, PTL DEF Spec, ImplementsLedger, Ledger!Spec

-----------------------------------------------------------------------------
(* The spend ceiling and the calls in flight.                              *)

\* The calls of a subject that have passed the spend check and not yet added
\* what they cost: what was spent may still grow by MaxCost for each of them.
InFlight(s) == {r \in Requests : /\ req[r].pc \in {"count", "credential", "running"}
                                 /\ Subject(req[r].token) = s}
Bound == SpendCeiling - 1 + Cardinality(Requests) * MaxCost

SpendOK ==
  SpendCeiling > 0 => \A s \in Subjects :
    /\ \A d \in Days : spent[<<s, d>>] <= Bound
    /\ spent[<<s, today>>] + Cardinality(InFlight(s)) * MaxCost <= Bound
    /\ \A d \in Days : d > today => spent[<<s, d>>] = 0

LEMMA Products ==
  ASSUME NEW a \in Nat, NEW b \in Nat, NEW c \in Nat
  PROVE  /\ a * c \in Nat
         /\ a <= b => a * c <= b * c
         /\ a = b + 1 => a * c = b * c + c
<1>1. a * c \in Nat /\ b * c \in Nat
  OBVIOUS
<1>2. a <= b => a * c <= b * c
  <2> SUFFICES ASSUME a <= b PROVE a * c <= b * c
    OBVIOUS
  <2>1. b - a \in Nat /\ (b - a) * c \in Nat /\ b * c = a * c + (b - a) * c
    OBVIOUS
  <2> QED BY <1>1, <2>1
<1>3. a = b + 1 => a * c = b * c + c
  OBVIOUS
<1> QED BY <1>1, <1>2, <1>3

\* How many calls can be in flight.
LEMMA InFlightFinite ==
  \A s : /\ IsFiniteSet(InFlight(s)) /\ Cardinality(InFlight(s)) \in Nat
         /\ Cardinality(Requests) \in Nat
         /\ Cardinality(InFlight(s)) * MaxCost <= Cardinality(Requests) * MaxCost
<1> TAKE s
<1>1. InFlight(s) \in SUBSET Requests
  BY DEF InFlight
<1>2. /\ IsFiniteSet(InFlight(s)) /\ Cardinality(InFlight(s)) <= Cardinality(Requests)
  BY <1>1, RequestsAssumption, FS_Subset
<1>3. Cardinality(InFlight(s)) \in Nat /\ Cardinality(Requests) \in Nat
  BY <1>2, RequestsAssumption, FS_CardinalityType
<1> QED BY <1>2, <1>3, Products, CountsAssumption

LEMMA BoundType == Bound \in Int /\ (SpendCeiling > 0 => Bound \in Nat)
<1>1. Cardinality(Requests) \in Nat
  BY InFlightFinite
<1>2. Cardinality(Requests) * MaxCost \in Nat
  BY <1>1, Products, CountsAssumption
<1> QED BY <1>2, CountsAssumption DEF Bound

\* A step that spends nothing on a day that goes on, and lets no call through.
LEMMA QuietSpend ==
  ASSUME TypeOK, SpendOK, UNCHANGED <<spent, today>>,
         \A s \in Subjects : InFlight(s)' \subseteq InFlight(s)
  PROVE  SpendOK'
<1> SUFFICES ASSUME SpendCeiling > 0, NEW s \in Subjects
             PROVE  spent[<<s, today>>] + Cardinality(InFlight(s)') * MaxCost <= Bound
  BY DEF SpendOK, Bound
<1>1. IsFiniteSet(InFlight(s)) /\ InFlight(s)' \in SUBSET InFlight(s)
  BY InFlightFinite
<1>2. IsFiniteSet(InFlight(s)') /\ Cardinality(InFlight(s)') <= Cardinality(InFlight(s))
  BY <1>1, FS_Subset
<1>3. Cardinality(InFlight(s)') \in Nat /\ Cardinality(InFlight(s)) \in Nat
  BY <1>1, <1>2, FS_CardinalityType
<1>4. /\ Cardinality(InFlight(s)') * MaxCost <= Cardinality(InFlight(s)) * MaxCost
      /\ Cardinality(InFlight(s)') * MaxCost \in Nat
      /\ Cardinality(InFlight(s)) * MaxCost \in Nat
  BY <1>2, <1>3, Products, CountsAssumption
<1>5. spent[<<s, today>>] \in Nat
  BY DEF TypeOK
<1>7. Bound \in Int
  BY BoundType
<1>6. spent[<<s, today>>] + Cardinality(InFlight(s)) * MaxCost <= Bound
  BY DEF SpendOK
<1> HIDE DEF Bound
<1> QED BY <1>4, <1>5, <1>6, <1>7

LEMMA InitSpendOK == Init => SpendOK
<1> SUFFICES ASSUME Init, SpendCeiling > 0, NEW s \in Subjects
             PROVE  /\ \A d \in Days : spent[<<s, d>>] <= Bound
                    /\ spent[<<s, today>>] + Cardinality(InFlight(s)) * MaxCost <= Bound
                    /\ \A d \in Days : d > today => spent[<<s, d>>] = 0
  BY DEF SpendOK
<1>1. \A d \in Days : spent[<<s, d>>] = 0
  BY DEF Init
<1>2. InFlight(s) = {}
  BY DEF Init, Idle, InFlight
<1>3. Cardinality(InFlight(s)) * MaxCost = 0
  BY <1>2, FS_EmptySet, CountsAssumption
<1>4. Bound \in Nat
  BY BoundType
<1>5. today \in Days
  BY CountsAssumption DEF Init
<1> QED BY <1>1, <1>3, <1>4, <1>5

\* The check: what was spent is under the ceiling, whoever is in flight.
LEMMA CheckSpendOK ==
  ASSUME TypeOK, SpendOK, NEW r \in Requests, CheckSpend(r)
  PROVE  SpendOK'
<1>1. UNCHANGED <<spent, today>>
  BY DEF CheckSpend, env, ledger
<1>2. CASE OverSpend(Subject(req[r].token))
  <2>1. MovesOn(r, {"spend"}, {"deny"})
    BY <1>2, CheckSpendMoves
  <2>2. \A s \in Subjects : InFlight(s)' \subseteq InFlight(s)
    BY <2>1 DEF InFlight, MovesOn, Moves
  <2> QED BY <1>1, <2>2, QuietSpend
<1>3. CASE ~OverSpend(Subject(req[r].token))
  <2>1. MovesOn(r, {"spend"}, {"count"})
    BY <1>3, CheckSpendMoves
  <2> SUFFICES ASSUME SpendCeiling > 0, NEW s \in Subjects
               PROVE  spent[<<s, today>>] + Cardinality(InFlight(s)') * MaxCost <= Bound
    BY <1>1 DEF SpendOK, Bound
  <2>2. spent[<<s, today>>] \in Nat
    BY DEF TypeOK
  <2>3. CASE s = Subject(req[r].token)
    <3>1. spent[<<s, today>>] <= SpendCeiling - 1
      BY <1>3, <2>2, <2>3, CountsAssumption DEF OverSpend
    <3>2. /\ Cardinality(InFlight(s)') * MaxCost <= Cardinality(Requests) * MaxCost
          /\ Cardinality(InFlight(s)') * MaxCost \in Nat
          /\ Cardinality(Requests) * MaxCost \in Nat
      <4>1. InFlight(s)' \in SUBSET Requests
        BY DEF InFlight
      <4>2. /\ IsFiniteSet(InFlight(s)')
            /\ Cardinality(InFlight(s)') <= Cardinality(Requests)
        BY <4>1, RequestsAssumption, FS_Subset
      <4>3. Cardinality(InFlight(s)') \in Nat /\ Cardinality(Requests) \in Nat
        BY <4>2, RequestsAssumption, FS_CardinalityType
      <4> QED BY <4>2, <4>3, Products, CountsAssumption
    <3> QED BY <2>2, <3>1, <3>2, CountsAssumption DEF Bound
  <2>4. CASE s # Subject(req[r].token)
    <3>1. InFlight(s)' = InFlight(s)
      BY <2>1, <2>4 DEF InFlight, MovesOn, Moves
    <3> QED BY <3>1 DEF SpendOK
  <2> QED BY <2>3, <2>4
<1> QED BY <1>2, <1>3

\* The row: what it adds, its call could still have added.
LEMMA RecordSpendOK ==
  ASSUME TypeOK, SpendOK, NEW r \in Requests, Record(r)
  PROVE  SpendOK'
<1>0. PICK o \in Subjects : o = Subject(req[r].token)
  BY SubjectType DEF TypeOK, Held
<1>1. /\ Ends(r, {"running"}) /\ today' = today
  BY LeaveEnds DEF Record, At, env
<1>2. /\ o \in Subjects /\ today \in Days
      /\ spent \in [Subjects \X Days -> Nat]
      /\ r \in InFlight(o)
  BY <1>0, <1>1 DEF Ends, InFlight, TypeOK
<1>3. PICK cost \in 0..MaxCost :
        UNCHANGED spent \/ spent' = [spent EXCEPT ![<<o, today>>] = @ + cost]
  BY <1>0 DEF Record
<1>4. \A s : InFlight(s)' = InFlight(s) \ {r}
  <2> SUFFICES ASSUME NEW s, NEW q \in Requests
               PROVE  q \in InFlight(s)' <=> (q \in InFlight(s) /\ q # r)
    BY DEF InFlight
  <2>1. CASE q = r
    BY <1>1, <2>1 DEF InFlight, Ends
  <2>2. CASE q # r
    BY <1>1, <2>2 DEF InFlight, Ends
  <2> QED BY <2>1, <2>2
<1>5. CASE UNCHANGED spent
  BY <1>1, <1>4, <1>5, QuietSpend
<1>6. CASE spent' = [spent EXCEPT ![<<o, today>>] = @ + cost]
  <2> SUFFICES ASSUME SpendCeiling > 0, NEW s \in Subjects
               PROVE  /\ \A d \in Days : spent'[<<s, d>>] <= Bound
                      /\ spent'[<<s, today>>] + Cardinality(InFlight(s)') * MaxCost <= Bound
                      /\ \A d \in Days : d > today => spent'[<<s, d>>] = 0
    BY <1>1 DEF SpendOK, Bound
  <2>0. /\ \A d \in Days : spent[<<s, d>>] <= Bound
        /\ spent[<<s, today>>] + Cardinality(InFlight(s)) * MaxCost <= Bound
        /\ \A d \in Days : d > today => spent[<<s, d>>] = 0
    BY DEF SpendOK
  <2>1. CASE s = o
    <3>1. /\ IsFiniteSet(InFlight(o)) /\ r \in InFlight(o)
          /\ Cardinality(InFlight(o)') = Cardinality(InFlight(o)) - 1
          /\ Cardinality(InFlight(o)') \in Nat
      <4>1. IsFiniteSet(InFlight(o)) /\ Cardinality(InFlight(o)) \in Nat
        BY InFlightFinite
      <4>2. /\ IsFiniteSet(InFlight(o) \ {r})
            /\ Cardinality(InFlight(o) \ {r}) = Cardinality(InFlight(o)) - 1
        BY <1>2, <4>1, FS_RemoveElement
      <4> QED BY <1>2, <1>4, <4>1, <4>2, FS_CardinalityType
    <3>2. Cardinality(InFlight(o)) * MaxCost = Cardinality(InFlight(o)') * MaxCost + MaxCost
          /\ Cardinality(InFlight(o)') * MaxCost \in Nat
      BY <3>1, InFlightFinite, Products, CountsAssumption
    <3>3. /\ spent'[<<s, today>>] = spent[<<s, today>>] + cost
          /\ spent[<<s, today>>] \in Nat /\ cost \in Nat /\ cost <= MaxCost
          /\ \A d \in Days : d # today => spent'[<<s, d>>] = spent[<<s, d>>]
      BY <1>2, <1>6, <2>1, CountsAssumption
    <3>4. Bound \in Int /\ MaxCost \in Nat
      BY BoundType, CountsAssumption
    <3>6. InFlight(s) = InFlight(o) /\ InFlight(s)' = InFlight(o)'
      BY <2>1 DEF InFlight
    <3>5. spent'[<<s, today>>] + Cardinality(InFlight(s)') * MaxCost <= Bound
          /\ spent'[<<s, today>>] <= Bound
      <4>1. spent[<<s, today>>] + (Cardinality(InFlight(o)') * MaxCost + MaxCost) <= Bound
        BY <2>0, <3>2, <3>6
      <4>2. \A a, b, x, y \in Nat, z \in Int :
              a + (b + x) <= z /\ y <= x => a + y + b <= z /\ a + y <= z
        OBVIOUS
      <4>3. /\ spent[<<s, today>>] + cost + Cardinality(InFlight(o)') * MaxCost <= Bound
            /\ spent[<<s, today>>] + cost <= Bound
        BY <3>2, <3>3, <3>4, <4>1, <4>2
      <4> QED BY <3>3, <3>6, <4>3
    <3> HIDE DEF Bound
    <3> QED BY <1>2, <2>0, <3>3, <3>5, CountsAssumption
  <2>2. CASE s # o
    <3>1. \A d \in Days : spent'[<<s, d>>] = spent[<<s, d>>]
      BY <1>2, <1>6, <2>2
    <3>2. InFlight(s)' = InFlight(s)
      BY <1>0, <1>4, <2>2 DEF InFlight
    <3> QED BY <1>2, <2>0, <3>1, <3>2
  <2> QED BY <2>1, <2>2
<1> QED BY <1>3, <1>5, <1>6

\* A new day has nothing spent on it.
LEMMA MidnightSpendOK ==
  ASSUME TypeOK, SpendOK, Midnight
  PROVE  SpendOK'
<1> SUFFICES ASSUME SpendCeiling > 0, NEW s \in Subjects
             PROVE  /\ \A d \in Days : spent[<<s, d>>] <= Bound
                    /\ spent[<<s, today'>>] + Cardinality(InFlight(s)) * MaxCost <= Bound
                    /\ \A d \in Days : d > today' => spent[<<s, d>>] = 0
  BY DEF SpendOK, Bound, Midnight, ledger, InFlight
<1>1. today' = today + 1 /\ today \in Days /\ today' \in Days
  BY CountsAssumption DEF Midnight, TypeOK
<1>0. /\ \A d \in Days : spent[<<s, d>>] <= Bound
      /\ \A d \in Days : d > today => spent[<<s, d>>] = 0
  BY DEF SpendOK
<1>2. spent[<<s, today'>>] = 0
  <2>1. today' > today
    BY <1>1 DEF Days
  <2> QED BY <1>0, <1>1, <2>1
<1>3. spent[<<s, today'>>] + Cardinality(InFlight(s)) * MaxCost <= Bound
  <2>1. /\ Cardinality(InFlight(s)) * MaxCost <= Cardinality(Requests) * MaxCost
        /\ Cardinality(InFlight(s)) * MaxCost \in Nat
        /\ Cardinality(Requests) * MaxCost \in Nat
    BY InFlightFinite, Products, CountsAssumption
  <2> QED BY <1>2, <2>1, CountsAssumption DEF Bound
<1>4. \A d \in Days : d > today' => d > today
  BY <1>1 DEF Days
<1> QED BY <1>0, <1>3, <1>4

LEMMA StepSpendOK == TypeOK /\ SpendOK /\ [Next]_vars => SpendOK'
<1> SUFFICES ASSUME TypeOK, SpendOK, [Next]_vars PROVE SpendOK'
  OBVIOUS
<1>1. ASSUME NEW r \in Requests, NEW t \in Tokens, Arrive(r, t) PROVE SpendOK'
  <2>1. /\ req'[r].pc = "grants" /\ \A q \in Requests \ {r} : req'[q] = req[q]
    BY <1>1 DEF Arrive, Idle, TypeOK
  <2>2. \A s \in Subjects : InFlight(s)' \subseteq InFlight(s)
    BY <2>1 DEF InFlight
  <2> QED BY <1>1, <2>2, QuietSpend DEF Arrive, ledger
<1>2. ASSUME NEW r \in Requests, Serve(r) PROVE SpendOK'
  <2>1. CASE ReadGrants(r) \/ ReadConfig(r) \/ Candidates(r) \/ Unbound(r)
             \/ Adjudicate(r)
    <3>1. /\ req'[r].pc \notin {"count", "credential", "running"}
          /\ \A q \in Requests \ {r} : req'[q] = req[q]
          /\ UNCHANGED <<spent, today>>
      <4>1. Moves(r, Early, Door) \/ Ends(r, Early)
        BY <2>1, DoorMoves
      <4>2. UNCHANGED <<spent, today>>
        BY <2>1 DEF ReadGrants, ReadConfig, Candidates, Unbound, Adjudicate,
             env, ledger
      <4> QED BY <4>1, <4>2 DEF Moves, Ends, Door
    <3>2. \A s \in Subjects : InFlight(s)' \subseteq InFlight(s)
      BY <3>1 DEF InFlight
    <3> QED BY <3>1, <3>2, QuietSpend
  <2>2. CASE Deny(r) \/ Unusable(r) \/ Raise(r)
    <3>1. Ends(r, Places)
      BY <2>2, LeaveEnds DEF Deny, Unusable, Raise, TypeOK, Held
    <3>2. \A s \in Subjects : InFlight(s)' \subseteq InFlight(s)
      BY <3>1 DEF InFlight, Ends
    <3> QED BY <2>2, <3>2, QuietSpend DEF Deny, Unusable, Raise, env, ledger
  <2>3. CASE Count(r) \/ Credential(r)
    <3>1. \/ MovesOn(r, {"count", "credential"}, {"credential"})
          \/ MovesOn(r, {"count", "credential"}, {"deny"})
          \/ MovesOn(r, {"count", "credential"}, {"unusable"})
          \/ MovesOn(r, {"count", "credential"}, {"running"})
      BY <2>3, GotoMoves DEF Count, Credential, At, Places
    <3>2. \A s \in Subjects : InFlight(s)' \subseteq InFlight(s)
      BY <3>1 DEF InFlight, MovesOn, Moves
    <3>3. UNCHANGED <<spent, today>>
      BY <2>3 DEF Count, Credential, env, ledger
    <3> QED BY <3>2, <3>3, QuietSpend
  <2>4. CASE CheckSpend(r) \/ Record(r)
    BY <2>4, CheckSpendOK, RecordSpendOK
  <2> QED BY <1>2, <2>1, <2>2, <2>3, <2>4 DEF Serve
<1>3. ASSUME NEW r \in Requests, Crash(r) PROVE SpendOK'
  <2>1. Ends(r, Places)
    BY <1>3, LeaveEnds DEF Crash, TypeOK, Held
  <2>2. \A s \in Subjects : InFlight(s)' \subseteq InFlight(s)
    BY <2>1 DEF InFlight, Ends
  <2> QED BY <1>3, <2>2, QuietSpend DEF Crash, ledger
<1>4. CASE (World \/ UNCHANGED vars) /\ today' = today
  <2>1. \A s \in Subjects : InFlight(s)' \subseteq InFlight(s)
    BY <1>4, WorldKeeps DEF InFlight
  <2> QED BY <1>4, <2>1, WorldKeeps, QuietSpend DEF ledger
<1>5. CASE World /\ today' # today
  <2>1. Midnight
    BY <1>5 DEF World, Regrant, Edit, Outage, Recover
  <2> QED BY <2>1, MidnightSpendOK
<1> QED BY <1>1, <1>2, <1>3, <1>4, <1>5 DEF Next, vars, env

\* However many threads check the ceiling at once, a day ends over the line by
\* what the calls in flight cost: one call per thread, whatever the numbers.
THEOREM SpendBounded == Spec => []SpendOvershootBounded
<1>1. Init => TypeOK /\ SpendOK
  BY InitTypeOK, InitSpendOK
<1>2. TypeOK /\ SpendOK /\ [Next]_vars => (TypeOK /\ SpendOK)'
  BY StepTypeOK, StepSpendOK
<1>3. TypeOK /\ SpendOK => SpendOvershootBounded
  <2> SUFFICES ASSUME SpendOK, SpendCeiling > 0, NEW k \in Subjects \X Days
               PROVE  spent[k] <= Bound
    BY DEF SpendOvershootBounded, Bound
  <2>1. PICK s \in Subjects, d \in Days : k = <<s, d>>
    OBVIOUS
  <2> QED BY <2>1 DEF SpendOK
<1> QED BY <1>1, <1>2, <1>3, PTL DEF Spec
-----------------------------------------------------------------------------
(* Authority: what a call holds against the grants and configs as they are  *)
(* and were.                                                                *)

AuthOf(r) ==
  /\ Arriving(r) => /\ Granted(req[r].token) \subseteq req[r].held
                    /\ Allowing \subseteq req[r].seen
                    /\ req[r].steady \subseteq Granted(req[r].token) \intersect Allowing
  /\ At(r, "grants") => req[r].allow = {}
  /\ At(r, "configs") => /\ req[r].names \subseteq req[r].held
                         /\ req[r].allow \subseteq req[r].held \intersect req[r].seen
                         /\ req[r].steady \subseteq req[r].names \union req[r].allow
  /\ At(r, "bind") => /\ req[r].allow \subseteq req[r].held \intersect req[r].seen
                      /\ req[r].steady \subseteq req[r].allow
  /\ At(r, "spend") => /\ req[r].chosen \in req[r].held \intersect req[r].seen
                       /\ \A a \in req[r].steady : req[r].chosen <= a
AuthOK == \A r \in Requests : AuthOf(r)

LEMMA InitAuthOK == Init => AuthOK
BY DEF Init, Idle, AuthOK, AuthOf, Arriving, At

\* The administrators' side is at rest and the other threads do not move.
LEMMA OthersAuth ==
  ASSUME AuthOK, UNCHANGED admin, NEW r \in Requests,
         \A q \in Requests \ {r} : req'[q] = req[q],
         AuthOf(r)'
  PROVE  AuthOK'
<1> SUFFICES ASSUME NEW q \in Requests, q # r PROVE AuthOf(q)'
  BY DEF AuthOK
<1>1. AuthOf(q) /\ req'[q] = req[q] /\ UNCHANGED <<grants, config>>
  BY DEF AuthOK, admin
<1> QED BY <1>1 DEF AuthOf, Arriving, At, Granted, Allowing

\* A thread that holds a call past the door, or none, has nothing to keep.
LEMMA PastTheDoor ==
  ASSUME NEW r \in Requests, req'[r].pc \notin {"grants", "configs", "bind", "spend"}
  PROVE  AuthOf(r)'
BY DEF AuthOf, Arriving, At

LEMMA ArriveAuth ==
  ASSUME TypeOK, AuthOK, NEW r \in Requests, NEW t \in Tokens, Arrive(r, t)
  PROVE  AuthOK'
<1>1. /\ req' = [req EXCEPT ![r] = [Idle(t) EXCEPT
           !.pc = "grants", !.call = arrived + 1,
           !.held = Granted(t), !.seen = Allowing,
           !.steady = Granted(t) \intersect Allowing]]
      /\ UNCHANGED <<grants, config>>
  BY DEF Arrive, admin
<1>2. /\ req'[r].pc = "grants" /\ req'[r].token = t /\ req'[r].allow = {}
      /\ req'[r].held = Granted(t) /\ req'[r].seen = Allowing
      /\ req'[r].steady = Granted(t) \intersect Allowing
      /\ \A q \in Requests \ {r} : req'[q] = req[q]
  BY <1>1 DEF Idle, TypeOK
<1>3. AuthOf(r)'
  BY <1>1, <1>2 DEF AuthOf, Arriving, At, Granted, Allowing
<1> QED BY <1>1, <1>2, <1>3, OthersAuth DEF admin

LEMMA ReadGrantsAuth ==
  ASSUME TypeOK, AuthOK, NEW r \in Requests, ReadGrants(r)
  PROVE  AuthOK'
<1>1. /\ req[r].pc = "grants"
      /\ req' = [req EXCEPT ![r].pc = "configs",
                            ![r].names = Granted(req[r].token)]
      /\ UNCHANGED <<grants, config>>
  BY DEF ReadGrants, At, admin
<1>2. /\ req'[r].pc = "configs" /\ req'[r].token = req[r].token
      /\ req'[r].names = Granted(req[r].token) /\ req'[r].allow = req[r].allow
      /\ req'[r].held = req[r].held /\ req'[r].seen = req[r].seen
      /\ req'[r].steady = req[r].steady
      /\ \A q \in Requests \ {r} : req'[q] = req[q]
  BY <1>1 DEF TypeOK, Held
<1>3. /\ Granted(req[r].token) \subseteq req[r].held
      /\ Allowing \subseteq req[r].seen
      /\ req[r].steady \subseteq Granted(req[r].token) \intersect Allowing
      /\ req[r].allow = {}
  BY <1>1 DEF AuthOK, AuthOf, Arriving, At
<1>4. Granted(req[r].token)' = Granted(req[r].token) /\ Allowing' = Allowing
  <2>1. req'[r].token = req[r].token /\ grants' = grants /\ config' = config
    BY <1>1, <1>2
  <2>2. Granted(req[r].token)' = Granted(req[r].token)
    BY <2>1 DEF Granted
  <2> QED BY <2>1, <2>2 DEF Allowing
<1>5. AuthOf(r)'
  BY <1>2, <1>3, <1>4 DEF AuthOf, Arriving, At
<1> QED BY <1>1, <1>2, <1>5, OthersAuth DEF admin

\* An agent that was granted and allowed all the time is still to be read, or
\* was read while it allowed.
LEMMA ReadConfigAuth ==
  ASSUME TypeOK, AuthOK, NEW r \in Requests, ReadConfig(r)
  PROVE  AuthOK'
<1>1. PICK a : a = Lowest(req[r].names)
  OBVIOUS
<1>2. /\ req[r].pc = "configs" /\ req[r].names # {}
      /\ req' = [req EXCEPT
           ![r].names = @ \ {a},
           ![r].cand = IF config[a] # "without" THEN @ \union {a} ELSE @,
           ![r].allow = IF config[a] = "allows" THEN @ \union {a} ELSE @]
      /\ UNCHANGED <<grants, config>>
  BY <1>1 DEF ReadConfig, At, admin
<1>3. a \in req[r].names /\ a \in Agents
  <2>1. req[r].names \in SUBSET Agents
    BY DEF TypeOK, Held
  <2>2. req[r].names # {}
    BY <1>2
  <2>3. Lowest(req[r].names) \in req[r].names
    BY <2>1, <2>2, LowestIsLeast
  <2> QED BY <1>1, <2>1, <2>3
<1>4. /\ req'[r].pc = "configs" /\ req'[r].token = req[r].token
      /\ req'[r].names = req[r].names \ {a}
      /\ req'[r].allow = IF config[a] = "allows" THEN req[r].allow \union {a}
                         ELSE req[r].allow
      /\ req'[r].held = req[r].held /\ req'[r].seen = req[r].seen
      /\ req'[r].steady = req[r].steady
      /\ \A q \in Requests \ {r} : req'[q] = req[q]
  BY <1>2 DEF TypeOK, Held
<1>5. /\ Granted(req[r].token) \subseteq req[r].held
      /\ Allowing \subseteq req[r].seen
      /\ req[r].steady \subseteq Granted(req[r].token) \intersect Allowing
      /\ req[r].names \subseteq req[r].held
      /\ req[r].allow \subseteq req[r].held \intersect req[r].seen
      /\ req[r].steady \subseteq req[r].names \union req[r].allow
  BY <1>2 DEF AuthOK, AuthOf, Arriving, At
<1>6. config[a] = "allows" <=> a \in Allowing
  BY <1>3 DEF Allowing
<1>7. Granted(req[r].token)' = Granted(req[r].token) /\ Allowing' = Allowing
  <2>1. req'[r].token = req[r].token /\ grants' = grants /\ config' = config
    BY <1>2, <1>4
  <2>2. Granted(req[r].token)' = Granted(req[r].token)
    BY <2>1 DEF Granted
  <2> QED BY <2>1, <2>2 DEF Allowing
<1>8. /\ req'[r].allow \subseteq req[r].held \intersect req[r].seen
      /\ req[r].steady \subseteq req'[r].names \union req'[r].allow
  BY <1>3, <1>4, <1>5, <1>6
<1>9. AuthOf(r)'
  BY <1>4, <1>5, <1>7, <1>8 DEF AuthOf, Arriving, At
<1> QED BY <1>2, <1>4, <1>9, OthersAuth DEF admin

LEMMA CandidatesAuth ==
  ASSUME TypeOK, AuthOK, NEW r \in Requests, Candidates(r)
  PROVE  AuthOK'
<1>1. /\ req[r].pc = "configs" /\ req[r].names = {} /\ UNCHANGED <<grants, config>>
      /\ Leave(r) \/ Goto(r, "bind")
  BY DEF Candidates, At, admin
<1>2. CASE Leave(r)
  <2>1. Ends(r, {"configs"})
    BY <1>1, <1>2, LeaveEnds
  <2> QED BY <1>1, <2>1, PastTheDoor, OthersAuth DEF Ends, admin
<1>3. CASE Goto(r, "bind")
  <2>1. /\ req'[r].pc = "bind" /\ req'[r].token = req[r].token
        /\ req'[r].names = req[r].names /\ req'[r].allow = req[r].allow
        /\ req'[r].held = req[r].held /\ req'[r].seen = req[r].seen
        /\ req'[r].steady = req[r].steady
        /\ \A q \in Requests \ {r} : req'[q] = req[q]
    BY <1>3 DEF Goto, TypeOK, Held
  <2>2. AuthOf(r)
    BY DEF AuthOK
  <2>3. AuthOf(r)'
    BY <1>1, <2>1, <2>2 DEF AuthOf, Arriving, At, Granted, Allowing
  <2> QED BY <1>1, <2>1, <2>3, OthersAuth DEF admin
<1> QED BY <1>1, <1>2, <1>3

\* The lowest of the agents that allowed is not after any that always did.
LEMMA AdjudicateAuth ==
  ASSUME TypeOK, AuthOK, NEW r \in Requests, Adjudicate(r)
  PROVE  AuthOK'
<1>1. req[r].pc = "bind" /\ UNCHANGED <<grants, config>>
  BY DEF Adjudicate, At, admin
<1>2. PICK described \in BOOLEAN :
        LET allow == {a \in req[r].allow : described} IN
          req' = IF allow = {}
                 THEN [req EXCEPT ![r] = Decided(r, "deny")]
                 ELSE [req EXCEPT ![r].pc = "spend", ![r].window = Window,
                         ![r].chosen = Lowest(allow),
                         ![r].cand = {}, ![r].allow = {}]
  BY DEF Adjudicate
<1> DEFINE allow == {a \in req[r].allow : described}
<1>3. CASE allow = {}
  <2>1. /\ req'[r].pc = "deny" /\ \A q \in Requests \ {r} : req'[q] = req[q]
    BY <1>2, <1>3 DEF Decided, Idle, TypeOK
  <2> QED BY <1>1, <2>1, PastTheDoor, OthersAuth DEF admin
<1>4. CASE allow # {}
  <2>1. allow = req[r].allow /\ req[r].allow # {} /\ req[r].allow \subseteq Agents
    BY <1>4 DEF TypeOK, Held
  <2>2. PICK c : c = Lowest(req[r].allow)
    OBVIOUS
  <2>3. c \in req[r].allow /\ \A a \in req[r].allow : c <= a
    BY <2>1, <2>2, LowestIsLeast
  <2>4. req' = [req EXCEPT ![r].pc = "spend", ![r].window = Window,
                  ![r].chosen = c, ![r].cand = {}, ![r].allow = {}]
    BY <1>2, <1>4, <2>1, <2>2
  <2>5. /\ req'[r].pc = "spend" /\ req'[r].token = req[r].token
        /\ req'[r].chosen = c
        /\ req'[r].held = req[r].held /\ req'[r].seen = req[r].seen
        /\ req'[r].steady = req[r].steady
        /\ \A q \in Requests \ {r} : req'[q] = req[q]
    BY <2>4 DEF TypeOK, Held
  <2>6. AuthOf(r)
    BY DEF AuthOK
  <2>7. AuthOf(r)'
    BY <1>1, <2>3, <2>5, <2>6 DEF AuthOf, Arriving, At, Granted, Allowing
  <2> QED BY <1>1, <2>5, <2>7, OthersAuth DEF admin
<1> QED BY <1>3, <1>4

\* A change of the grants is in the histories of every call it can concern.
LEMMA RegrantAuth ==
  ASSUME TypeOK, AuthOK, NEW s \in Owners, NEW a \in Agents, Regrant(s, a)
  PROVE  AuthOK'
<1> SUFFICES ASSUME NEW r \in Requests PROVE AuthOf(r)'
  BY DEF AuthOK
<1>1. /\ AuthOf(r) /\ config' = config
      /\ \/ grants' = grants \ {<<s, a>>} \/ grants' = grants \union {<<s, a>>}
  BY DEF AuthOK, Regrant
<1>2. CASE Arriving(r) /\ Subject(req[r].token) = s
  <2>1. req'[r] = [req[r] EXCEPT !.held = @ \union {a}, !.steady = @ \ {a}]
    BY <1>2 DEF Regrant
  <2>2. /\ req'[r].pc = req[r].pc /\ req'[r].token = req[r].token
        /\ req'[r].names = req[r].names /\ req'[r].allow = req[r].allow
        /\ req'[r].chosen = req[r].chosen /\ req'[r].seen = req[r].seen
        /\ req'[r].held = req[r].held \union {a}
        /\ req'[r].steady = req[r].steady \ {a}
    BY <2>1 DEF TypeOK, Held
  <2>3. /\ Granted(req[r].token)' \subseteq Granted(req[r].token) \union {a}
        /\ Granted(req[r].token) \ {a} \subseteq Granted(req[r].token)'
    BY <1>1, <2>2 DEF Granted
  <2> QED BY <1>1, <1>2, <2>2, <2>3 DEF AuthOf, Arriving, At, Allowing
<1>3. CASE ~(Arriving(r) /\ Subject(req[r].token) = s)
  <2>1. req'[r] = req[r]
    BY <1>3 DEF Regrant
  <2>2. Arriving(r) => Granted(req[r].token)' = Granted(req[r].token)
    BY <1>1, <1>3, <2>1 DEF Granted
  <2> QED BY <1>1, <2>1, <2>2 DEF AuthOf, Arriving, At, Allowing
<1> QED BY <1>2, <1>3

LEMMA EditAuth ==
  ASSUME TypeOK, AuthOK, NEW a \in Agents, NEW v \in Verdicts, Edit(a, v)
  PROVE  AuthOK'
<1> SUFFICES ASSUME NEW r \in Requests PROVE AuthOf(r)'
  BY DEF AuthOK
<1>1. /\ AuthOf(r) /\ grants' = grants
      /\ config' = [config EXCEPT ![a] = v] /\ config \in [Agents -> Verdicts]
  BY DEF AuthOK, Edit, TypeOK
<1>2. /\ Allowing' \subseteq Allowing \union {a}
      /\ Allowing \ {a} \subseteq Allowing'
      /\ v = "allows" => a \in Allowing'
      /\ v # "allows" => a \notin Allowing'
  BY <1>1 DEF Allowing
<1>3. CASE ~Arriving(r)
  <2>1. req'[r] = req[r]
    BY <1>3 DEF Edit
  <2> QED BY <1>3, <2>1 DEF AuthOf, Arriving, At
<1>4. CASE Arriving(r) /\ v = "allows"
  <2>1. req'[r] = [req[r] EXCEPT !.seen = @ \union {a}]
    BY <1>4 DEF Edit
  <2>2. /\ req'[r].pc = req[r].pc /\ req'[r].token = req[r].token
        /\ req'[r].names = req[r].names /\ req'[r].allow = req[r].allow
        /\ req'[r].chosen = req[r].chosen /\ req'[r].held = req[r].held
        /\ req'[r].steady = req[r].steady
        /\ req'[r].seen = req[r].seen \union {a}
    BY <2>1 DEF TypeOK, Held
  <2>3. Granted(req[r].token)' = Granted(req[r].token)
    BY <1>1, <2>2 DEF Granted
  <2> QED BY <1>1, <1>2, <1>4, <2>2, <2>3 DEF AuthOf, Arriving, At
<1>5. CASE Arriving(r) /\ v # "allows"
  <2>1. req'[r] = [req[r] EXCEPT !.steady = @ \ {a}]
    BY <1>5 DEF Edit
  <2>2. /\ req'[r].pc = req[r].pc /\ req'[r].token = req[r].token
        /\ req'[r].names = req[r].names /\ req'[r].allow = req[r].allow
        /\ req'[r].chosen = req[r].chosen /\ req'[r].held = req[r].held
        /\ req'[r].seen = req[r].seen
        /\ req'[r].steady = req[r].steady \ {a}
    BY <2>1 DEF TypeOK, Held
  <2>3. Granted(req[r].token)' = Granted(req[r].token)
    BY <1>1, <2>2 DEF Granted
  <2> QED BY <1>1, <1>2, <1>5, <2>2, <2>3 DEF AuthOf, Arriving, At
<1> QED BY <1>3, <1>4, <1>5

LEMMA StepAuthOK == TypeOK /\ AuthOK /\ [Next]_vars => AuthOK'
<1> SUFFICES ASSUME TypeOK, AuthOK, [Next]_vars PROVE AuthOK'
  OBVIOUS
<1>1. ASSUME NEW r \in Requests, Serve(r) \/ Crash(r) PROVE AuthOK'
  <2>1. CASE ReadGrants(r) \/ ReadConfig(r) \/ Candidates(r) \/ Adjudicate(r)
    BY <2>1, ReadGrantsAuth, ReadConfigAuth, CandidatesAuth, AdjudicateAuth
  <2>2. CASE \/ Unbound(r) \/ Deny(r) \/ CheckSpend(r) \/ Count(r) \/ Credential(r)
             \/ Unusable(r) \/ Record(r) \/ Raise(r) \/ Crash(r)
    <3>1. /\ req'[r].pc \notin {"grants", "configs", "bind", "spend"}
          /\ \A q \in Requests \ {r} : req'[q] = req[q]
      <4>1. CASE CheckSpend(r)
        BY <4>1, CheckSpendMoves DEF MovesOn, Moves
      <4>2. CASE Count(r) \/ Credential(r)
        BY <4>2 DEF Count, Credential, Goto, TypeOK, Held
      <4>3. CASE Unbound(r) \/ Deny(r) \/ Unusable(r) \/ Record(r) \/ Raise(r) \/ Crash(r)
        <5>1. Leave(r)
          BY <4>3 DEF Unbound, Deny, Unusable, Record, Raise, Crash
        <5> QED BY <5>1 DEF Leave, Idle, TypeOK
      <4> QED BY <2>2, <4>1, <4>2, <4>3
    <3>2. UNCHANGED admin
      BY <2>2 DEF Unbound, Deny, CheckSpend, Count, Credential, Unusable, Record,
         Raise, Crash
    <3> QED BY <3>1, <3>2, PastTheDoor, OthersAuth
  <2> QED BY <1>1, <2>1, <2>2 DEF Serve
<1>2. CASE Midnight \/ Outage \/ Recover \/ UNCHANGED vars
  <2>1. UNCHANGED <<req, grants, config>>
    BY <1>2 DEF Midnight, Outage, Recover, vars, admin
  <2> QED BY <2>1 DEF AuthOK, AuthOf, Arriving, At, Granted, Allowing
<1> QED BY <1>1, <1>2, ArriveAuth, RegrantAuth, EditAuth DEF Next, World

LEMMA Authority == Spec => [](TypeOK /\ AuthOK)
<1>1. Init => TypeOK /\ AuthOK
  BY InitTypeOK, InitAuthOK
<1>2. TypeOK /\ AuthOK /\ [Next]_vars => (TypeOK /\ AuthOK)'
  BY StepTypeOK, StepAuthOK
<1> QED BY <1>1, <1>2, PTL DEF Spec

\* No call runs on a permission its bearer did not have since it arrived,
\* whatever administrators do between its queries.
THEOREM FreshAuthority == Spec => []NoStaleAuthority
<1>1. TypeOK /\ AuthOK => NoStaleAuthority
  BY DEF AuthOK, AuthOf, NoStaleAuthority
<1> QED BY <1>1, Authority, PTL

\* The union rule survives edits between the reads of one call.
THEOREM UnionRule == Spec => []FirstAllowWins
<1>1. TypeOK /\ AuthOK => FirstAllowWins
  BY DEF AuthOK, AuthOf, FirstAllowWins
<1> QED BY <1>1, Authority, PTL

\* A call is judged by the grants and the configurations of its own time, whatever
\* administrators do between its queries.
THEOREM CurrentAuthority == Spec => []AuthorityIsCurrent
BY FreshAuthority, UnionRule, PTL DEF AuthorityIsCurrent
=============================================================================
