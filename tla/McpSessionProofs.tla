-------------------------- MODULE McpSessionProofs --------------------------
(***************************************************************************)
(* The safety properties of McpSession hold for any number of threads,     *)
(* calls, expiries and faults, over either transport.                      *)
(*                                                                         *)
(* The argument.  The lock's holder is the one thread that exchanges       *)
(* messages, and ids are never given twice, so the reply under the id it   *)
(* waits for is the reply to its own message (Awaited).  A tools/call is   *)
(* posted only while the call is untouched: it has not run, and no message *)
(* that could still run it is on its way (Untouched).  It is posted again  *)
(* only after the server turned the first message away, which leaves it    *)
(* untouched.  So at most one message that could run a call is ever on its *)
(* way, and none once it ran, was answered, or was reported as unsent; an  *)
(* answer, result or error, is read by the thread whose message it answers *)
(* (Settled).  A session the server knows is ready, was cut short, or is   *)
(* being opened by the holder, who posts no call meanwhile (Opening).      *)
(***************************************************************************)
EXTENDS McpSession, SequenceTheorems, TLAPS

-----------------------------------------------------------------------------
(* The strengthening.                                                      *)

\* No message on its way could run the call.
Unsent(c) == \A m \in pending : m.what = "call" => m.call # c

\* ... and it has not run.
Untouched(c) == executed[c] = 0 /\ Unsent(c)

Numbered ==
    /\ \A m \in pending : m.id \in 1 .. nextId /\ m.sid \in 0 .. sessions
    /\ \A i \in 1 .. Len(inbox) : inbox[i].id \in 1 .. nextId /\ inbox[i].sid \in 0 .. sessions
    /\ \A m, n \in pending : m.id = n.id => m = n
    /\ \A i, j \in 1 .. Len(inbox) : inbox[i].id = inbox[j].id => i = j
    /\ \A m \in pending, i \in 1 .. Len(inbox) : inbox[i].id # m.id

\* Of the messages on their way at most one could run a given call, and only if it has
\* not run.
OneWillRun ==
    /\ \A m \in pending : m.what = "call" => executed[m.call] = 0
    /\ \A m, n \in pending : m.what = "call" /\ n.what = "call" /\ m.call = n.call => m = n

\* The calls a thread has not made yet, and the one it is making.
CallsAhead(t) ==
    /\ \A n \in 1 .. MaxCalls[t] : n > made[t] =>
          /\ Untouched(<<t, n>>) /\ outcome[<<t, n>>] = "none" /\ tries[<<t, n>>] = 0
    /\ pc[t] # "idle" => made[t] >= 1 /\ outcome[CallOf(t)] = "none"
    /\ pc[t] = "blocked" => Untouched(CallOf(t)) /\ tries[CallOf(t)] = 0
    /\ pc[t] = "send" =>
          /\ Untouched(CallOf(t)) /\ tries[CallOf(t)] <= 1
          /\ what[t] = "call" /\ ~ retrying[t] => tries[CallOf(t)] = 0
    /\ pc[t] = "await" =>
          /\ what[t] # "call" => Untouched(CallOf(t))
          /\ what[t] # "call" \/ ~ retrying[t] => tries[CallOf(t)] <= 1

LockHeld == \A t \in Threads : pc[t] \in {"send", "await"} <=> holder = t

\* What a thread waits for is the answer to its own message, and says what became of it.
Answered(t, i) ==
    /\ inbox[i].call = CallOf(t)
    /\ what[t] # "init" => inbox[i].sid = 0
    /\ what[t] = "note" => inbox[i].verdict # "error"
    /\ what[t] = "call" =>
          /\ Unsent(CallOf(t))
          /\ inbox[i].verdict = "ok" => executed[CallOf(t)] = 1
          /\ inbox[i].verdict \in {"expired", "refused"} => executed[CallOf(t)] = 0
    /\ what[t] = "note" /\ inbox[i].verdict = "ok" => ready \/ sid # srv \/ sid = 0

Awaited(t) ==
    pc[t] = "await" =>
        /\ waitFor[t] \in 1 .. nextId
        /\ \A m \in pending : m.id = waitFor[t] =>
              m.what = what[t] /\ m.call = CallOf(t) /\ m.sid = sid
        /\ \A i \in 1 .. Len(inbox) : inbox[i].id = waitFor[t] => Answered(t, i)

\* A session that is known and not ready was cut short, or is being opened.
Opening ==
    sid # 0 /\ sid = srv /\ ~ ready =>
        \/ srv \in cut
        \/ \E t \in Threads : pc[t] \in {"send", "await"} /\ what[t] = "note"

Settled ==
    \A c \in Calls :
        /\ executed[c] <= 1
        /\ outcome[c] = "unsent" => Untouched(c)
        /\ outcome[c] = "ok" => executed[c] = 1
        /\ outcome[c] \in {"ok", "error"} => answer[c] = c /\ Unsent(c)

IInv ==
    /\ TypeOK
    /\ LockHeld
    /\ Numbered
    /\ OneWillRun
    /\ \A t \in Threads : CallsAhead(t)
    /\ \A t \in Threads : Awaited(t)
    /\ NoReplyStolen
    /\ Opening /\ HandshakeUnbroken
    /\ Settled

-----------------------------------------------------------------------------
(* Calls, types and the inbox.                                             *)

LEMMA CallsMade ==
    ASSUME NEW t \in Threads, NEW n \in 1 .. MaxCalls[t]
    PROVE  <<t, n>> \in Calls
BY DEF Calls

LEMMA CallsAre ==
    ASSUME NEW c \in Calls
    PROVE  \E t \in Threads : \E n \in 1 .. MaxCalls[t] : c = <<t, n>>
BY DEF Calls

\* A thread that is busy is busy with a call of its own.
LEMMA BusyCall ==
    ASSUME IInv, NEW t \in Threads, pc[t] # "idle"
    PROVE  /\ made[t] \in 1 .. MaxCalls[t]
           /\ CallOf(t) \in Calls /\ CallOf(t) = <<t, made[t]>>
           /\ outcome[CallOf(t)] = "none"
<1>1. made[t] \in Nat /\ made[t] <= MaxCalls[t] /\ made[t] >= 1 /\ outcome[CallOf(t)] = "none"
  BY DEF IInv, TypeOK, CallsAhead
<1>2. made[t] \in 1 .. MaxCalls[t]
  BY <1>1, McpAssumption
<1> QED
  BY <1>1, <1>2, CallsMade DEF CallOf

\* A call that is not a thread's present one is made before or after it, or by another.
LEMMA OtherCalls ==
    ASSUME NEW t \in Threads, NEW u \in Threads, NEW n, <<u, n>> # CallOf(t)
    PROVE  u # t \/ n # made[t]
BY DEF CallOf

LEMMA UnreadIs ==
    ASSUME inbox \in Seq(Replies), NEW i \in 1 .. Len(inbox)
    PROVE  /\ Unread(i) \in Seq(Replies)
           /\ Len(Unread(i)) = Len(inbox) - 1
           /\ \A j \in 1 .. Len(inbox) - 1 :
                 Unread(i)[j] = IF j < i THEN inbox[j] ELSE inbox[j + 1]
<1> DEFINE n == Len(inbox)
           a == SubSeq(inbox, 1, i - 1)
           b == SubSeq(inbox, i + 1, n)
<1>1. n \in Nat /\ i \in 1 .. n /\ i - 1 \in 0 .. n
  BY LenProperties
<1>2. /\ a \in Seq(Replies) /\ Len(a) = i - 1
      /\ \A j \in 1 .. i - 1 : a[j] = inbox[j]
  BY <1>1, SubSeqProperties
<1>3. /\ b \in Seq(Replies) /\ Len(b) = n - i
      /\ \A j \in 1 .. n - i : b[j] = inbox[j + i]
  <2>1. CASE i = n
    BY <1>1, <2>1, SubSeqProperties
  <2>2. CASE i < n
    BY <1>1, <2>2, SubSeqProperties
  <2> QED
    BY <1>1, <2>1, <2>2
<1>4. Unread(i) = a \o b
  BY DEF Unread
<1> HIDE DEF a, b
<1>5. /\ a \o b \in Seq(Replies) /\ Len(a \o b) = Len(a) + Len(b)
      /\ \A j \in 1 .. Len(a) + Len(b) :
            (a \o b)[j] = IF j <= Len(a) THEN a[j] ELSE b[j - Len(a)]
  BY <1>2, <1>3, ConcatProperties
<1>6. Len(a) + Len(b) = n - 1
  BY <1>1, <1>2, <1>3
<1>7. ASSUME NEW j \in 1 .. n - 1
      PROVE  (a \o b)[j] = IF j < i THEN inbox[j] ELSE inbox[j + 1]
  <2>1. (a \o b)[j] = IF j <= i - 1 THEN a[j] ELSE b[j - (i - 1)]
    BY <1>2, <1>5, <1>6
  <2>2. CASE j < i
    <3>1. j \in 1 .. i - 1
      BY <1>1, <2>2
    <3> QED
      BY <1>1, <1>2, <2>1, <2>2, <3>1
  <2>3. CASE ~ (j < i)
    <3>1. j - (i - 1) \in 1 .. n - i /\ (j - (i - 1)) + i = j + 1
      BY <1>1, <2>3
    <3>2. b[j - (i - 1)] = inbox[j + 1]
      BY <1>3, <3>1
    <3> QED
      BY <1>1, <2>1, <2>3, <3>2
  <2> QED
    BY <2>2, <2>3
<1> QED
  BY <1>4, <1>5, <1>6, <1>7

\* What is left when a reply is read: every other reply, once.
LEMMA InboxLeft ==
    ASSUME inbox \in Seq(Replies), NEW i \in 1 .. Len(inbox), inbox' = Unread(i)
    PROVE  /\ inbox' \in Seq(Replies)
           /\ \E f \in [1 .. Len(inbox') -> 1 .. Len(inbox)] :
                 /\ \A j \in 1 .. Len(inbox') : inbox'[j] = inbox[f[j]] /\ f[j] # i
                 /\ \A j, k \in 1 .. Len(inbox') : f[j] = f[k] => j = k
                 /\ \A k \in 1 .. Len(inbox) \ {i} : \E j \in 1 .. Len(inbox') : f[j] = k
<1>1. /\ inbox' \in Seq(Replies) /\ Len(inbox') = Len(inbox) - 1 /\ Len(inbox) \in Nat
      /\ \A j \in 1 .. Len(inbox') : inbox'[j] = IF j < i THEN inbox[j] ELSE inbox[j + 1]
  BY UnreadIs, LenProperties
<1> DEFINE f == [j \in 1 .. Len(inbox') |-> IF j < i THEN j ELSE j + 1]
<1>2. /\ f \in [1 .. Len(inbox') -> 1 .. Len(inbox)]
      /\ \A j \in 1 .. Len(inbox') : inbox'[j] = inbox[f[j]] /\ f[j] # i
      /\ \A j, k \in 1 .. Len(inbox') : f[j] = f[k] => j = k
  BY <1>1
<1>3. ASSUME NEW k \in 1 .. Len(inbox) \ {i} PROVE \E j \in 1 .. Len(inbox') : f[j] = k
  <2>1. CASE k < i
    <3>1. k \in 1 .. Len(inbox') /\ f[k] = k
      BY <1>1, <2>1
    <3> QED
      BY <3>1
  <2>2. CASE k > i
    <3>1. k - 1 \in 1 .. Len(inbox') /\ f[k - 1] = k
      BY <1>1, <2>2
    <3> QED
      BY <3>1
  <2> QED
    BY <2>1, <2>2
<1> QED
  BY <1>1, <1>2, <1>3

\* The inbox with a reply read, or as it was, is numbered as it was.
LEMMA NumberedLess ==
    ASSUME TypeOK, Numbered, UNCHANGED <<pending, nextId, sessions>>,
           inbox' = inbox \/ \E i \in 1 .. Len(inbox) : inbox' = Unread(i)
    PROVE  Numbered' /\ inbox' \in Seq(Replies)
<1>1. CASE inbox' = inbox
  BY <1>1 DEF Numbered, TypeOK
<1>2. ASSUME NEW i \in 1 .. Len(inbox), inbox' = Unread(i)
      PROVE  Numbered' /\ inbox' \in Seq(Replies)
  <2>0. inbox \in Seq(Replies)
    BY DEF TypeOK
  <2>1. PICK f \in [1 .. Len(inbox') -> 1 .. Len(inbox)] :
            /\ \A j \in 1 .. Len(inbox') : inbox'[j] = inbox[f[j]] /\ f[j] # i
            /\ \A j, k \in 1 .. Len(inbox') : f[j] = f[k] => j = k
            /\ \A k \in 1 .. Len(inbox) \ {i} : \E j \in 1 .. Len(inbox') : f[j] = k
    BY <1>2, <2>0, InboxLeft
  <2>2. inbox' \in Seq(Replies)
    BY <1>2, <2>0, InboxLeft
  <2>3. \A j \in 1 .. Len(inbox') : f[j] \in 1 .. Len(inbox)
    OBVIOUS
  <2>4. \A j \in 1 .. Len(inbox') :
            /\ inbox'[j].id \in 1 .. nextId /\ inbox'[j].sid \in 0 .. sessions
            /\ \A m \in pending : inbox'[j].id # m.id
    <3> SUFFICES ASSUME NEW j \in 1 .. Len(inbox')
                 PROVE  /\ inbox'[j].id \in 1 .. nextId /\ inbox'[j].sid \in 0 .. sessions
                        /\ \A m \in pending : inbox'[j].id # m.id
      OBVIOUS
    <3>1. PICK k \in 1 .. Len(inbox) : inbox'[j] = inbox[k]
      BY <2>1, <2>3
    <3> QED
      BY <3>1 DEF Numbered
  <2>5. \A j, k \in 1 .. Len(inbox') : inbox'[j].id = inbox'[k].id => j = k
    <3> SUFFICES ASSUME NEW j \in 1 .. Len(inbox'), NEW k \in 1 .. Len(inbox'),
                        inbox'[j].id = inbox'[k].id
                 PROVE  j = k
      OBVIOUS
    <3>1. /\ f[j] \in 1 .. Len(inbox) /\ f[k] \in 1 .. Len(inbox)
          /\ inbox'[j] = inbox[f[j]] /\ inbox'[k] = inbox[f[k]]
      BY <2>1, <2>3
    <3>2. inbox[f[j]].id = inbox[f[k]].id
      BY <3>1
    <3>3. f[j] = f[k]
      BY <3>1, <3>2 DEF Numbered
    <3> QED
      BY <2>1, <3>3
  <2> QED
    BY <2>2, <2>4, <2>5 DEF Numbered
<1> QED
  BY <1>1, <1>2

-----------------------------------------------------------------------------
(* The client.                                                             *)

\* The variables a thread's step leaves alone, or moves within their types.
LEMMA Typed ==
    ASSUME TypeOK
    PROVE  /\ holder \in Threads \cup {NoThread}
           /\ pc \in [Threads -> {"idle", "blocked", "send", "await"}]
           /\ what \in [Threads -> {"call", "init", "note"}]
           /\ retrying \in [Threads -> BOOLEAN]
           /\ made \in [Threads -> Nat] /\ \A t \in Threads : made[t] <= MaxCalls[t]
           /\ nextId \in Nat
           /\ waitFor \in [Threads -> 0 .. nextId]
           /\ sessions \in Nat /\ sid \in 0 .. sessions /\ srv \in 0 .. sessions
           /\ cut \subseteq 0 .. sessions
           /\ ready \in BOOLEAN
           /\ pending \subseteq Messages
           /\ inbox \in Seq(Replies) /\ stalled \in BOOLEAN
           /\ executed \in [Calls -> Nat] /\ tries \in [Calls -> 0 .. 2]
           /\ outcome \in [Calls -> {"none", "ok", "error", "unsent", "unknown"}]
           /\ answer \in [Calls -> Calls \cup {NoCall}]
           /\ kind \in Kinds
           /\ faults \in 0 .. MaxFaults /\ expiries \in 0 .. MaxExpiries
BY DEF TypeOK

\* While one thread holds the lock the others neither send nor wait.
LEMMA OthersRest ==
    ASSUME IInv, NEW t \in Threads, pc[t] \in {"send", "await"}, NEW u \in Threads \ {t}
    PROVE  holder = t /\ pc[u] \notin {"send", "await"}
BY DEF IInv, LockHeld

\* A thread that makes a call takes one that is ahead of it.
LEMMA AskKeeps ==
    ASSUME IInv, NEW t \in Threads, Ask(t)
    PROVE  IInv'
<1>1. /\ UNCHANGED <<holder, what, retrying, nextId, waitFor, sid, srv, ready, sessions, cut,
                     pending, inbox, stalled, executed, tries, outcome, answer, kind, faults,
                     expiries>>
      /\ pc[t] = "idle" /\ made[t] < MaxCalls[t]
  BY DEF Ask, serverVars, wireVars, callVars, boundVars
<1>2. /\ pc' \in [Threads -> {"idle", "blocked", "send", "await"}]
      /\ pc'[t] = "blocked" /\ \A u \in Threads \ {t} : pc'[u] = pc[u]
  BY Typed DEF Ask, IInv
<1>3. /\ made' \in [Threads -> Nat] /\ made'[t] = made[t] + 1
      /\ \A u \in Threads \ {t} : made'[u] = made[u]
  BY Typed DEF Ask, IInv
<1>4. TypeOK'
  <2>1. ASSUME NEW u \in Threads PROVE made'[u] <= MaxCalls[u]
    <3>1. made[u] \in Nat /\ made[u] <= MaxCalls[u] /\ MaxCalls[u] \in Nat
      BY Typed, McpAssumption DEF IInv
    <3>2. CASE u = t
      BY <1>1, <1>3, <3>1, <3>2
    <3>3. CASE u # t
      BY <1>3, <3>1, <3>3
    <3> QED
      BY <3>2, <3>3
  <2> QED
    BY <1>1, <1>2, <1>3, <2>1 DEF IInv, TypeOK
<1>5. LockHeld'
  BY <1>1, <1>2 DEF IInv, LockHeld
<1>6. Numbered' /\ OneWillRun' /\ Settled'
  BY <1>1 DEF IInv, Numbered, OneWillRun, Settled, Untouched, Unsent
<1>7. ASSUME NEW u \in Threads \ {t} PROVE CallsAhead(u)' /\ Awaited(u)'
  <2>1. CallsAhead(u) /\ Awaited(u) /\ CallOf(u)' = CallOf(u)
    BY <1>3 DEF IInv, CallOf
  <2>2. CallsAhead(u)'
    BY <1>1, <1>2, <1>3, <2>1 DEF CallsAhead, Untouched, Unsent
  <2>3. Awaited(u)'
    BY <1>1, <1>2, <2>1 DEF Awaited, Answered, Unsent
  <2> QED
    BY <2>2, <2>3
<1>8. CallsAhead(t)' /\ Awaited(t)'
  <2>1. /\ made[t] + 1 \in 1 .. MaxCalls[t] /\ made[t] + 1 > made[t]
        /\ CallOf(t)' = <<t, made[t] + 1>>
    <3>1. made[t] \in Nat /\ MaxCalls[t] \in Nat
      BY Typed, McpAssumption DEF IInv
    <3>2. made[t] + 1 \in 1 .. MaxCalls[t] /\ made[t] + 1 > made[t]
      BY <1>1, <3>1
    <3> QED
      BY <1>3, <3>2 DEF CallOf
  <2>2. /\ Untouched(<<t, made[t] + 1>>) /\ outcome[<<t, made[t] + 1>>] = "none"
        /\ tries[<<t, made[t] + 1>>] = 0
    BY <2>1 DEF IInv, CallsAhead
  <2>3. \A n \in 1 .. MaxCalls[t] : n > made'[t] =>
           /\ Untouched(<<t, n>>) /\ outcome[<<t, n>>] = "none" /\ tries[<<t, n>>] = 0
    <3>1. made[t] \in Nat /\ MaxCalls[t] \in Nat
      BY Typed, McpAssumption DEF IInv
    <3>2. \A n \in 1 .. MaxCalls[t] : n > made'[t] => n > made[t]
      BY <1>3, <3>1
    <3> QED
      BY <3>2 DEF IInv, CallsAhead
  <2>4. CallsAhead(t)'
    <3>1. made'[t] >= 1
      BY <1>3, Typed DEF IInv
    <3> QED
      BY <1>1, <1>2, <2>1, <2>2, <2>3, <3>1 DEF CallsAhead, Untouched, Unsent
  <2> QED
    BY <1>2, <2>4 DEF Awaited
<1>9. NoReplyStolen'
  BY <1>1, <1>2, <1>3 DEF IInv, NoReplyStolen, CallOf
<1>10. Opening' /\ HandshakeUnbroken'
  <2>1. \A u \in Threads : pc[u] \in {"send", "await"} => pc'[u] = pc[u]
    BY <1>1, <1>2
  <2> QED
    BY <1>1, <2>1 DEF IInv, Opening, HandshakeUnbroken, Knows
<1> QED
  BY <1>4, <1>5, <1>6, <1>7, <1>8, <1>9, <1>10 DEF IInv

\* A thread that neither sends nor waits is as it was if nothing happened to its calls.
LEMMA RestingKeeps ==
    ASSUME IInv, NEW u \in Threads, pc[u] \notin {"send", "await"},
           pc'[u] = pc[u], made'[u] = made[u],
           \A n \in 1 .. MaxCalls[u] :
              /\ executed'[<<u, n>>] = executed[<<u, n>>]
              /\ outcome'[<<u, n>>] = outcome[<<u, n>>]
              /\ tries'[<<u, n>>] = tries[<<u, n>>]
              /\ Unsent(<<u, n>>) => Unsent(<<u, n>>)'
    PROVE  CallsAhead(u)' /\ Awaited(u)'
<1>1. CallsAhead(u) /\ made[u] \in Nat /\ made[u] <= MaxCalls[u] /\ MaxCalls[u] \in Nat
  BY Typed, McpAssumption DEF IInv
<1>2. pc[u] # "idle" => made[u] \in 1 .. MaxCalls[u]
  BY <1>1 DEF CallsAhead
<1>3. CallOf(u) = <<u, made[u]>> /\ CallOf(u)' = <<u, made[u]>>
  BY DEF CallOf
<1>4. CallsAhead(u)'
  BY <1>1, <1>2, <1>3 DEF CallsAhead, Untouched
<1>5. Awaited(u)'
  BY DEF Awaited
<1> QED
  BY <1>4, <1>5

LEMMA BeginKeeps ==
    ASSUME IInv, NEW t \in Threads, Begin(t)
    PROVE  IInv'
<1>1. /\ UNCHANGED <<made, nextId, waitFor, sid, srv, ready, sessions, cut, pending, inbox,
                     stalled, executed, tries, outcome, answer, kind, faults, expiries>>
      /\ pc[t] = "blocked" /\ holder = NoThread /\ holder' = t
  BY DEF Begin, serverVars, wireVars, callVars, boundVars
<1>2. /\ pc' \in [Threads -> {"idle", "blocked", "send", "await"}]
      /\ pc'[t] = "send" /\ \A u \in Threads \ {t} : pc'[u] = pc[u]
      /\ what' \in [Threads -> {"call", "init", "note"}]
      /\ what'[t] = "call" /\ \A u \in Threads \ {t} : what'[u] = what[u]
  BY Typed DEF Begin, Turn, IInv
<1>3. /\ retrying' \in [Threads -> BOOLEAN]
  BY Typed DEF Begin, IInv
<1>4. \A u \in Threads : pc[u] \notin {"send", "await"}
  BY <1>1, NoThreadAssumption DEF IInv, LockHeld
<1>5. TypeOK'
  BY <1>1, <1>2, <1>3 DEF IInv, TypeOK
<1>6. LockHeld'
  BY <1>1, <1>2, <1>4 DEF LockHeld
<1>7. Numbered' /\ OneWillRun' /\ Settled'
  BY <1>1 DEF IInv, Numbered, OneWillRun, Settled, Untouched, Unsent
<1>8. \A u \in Threads \ {t} : CallsAhead(u)' /\ Awaited(u)'
  BY <1>1, <1>2, <1>4, RestingKeeps DEF Unsent
<1>9. CallsAhead(t)' /\ Awaited(t)'
  <2>1. CallsAhead(t) /\ CallOf(t)' = CallOf(t)
    BY <1>1 DEF IInv, CallOf
  <2>2. CallsAhead(t)'
    BY <1>1, <1>2, <2>1 DEF CallsAhead, Untouched, Unsent
  <2> QED
    BY <1>2, <2>2 DEF Awaited
<1>10. NoReplyStolen'
  BY <1>2, <1>4 DEF NoReplyStolen
<1>11. Opening' /\ HandshakeUnbroken'
  BY <1>1, <1>4 DEF IInv, Opening, HandshakeUnbroken, Knows
<1> QED
  BY <1>5, <1>6, <1>7, <1>8, <1>9, <1>10, <1>11 DEF IInv

\* A request ends and the lock is released.  A handshake it leaves half done is cut short,
\* "unsent" is only said of a call that is untouched, "ok" only of one that ran, and an
\* answer is the call's own.
LEMMA EndKeeps ==
    ASSUME IInv, NEW t \in Threads, pc[t] \in {"send", "await"},
           NEW how \in {"ok", "error", "unsent", "unknown"}, Finish(t, how),
           UNCHANGED <<what, retrying, made, nextId, waitFor, srv, ready, sessions, pending,
                       executed, tries, kind, expiries>>,
           faults' \in 0 .. MaxFaults, stalled' \in BOOLEAN,
           inbox' = inbox \/ \E i \in 1 .. Len(inbox) : inbox' = Unread(i),
           sid' \in 0 .. sessions, sid' \in {sid, 0} \cup cut',
           cut \subseteq cut', cut' \subseteq 0 .. sessions,
           what[t] = "note" => sid \in cut',
           answer' \in [Calls -> Calls \cup {NoCall}],
           \A c \in Calls : c # CallOf(t) => answer'[c] = answer[c],
           how = "unsent" => Untouched(CallOf(t)),
           how = "ok" => executed[CallOf(t)] = 1,
           how \in {"ok", "error"} => answer'[CallOf(t)] = CallOf(t) /\ Unsent(CallOf(t))
    PROVE  IInv'
<1>1. /\ pc' \in [Threads -> {"idle", "blocked", "send", "await"}]
      /\ pc'[t] = "idle" /\ \A u \in Threads \ {t} : pc'[u] = pc[u]
      /\ holder' = NoThread
  BY Typed DEF Finish, IInv
<1>2. CallOf(t) \in Calls /\ CallOf(t) = <<t, made[t]>>
  BY BusyCall
<1>3. /\ outcome' \in [Calls -> {"none", "ok", "error", "unsent", "unknown"}]
      /\ outcome'[CallOf(t)] = how
      /\ \A c \in Calls : c # CallOf(t) => outcome'[c] = outcome[c]
  BY <1>2, Typed DEF Finish, IInv
<1>4. \A u \in Threads : u # t => pc[u] \notin {"send", "await"}
  BY OthersRest
<1>5. \A u \in Threads : pc'[u] \notin {"send", "await"}
  BY <1>1, <1>4
<1>6. Numbered' /\ inbox' \in Seq(Replies)
  BY NumberedLess DEF IInv
<1>7. TypeOK'
  BY <1>1, <1>3, <1>6 DEF IInv, TypeOK
<1>8. LockHeld'
  BY <1>1, <1>5, NoThreadAssumption DEF LockHeld
<1>9. OneWillRun'
  BY DEF IInv, OneWillRun
<1>10. ASSUME NEW u \in Threads \ {t} PROVE CallsAhead(u)' /\ Awaited(u)'
  <2>1. \A n \in 1 .. MaxCalls[u] : <<u, n>> \in Calls /\ <<u, n>> # CallOf(t)
    BY <1>2, CallsMade
  <2> QED
    BY <1>1, <1>3, <1>4, <2>1, RestingKeeps DEF Unsent
<1>11. CallsAhead(t)' /\ Awaited(t)'
  <2>1. \A n \in 1 .. MaxCalls[t] : n > made[t] => <<t, n>> \in Calls /\ <<t, n>> # CallOf(t)
    BY <1>2, CallsMade, Typed DEF IInv
  <2>2. CallsAhead(t)
    BY DEF IInv
  <2>3. CallsAhead(t)'
    BY <1>1, <1>3, <2>1, <2>2 DEF CallsAhead, Untouched, Unsent
  <2> QED
    BY <1>1, <2>3 DEF Awaited
<1>12. NoReplyStolen'
  BY <1>5 DEF NoReplyStolen
<1>13. Opening'
  <2>1. \A u \in Threads : pc[u] \in {"send", "await"} => u = t
    BY <1>4
  <2>2. sid # 0 /\ sid = srv /\ ~ ready => srv \in cut'
    BY <2>1 DEF IInv, Opening
  <2> QED
    BY <2>2 DEF Opening
<1>14. HandshakeUnbroken'
  BY DEF IInv, HandshakeUnbroken, Knows
<1>15. Settled'
  <2>1. ASSUME NEW c \in Calls
        PROVE  /\ executed'[c] <= 1
               /\ outcome'[c] = "unsent" => Untouched(c)
               /\ outcome'[c] = "ok" => executed[c] = 1
               /\ outcome'[c] \in {"ok", "error"} => answer'[c] = c /\ Unsent(c)
    BY <1>2, <1>3 DEF IInv, Settled
  <2> QED
    BY <2>1 DEF Settled, Untouched, Unsent
<1> QED
  BY <1>6, <1>7, <1>8, <1>9, <1>10, <1>11, <1>12, <1>13, <1>14, <1>15 DEF IInv

\* A reply moves the exchange on: the holder sends its next message.
LEMMA TurnKeeps ==
    ASSUME IInv, NEW t \in Threads, pc[t] = "await",
           NEW message \in {"call", "init", "note"}, Turn(t, message),
           UNCHANGED <<holder, made, nextId, waitFor, srv, ready, sessions, cut, pending,
                       executed, tries, outcome, answer, kind, faults, expiries>>,
           retrying' \in [Threads -> BOOLEAN], stalled' \in BOOLEAN,
           NEW i \in 1 .. Len(inbox), inbox' = Unread(i),
           sid' \in 0 .. sessions,
           Untouched(CallOf(t)), tries[CallOf(t)] <= 1,
           message = "call" => retrying'[t],
           Opening'
    PROVE  IInv'
<1>1. /\ pc' \in [Threads -> {"idle", "blocked", "send", "await"}]
      /\ pc'[t] = "send" /\ \A u \in Threads \ {t} : pc'[u] = pc[u]
      /\ what' \in [Threads -> {"call", "init", "note"}] /\ what'[t] = message
  BY Typed DEF Turn, IInv
<1>2. \A u \in Threads \ {t} : pc[u] \notin {"send", "await"}
  BY OthersRest
<1>3. Numbered' /\ inbox' \in Seq(Replies)
  BY NumberedLess DEF IInv
<1>4. TypeOK'
  BY <1>1, <1>3 DEF IInv, TypeOK
<1>5. LockHeld'
  BY <1>1 DEF IInv, LockHeld
<1>6. OneWillRun' /\ Settled'
  BY DEF IInv, OneWillRun, Settled, Untouched, Unsent
<1>7. \A u \in Threads \ {t} : CallsAhead(u)' /\ Awaited(u)'
  BY <1>1, <1>2, RestingKeeps DEF Unsent
<1>8. CallsAhead(t)' /\ Awaited(t)'
  <2>1. CallsAhead(t) /\ CallOf(t)' = CallOf(t)
    BY DEF IInv, CallOf
  <2>2. CallsAhead(t)'
    BY <1>1, <2>1 DEF CallsAhead, Untouched, Unsent
  <2> QED
    BY <1>1, <2>2 DEF Awaited
<1>9. NoReplyStolen'
  BY <1>1, <1>2 DEF NoReplyStolen
<1>10. HandshakeUnbroken'
  BY DEF IInv, HandshakeUnbroken, Knows
<1> QED
  BY <1>3, <1>4, <1>5, <1>6, <1>7, <1>8, <1>9, <1>10 DEF IInv

\* The message posted is new, and it is the only one that could run the call.
LEMMA PostKeeps ==
    ASSUME IInv, NEW t \in Threads, Post(t)
    PROVE  IInv'
<1> DEFINE new == [id |-> nextId + 1, what |-> what[t], call |-> CallOf(t), sid |-> sid]
<1>1. /\ UNCHANGED <<holder, what, retrying, made, sid, srv, ready, sessions, cut, inbox,
                     stalled, executed, outcome, answer, kind, faults, expiries>>
      /\ pc[t] = "send" /\ nextId' = nextId + 1 /\ pending' = pending \cup {new}
  BY DEF Post, serverVars, boundVars
<1>2. /\ pc' \in [Threads -> {"idle", "blocked", "send", "await"}]
      /\ pc'[t] = "await" /\ \A u \in Threads \ {t} : pc'[u] = pc[u]
  BY Typed DEF Post, IInv
<1>3. waitFor' \in [Threads -> 0 .. nextId'] /\ waitFor'[t] = nextId + 1
  BY <1>1, Typed DEF Post, IInv
<1>4. /\ CallOf(t) \in Calls /\ CallOf(t) = <<t, made[t]>> /\ CallOf(t)' = CallOf(t)
      /\ made[t] \in 1 .. MaxCalls[t] /\ outcome[CallOf(t)] = "none"
  BY <1>1, BusyCall DEF CallOf
<1>5. Untouched(CallOf(t)) /\ tries[CallOf(t)] \in 0 .. 1
  <2>1. Untouched(CallOf(t)) /\ tries[CallOf(t)] <= 1
    BY <1>1 DEF IInv, CallsAhead
  <2> QED
    BY <1>4, <2>1, Typed DEF IInv
<1>6. /\ tries' \in [Calls -> 0 .. 2]
      /\ \A c \in Calls : c # CallOf(t) => tries'[c] = tries[c]
      /\ what[t] = "call" => tries'[CallOf(t)] = tries[CallOf(t)] + 1
      /\ what[t] # "call" => tries'[CallOf(t)] = tries[CallOf(t)]
  <2>1. tries[CallOf(t)] + 1 \in 0 .. 2
    BY <1>5
  <2> QED
    BY <1>4, <2>1, Typed DEF Post, IInv
<1>7. \A u \in Threads \ {t} : pc[u] \notin {"send", "await"}
  BY <1>1, OthersRest
<1>8. new \in Messages /\ new.id = nextId + 1 /\ new.what = what[t] /\ new.call = CallOf(t)
      /\ new.sid = sid
  BY <1>4, Typed DEF IInv, Messages
<1> HIDE DEF new
<1>9. \A c \in Calls : c # CallOf(t) /\ Unsent(c) => Unsent(c)'
  BY <1>1, <1>8 DEF Unsent
<1>10. TypeOK'
  <2>1. pending' \subseteq Messages
    BY <1>1, <1>8, Typed DEF IInv
  <2>2. nextId' \in Nat
    BY <1>1, Typed DEF IInv
  <2> QED
    BY <1>1, <1>2, <1>3, <1>6, <2>1, <2>2 DEF IInv, TypeOK
<1>11. LockHeld'
  BY <1>1, <1>2 DEF IInv, LockHeld
<1>12. Numbered'
  <2>0. nextId \in Nat /\ sid \in 0 .. sessions
    BY Typed DEF IInv
  <2>1. \A m \in pending : m.id \in 1 .. nextId /\ m.sid \in 0 .. sessions /\ m.id # new.id
    BY <1>8, <2>0 DEF IInv, Numbered
  <2>2. \A j \in 1 .. Len(inbox) :
           inbox[j].id \in 1 .. nextId /\ inbox[j].sid \in 0 .. sessions /\ inbox[j].id # new.id
    BY <1>8, <2>0 DEF IInv, Numbered
  <2>3. 1 .. nextId \subseteq 1 .. nextId' /\ new.id \in 1 .. nextId'
    BY <1>1, <1>8, <2>0
  <2>4. \A m \in pending' : m.id \in 1 .. nextId' /\ m.sid \in 0 .. sessions'
    BY <1>1, <1>8, <2>0, <2>1, <2>3
  <2>5. \A j \in 1 .. Len(inbox') : inbox'[j].id \in 1 .. nextId' /\ inbox'[j].sid \in 0 .. sessions'
    BY <1>1, <2>2, <2>3
  <2>6. \A m, n \in pending' : m.id = n.id => m = n
    BY <1>1, <2>1 DEF IInv, Numbered
  <2>7. \A m \in pending', j \in 1 .. Len(inbox') : inbox'[j].id # m.id
    BY <1>1, <2>2 DEF IInv, Numbered
  <2>8. \A j, k \in 1 .. Len(inbox') : inbox'[j].id = inbox'[k].id => j = k
    BY <1>1 DEF IInv, Numbered
  <2> QED
    BY <2>4, <2>5, <2>6, <2>7, <2>8 DEF Numbered
<1>13. OneWillRun'
  BY <1>1, <1>5, <1>8 DEF IInv, OneWillRun, Untouched, Unsent
<1>14. ASSUME NEW u \in Threads \ {t} PROVE CallsAhead(u)' /\ Awaited(u)'
  <2>1. \A n \in 1 .. MaxCalls[u] : <<u, n>> \in Calls /\ <<u, n>> # CallOf(t)
    BY <1>4, CallsMade
  <2> QED
    BY <1>1, <1>2, <1>6, <1>7, <1>9, <2>1, RestingKeeps
<1>15. CallsAhead(t)'
  <2>1. \A n \in 1 .. MaxCalls[t] : n > made[t] => <<t, n>> \in Calls /\ <<t, n>> # CallOf(t)
    BY <1>4, CallsMade, Typed DEF IInv
  <2>2. \A n \in 1 .. MaxCalls[t] : n > made[t] =>
           /\ Untouched(<<t, n>>)' /\ outcome[<<t, n>>] = "none" /\ tries'[<<t, n>>] = 0
    BY <1>1, <1>6, <1>9, <2>1 DEF IInv, CallsAhead, Untouched
  <2>3. what[t] # "call" => Untouched(CallOf(t))'
    BY <1>1, <1>4, <1>5, <1>8 DEF Untouched, Unsent
  <2>4. what[t] = "call" /\ ~ retrying[t] => tries[CallOf(t)] = 0
    BY <1>1 DEF IInv, CallsAhead
  <2>5. what[t] # "call" \/ ~ retrying[t] => tries'[CallOf(t)] <= 1
    BY <1>5, <1>6, <2>4
  <2> QED
    BY <1>1, <1>2, <1>4, <2>2, <2>3, <2>5 DEF CallsAhead
<1>16. Awaited(t)'
  <2>1. nextId + 1 \in 1 .. nextId' /\ nextId \in Nat
    BY <1>1, Typed DEF IInv
  <2>2. \A m \in pending' : m.id = nextId + 1 => m = new
    BY <1>1, <2>1 DEF IInv, Numbered
  <2>3. \A j \in 1 .. Len(inbox') : inbox'[j].id # nextId + 1
    BY <1>1, <2>1 DEF IInv, Numbered
  <2>4. \A m \in pending' : m.id = waitFor'[t] =>
           m.what = what[t] /\ m.call = CallOf(t) /\ m.sid = sid
    BY <1>3, <1>8, <2>2
  <2> QED
    BY <1>1, <1>3, <1>4, <2>1, <2>3, <2>4 DEF Awaited
<1>17. NoReplyStolen'
  <2>1. \A u \in Threads : pc'[u] = "await" => u = t
    BY <1>2, <1>7
  <2>2. new \in pending' /\ new.id = waitFor'[t] /\ new.call = CallOf(t)'
    BY <1>1, <1>3, <1>4, <1>8
  <2> QED
    BY <2>1, <2>2 DEF NoReplyStolen
<1>18. Opening'
  <2>1. \A u \in Threads : pc[u] \in {"send", "await"} => pc'[u] \in {"send", "await"}
    BY <1>1, <1>2
  <2> QED
    BY <1>1, <2>1 DEF IInv, Opening
<1>19. HandshakeUnbroken'
  <2>1. what[t] = "call" /\ sid # 0 /\ sid = srv => ready \/ srv \in cut
    BY <1>7 DEF IInv, Opening
  <2>2. \A m \in pending : m.what = "call" /\ m.sid # 0 /\ m.sid = srv => ready \/ srv \in cut
    BY DEF IInv, HandshakeUnbroken, Knows
  <2> QED
    BY <1>1, <1>8, <2>1, <2>2 DEF HandshakeUnbroken, Knows
<1>20. Settled'
  BY <1>1, <1>4, <1>9 DEF IInv, Settled, Untouched
<1> QED
  BY <1>10, <1>11, <1>12, <1>13, <1>14, <1>15, <1>16, <1>17, <1>18, <1>19, <1>20 DEF IInv

LEMMA CannotConnectKeeps ==
    ASSUME IInv, NEW t \in Threads, CannotConnect(t)
    PROVE  IInv'
<1>1. /\ pc[t] = "send" /\ Finish(t, "unsent")
      /\ UNCHANGED <<what, retrying, made, nextId, waitFor, sid, srv, ready, sessions, pending,
                     inbox, executed, tries, answer, kind, expiries>>
      /\ cut' = IF what[t] = "note" THEN cut \cup {sid} ELSE cut
      /\ faults < MaxFaults /\ faults' = faults + 1 /\ stalled' = FALSE
  BY DEF CannotConnect, Raise
<1>2. faults' \in 0 .. MaxFaults
  <2>1. faults \in 0 .. MaxFaults /\ MaxFaults \in Nat
    BY Typed, McpAssumption DEF IInv
  <2> QED
    BY <1>1, <2>1
<1>3. Untouched(CallOf(t))
  BY <1>1 DEF IInv, CallsAhead
<1>4. /\ answer' \in [Calls -> Calls \cup {NoCall}] /\ sid \in 0 .. sessions
      /\ cut' \subseteq 0 .. sessions
  BY <1>1, Typed DEF IInv
<1> QED
  BY <1>1, <1>2, <1>3, <1>4, EndKeeps

\* A TransportError raised while the thread waits for its reply.
LEMMA RefusedKeeps ==
    ASSUME IInv, NEW t \in Threads, pc[t] = "await",
           NEW delivered \in BOOLEAN, Refused(t, delivered),
           ~ delivered => Untouched(CallOf(t)),
           UNCHANGED <<made, nextId, waitFor, srv, ready, sessions, pending, executed, tries,
                       kind, faults, expiries>>,
           stalled' \in BOOLEAN,
           inbox' = inbox \/ \E i \in 1 .. Len(inbox) : inbox' = Unread(i)
    PROVE  IInv'
<1> DEFINE how == IF delivered THEN "unknown" ELSE "unsent"
<1>1. /\ Finish(t, how) /\ UNCHANGED <<what, retrying, sid, answer>>
      /\ cut' = IF what[t] = "note" THEN cut \cup {sid} ELSE cut
  BY DEF Refused, Raise
<1>2. /\ how \in {"unsent", "unknown"} /\ (how = "unsent" => Untouched(CallOf(t)))
      /\ faults' \in 0 .. MaxFaults /\ answer' \in [Calls -> Calls \cup {NoCall}]
      /\ sid' \in 0 .. sessions /\ cut' \subseteq 0 .. sessions
  BY <1>1, Typed DEF IInv
<1> HIDE DEF how
<1> QED
  BY <1>1, <1>2, EndKeeps

LEMMA LoseKeeps ==
    ASSUME IInv, NEW t \in Threads, Lose(t)
    PROVE  IInv'
<1>1. /\ pc[t] = "await" /\ Refused(t, TRUE)
      /\ UNCHANGED <<made, nextId, waitFor, srv, ready, sessions, pending, inbox, stalled,
                     executed, tries, kind, faults, expiries>>
  BY DEF Lose, wireVars, boundVars
<1>2. stalled' \in BOOLEAN
  BY <1>1, Typed DEF IInv
<1> QED
  BY <1>1, <1>2, RefusedKeeps

\* A session whose id was read and whose handshake goes no further is cut short.
LEMMA LoseReplyKeeps ==
    ASSUME IInv, NEW t \in Threads, NEW i \in 1 .. Len(inbox), LoseReply(t, i)
    PROVE  IInv'
<1>1. /\ UNCHANGED <<made, nextId, waitFor, srv, ready, sessions, pending, executed, tries,
                     kind, faults, expiries>>
      /\ pc[t] = "await" /\ inbox' = Unread(i) /\ stalled' = FALSE
      /\ Refused(t, TRUE) \/ HeadersOnly(t, inbox[i])
  BY DEF LoseReply, boundVars
<1>2. CASE Refused(t, TRUE)
  BY <1>1, <1>2, RefusedKeeps
<1>3. CASE HeadersOnly(t, inbox[i])
  <2>1. /\ what[t] # "note" /\ Finish(t, "unknown") /\ UNCHANGED <<what, retrying, answer>>
        /\ sid' = IF inbox[i].sid # 0 THEN inbox[i].sid ELSE sid
        /\ cut' = IF what[t] = "init" THEN cut \cup {sid'} ELSE cut
    BY <1>3 DEF HeadersOnly
  <2>2. sid' \in {sid} \cup cut'
    <3>1. inbox[i].id = waitFor[t]
      BY DEF LoseReply, Readable
    <3>2. what[t] # "init" => inbox[i].sid = 0
      BY <1>1, <3>1 DEF IInv, Awaited, Answered
    <3> QED
      BY <2>1, <3>2
  <2>3. sid' \in 0 .. sessions /\ cut' \subseteq 0 .. sessions
    BY <2>1, Typed DEF IInv, Numbered
  <2>4. faults' \in 0 .. MaxFaults /\ answer' \in [Calls -> Calls \cup {NoCall}]
    BY <1>1, <2>1, Typed DEF IInv
  <2> QED
    BY <1>1, <2>1, <2>2, <2>3, <2>4, EndKeeps
<1> QED
  BY <1>1, <1>2, <1>3

\* The holder throws away only what nobody waits for.
LEMMA DiscardKeeps ==
    ASSUME IInv, NEW t \in Threads, NEW i \in 1 .. Len(inbox), Discard(t, i)
    PROVE  IInv'
<1>1. /\ UNCHANGED <<holder, pc, what, retrying, made, nextId, waitFor, sid, srv, ready, sessions,
                     cut, pending, stalled, executed, tries, outcome, answer, kind, faults,
                     expiries>>
      /\ pc[t] = "await" /\ inbox[i].id # waitFor[t] /\ inbox' = Unread(i)
  BY DEF Discard, Mine, clientVars, serverVars, callVars, boundVars
<1>2. Numbered' /\ inbox' \in Seq(Replies)
  BY <1>1, NumberedLess DEF IInv
<1>3. PICK f \in [1 .. Len(inbox') -> 1 .. Len(inbox)] :
            /\ \A j \in 1 .. Len(inbox') : inbox'[j] = inbox[f[j]] /\ f[j] # i
            /\ \A j, k \in 1 .. Len(inbox') : f[j] = f[k] => j = k
            /\ \A k \in 1 .. Len(inbox) \ {i} : \E j \in 1 .. Len(inbox') : f[j] = k
  BY <1>1, Typed, InboxLeft DEF IInv
<1>4. \A j \in 1 .. Len(inbox') : f[j] \in 1 .. Len(inbox)
  OBVIOUS
<1>5. TypeOK' /\ LockHeld' /\ OneWillRun' /\ Opening' /\ HandshakeUnbroken' /\ Settled'
  BY <1>1, <1>2 DEF IInv, TypeOK, LockHeld, OneWillRun, Opening, HandshakeUnbroken, Knows, Settled,
     Untouched, Unsent
<1>6. ASSUME NEW u \in Threads PROVE CallsAhead(u)' /\ Awaited(u)'
  <2>1. CallOf(u)' = CallOf(u)
    BY <1>1 DEF CallOf
  <2>2. CallsAhead(u)'
    BY <1>1, <2>1 DEF IInv, CallsAhead, Untouched, Unsent
  <2>3. ASSUME pc[u] = "await", NEW j \in 1 .. Len(inbox'), inbox'[j].id = waitFor[u]
        PROVE  Answered(u, j)'
    <3>1. PICK k \in 1 .. Len(inbox) : inbox'[j] = inbox[k]
      BY <1>3, <1>4
    <3>2. Answered(u, k)
      BY <2>3, <3>1 DEF IInv, Awaited
    <3> QED
      BY <1>1, <2>1, <3>1, <3>2 DEF Answered, Unsent
  <2>4. Awaited(u)'
    BY <1>1, <2>1, <2>3 DEF IInv, Awaited
  <2> QED
    BY <2>2, <2>4
<1>7. NoReplyStolen'
  <2>1. SUFFICES ASSUME NEW u \in Threads, pc[u] = "await"
                 PROVE  \/ \E m \in pending : m.id = waitFor[u] /\ m.call = CallOf(u)
                        \/ \E j \in 1 .. Len(inbox') :
                              inbox'[j].id = waitFor[u] /\ inbox'[j].call = CallOf(u)
    BY <1>1 DEF NoReplyStolen, CallOf
  <2>2. u = t
    BY <1>1, <2>1, OthersRest
  <2>3. ASSUME NEW k \in 1 .. Len(inbox), inbox[k].id = waitFor[u], inbox[k].call = CallOf(u)
        PROVE  \E j \in 1 .. Len(inbox') :
                              inbox'[j].id = waitFor[u] /\ inbox'[j].call = CallOf(u)
    <3>1. k # i
      BY <1>1, <2>2, <2>3
    <3>2. PICK j \in 1 .. Len(inbox') : f[j] = k
      BY <1>3, <3>1
    <3> QED
      BY <1>3, <2>3, <3>2
  <2> QED
    BY <2>1, <2>3 DEF IInv, NoReplyStolen
<1> QED
  BY <1>2, <1>5, <1>6, <1>7 DEF IInv

\* The holder reads the reply to its own message, and believes it.
LEMMA ReceiveKeeps ==
    ASSUME IInv, NEW t \in Threads, NEW i \in 1 .. Len(inbox), Receive(t, i)
    PROVE  IInv'
<1>1. /\ UNCHANGED <<made, nextId, waitFor, srv, ready, sessions, pending, executed, tries,
                     kind, faults, expiries>>
      /\ pc[t] = "await" /\ inbox[i].id = waitFor[t] /\ inbox' = Unread(i) /\ stalled' = FALSE
  BY DEF Receive, Mine, boundVars
<1>2. Answered(t, i)
  BY <1>1 DEF IInv, Awaited
<1>3. inbox[i] \in Replies /\ inbox[i].sid \in 0 .. sessions
  <2>1. inbox \in Seq(Replies)
    BY Typed DEF IInv
  <2>2. inbox[i] \in Replies
    BY <2>1, ElementOfSeq
  <2> QED
    BY <2>2 DEF IInv, Numbered
<1>4. /\ CallOf(t) \in Calls /\ executed[CallOf(t)] \in Nat
      /\ what[t] \in {"call", "init", "note"} /\ retrying[t] \in BOOLEAN
  BY <1>1, BusyCall, Typed DEF IInv
<1>5. /\ what[t] # "call" => Untouched(CallOf(t))
      /\ what[t] # "call" \/ ~ retrying[t] => tries[CallOf(t)] <= 1
  BY <1>1 DEF IInv, CallsAhead
<1>6. /\ faults' \in 0 .. MaxFaults /\ retrying \in [Threads -> BOOLEAN]
      /\ sid \in 0 .. sessions /\ 0 \in 0 .. sessions
      /\ answer \in [Calls -> Calls \cup {NoCall}] /\ cut \subseteq 0 .. sessions
  BY <1>1, Typed DEF IInv
<1>7. ASSUME NEW how \in {"ok", "error"}, Conclude(t, how, inbox[i]), what[t] # "note",
              Unsent(CallOf(t)), how = "ok" => executed[CallOf(t)] = 1
       PROVE  IInv'
  <2>1. /\ Finish(t, how) /\ answer' = [answer EXCEPT ![CallOf(t)] = inbox[i].call]
        /\ UNCHANGED <<what, retrying, cut, sid>>
    BY <1>7 DEF Conclude
  <2>2. inbox[i].call = CallOf(t)
    BY <1>2 DEF Answered
  <2>3. /\ answer' \in [Calls -> Calls \cup {NoCall}] /\ answer'[CallOf(t)] = CallOf(t)
        /\ \A c \in Calls : c # CallOf(t) => answer'[c] = answer[c]
    BY <1>4, <1>6, <2>1, <2>2
  <2> QED
    BY <1>1, <1>6, <1>7, <2>1, <2>3, EndKeeps
<1>8. CASE inbox[i].verdict = "ok"
  <2>1. Proceed(t, inbox[i])
    BY <1>8 DEF Receive
  <2>2. CASE what[t] = "call"
    <3>1. Conclude(t, "ok", inbox[i])
      BY <2>1, <2>2 DEF Proceed
    <3>2. executed[CallOf(t)] = 1 /\ Unsent(CallOf(t))
      BY <1>2, <1>8, <2>2 DEF Answered
    <3> QED
      BY <1>7, <2>2, <3>1, <3>2
  <2>3. CASE what[t] = "init"
    <3>1. /\ Turn(t, "note") /\ sid' = inbox[i].sid
          /\ UNCHANGED <<holder, retrying, outcome, answer, cut>>
      BY <2>1, <2>3 DEF Proceed
    <3>2. pc'[t] = "send" /\ what'[t] = "note"
      BY <3>1, Typed DEF Turn, IInv
    <3>3. Opening'
      BY <3>2 DEF Opening
    <3> QED
      BY <1>1, <1>3, <1>5, <1>6, <2>3, <3>1, <3>3, TurnKeeps
  <2>4. CASE what[t] = "note"
    <3>1. /\ Turn(t, "call") /\ retrying' = [retrying EXCEPT ![t] = TRUE]
          /\ UNCHANGED <<holder, outcome, answer, cut, sid>>
      BY <2>1, <2>4 DEF Proceed
    <3>2. retrying' \in [Threads -> BOOLEAN] /\ retrying'[t]
      BY <1>6, <3>1
    <3>3. ready \/ sid # srv \/ sid = 0
      BY <1>2, <1>8, <2>4 DEF Answered
    <3>4. Opening'
      BY <1>1, <3>1, <3>3 DEF Opening
    <3> QED
      BY <1>1, <1>5, <1>6, <2>4, <3>1, <3>2, <3>4, TurnKeeps
  <2> QED
    BY <1>4, <2>2, <2>3, <2>4
<1>9. CASE inbox[i].verdict = "expired"
  <2>1. Expired(t)
    BY <1>9 DEF Receive
  <2>2. Untouched(CallOf(t))
    BY <1>2, <1>5, <1>9 DEF Answered, Untouched
  <2>3. CASE what[t] = "call" /\ ~ retrying[t]
    <3>1. /\ Turn(t, "init") /\ sid' = 0
          /\ UNCHANGED <<holder, retrying, outcome, answer, cut>>
      BY <2>1, <2>3 DEF Expired
    <3>2. Opening'
      BY <3>1 DEF Opening
    <3> QED
      BY <1>1, <1>5, <1>6, <2>2, <2>3, <3>1, <3>2, TurnKeeps
  <2>4. CASE ~ (what[t] = "call" /\ ~ retrying[t])
    <3>1. /\ Finish(t, "unsent") /\ sid' = 0 /\ UNCHANGED <<what, retrying, answer>>
          /\ cut' = IF what[t] = "note" THEN cut \cup {sid} ELSE cut
      BY <2>1, <2>4 DEF Expired, Raise
    <3> QED
      BY <1>1, <1>6, <2>2, <3>1, EndKeeps
  <2> QED
    BY <2>3, <2>4
<1>10. CASE inbox[i].verdict = "refused"
  <2>1. Refused(t, FALSE)
    BY <1>10 DEF Receive
  <2>2. Untouched(CallOf(t))
    BY <1>2, <1>5, <1>10 DEF Answered, Untouched
  <2> QED
    BY <1>1, <2>1, <2>2, RefusedKeeps
<1>11. CASE inbox[i].verdict = "failed"
  <2>1. Refused(t, TRUE)
    BY <1>11 DEF Receive
  <2> QED
    BY <1>1, <2>1, RefusedKeeps
<1>12. CASE inbox[i].verdict = "error"
  <2>1. Conclude(t, "error", inbox[i])
    BY <1>12 DEF Receive
  <2>2. what[t] # "note" /\ Unsent(CallOf(t))
    BY <1>2, <1>4, <1>5, <1>12 DEF Answered, Untouched
  <2> QED
    BY <1>7, <2>1, <2>2
<1> QED
  BY <1>3, <1>8, <1>9, <1>10, <1>11, <1>12 DEF Replies

-----------------------------------------------------------------------------
(* The server.                                                             *)

\* The message handled leaves the wire, its reply is the last of the inbox if anyone waits
\* for it.  A call runs at most once, and "expired" and "refused" are said of a call that
\* did not run; a session is the one there was, or a new one.
LEMMA ServerKeeps ==
    ASSUME IInv, NEW m \in pending, pending' = pending \ {m},
           NEW verdict \in {"ok", "error", "expired", "refused", "failed"}, NEW newSid,
           Reply(m, verdict, newSid),
           m.what # "init" => newSid = 0, m.what = "note" => verdict # "error",
           UNCHANGED <<holder, pc, what, retrying, made, nextId, waitFor, sid, cut, stalled, tries,
                       outcome, answer, kind, expiries>>,
           faults' \in 0 .. MaxFaults,
           sessions' \in Nat, sessions' >= sessions, newSid \in 0 .. sessions',
           ready' \in BOOLEAN,
           (srv' = srv /\ (ready => ready')) \/ (srv' = sessions + 1 /\ sessions' = sessions + 1),
           \/ executed' = executed
           \/ /\ m.what = "call" /\ verdict \in {"ok", "error", "failed"}
              /\ executed' = [executed EXCEPT ![m.call] = @ + 1],
           m.what = "call" /\ verdict = "ok" => executed' = [executed EXCEPT ![m.call] = @ + 1],
           m.what = "note" /\ verdict = "ok" /\ m.sid = sid => ready' \/ sid # srv' \/ sid = 0
    PROVE  IInv'
<1> DEFINE new == [id |-> m.id, verdict |-> verdict, call |-> m.call, sid |-> newSid]
<1>1. /\ m \in Messages /\ m.call \in Calls /\ m.id \in 1 .. nextId /\ m.id \in Nat
      /\ executed \in [Calls -> Nat] /\ nextId \in Nat /\ sessions \in Nat
      /\ inbox \in Seq(Replies) /\ Len(inbox) \in Nat
  <2>1. m \in Messages /\ inbox \in Seq(Replies) /\ executed \in [Calls -> Nat] /\ nextId \in Nat
        /\ sessions \in Nat
    BY Typed DEF IInv
  <2>2. m.id \in 1 .. nextId
    BY DEF IInv, Numbered
  <2> QED
    BY <2>1, <2>2, LenProperties DEF Messages
<1>2. new \in Replies /\ new.id = m.id /\ new.verdict = verdict /\ new.call = m.call
      /\ new.sid = newSid
  BY <1>1 DEF Replies
<1> DEFINE awaited == \E u \in Threads : pc[u] = "await" /\ waitFor[u] = m.id
<1>3. (inbox' = Append(inbox, new)) \/ (inbox' = inbox /\ ~ awaited)
  <2>1. inbox' = IF kind = "http" /\ ~ awaited THEN inbox ELSE Append(inbox, new)
    BY DEF Reply
  <2> QED
    BY <2>1
<1> HIDE DEF new, awaited
<1>4. /\ inbox' \in Seq(Replies)
      /\ \A j \in 1 .. Len(inbox) : j \in 1 .. Len(inbox') /\ inbox'[j] = inbox[j]
      /\ \A j \in 1 .. Len(inbox') :
            j \in 1 .. Len(inbox) \/ (j = Len(inbox) + 1 /\ inbox'[j] = new)
      /\ awaited => \E j \in 1 .. Len(inbox') : inbox'[j] = new
  <2>1. CASE inbox' = Append(inbox, new)
    <3>1. /\ inbox' \in Seq(Replies) /\ Len(inbox') = Len(inbox) + 1
          /\ \A j \in 1 .. Len(inbox) : inbox'[j] = inbox[j]
          /\ inbox'[Len(inbox) + 1] = new
      BY <1>1, <1>2, <2>1, AppendProperties
    <3>2. \A j \in 1 .. Len(inbox') : j \in 1 .. Len(inbox) \/ j = Len(inbox) + 1
      BY <1>1, <3>1
    <3>3. Len(inbox) + 1 \in 1 .. Len(inbox')
      BY <1>1, <3>1
    <3>4. \A j \in 1 .. Len(inbox) : j \in 1 .. Len(inbox')
      BY <1>1, <3>1
    <3> QED
      BY <3>1, <3>2, <3>3, <3>4
  <2>2. CASE inbox' = inbox /\ ~ awaited
    BY <1>1, <2>2
  <2> QED
    BY <1>3, <2>1, <2>2
<1>6. m.what = "call" => executed[m.call] = 0
  BY DEF IInv, OneWillRun
<1>7. /\ executed' \in [Calls -> Nat]
      /\ \A c \in Calls : ~ (m.what = "call" /\ m.call = c) => executed'[c] = executed[c]
      /\ m.what = "call" => executed'[m.call] <= 1
      /\ m.what = "call" /\ verdict = "ok" => executed'[m.call] = 1
      /\ verdict \in {"expired", "refused"} => executed' = executed
  BY <1>1, <1>6
<1>8. \A c \in Calls : Unsent(c) => Unsent(c)'
  BY DEF Unsent
<1>9. m.what = "call" => Unsent(m.call)'
  BY DEF IInv, OneWillRun, Unsent
<1>10. \A c \in Calls : Untouched(c) => Untouched(c)'
  BY <1>7, <1>8 DEF Untouched, Unsent
<1>11. TypeOK'
  <2>0. 0 .. sessions \subseteq 0 .. sessions' /\ sessions + 1 \in 0 .. sessions + 1
    BY <1>1
  <2>1. srv' \in 0 .. sessions' /\ sid' \in 0 .. sessions' /\ cut' \subseteq 0 .. sessions'
    BY <2>0, Typed DEF IInv
  <2>2. pending' \subseteq Messages
    BY Typed DEF IInv
  <2> QED
    BY <1>4, <1>7, <2>1, <2>2 DEF IInv, TypeOK
<1>12. LockHeld'
  BY DEF IInv, LockHeld
<1>13. Numbered'
  <2>1. 0 .. sessions \subseteq 0 .. sessions'
    BY <1>1
  <2>2. \A n \in pending' : n.id \in 1 .. nextId /\ n.sid \in 0 .. sessions' /\ n.id # m.id
    BY <2>1 DEF IInv, Numbered
  <2>3. \A j \in 1 .. Len(inbox') : inbox'[j].id \in 1 .. nextId /\ inbox'[j].sid \in 0 .. sessions'
    <3>1. new.id \in 1 .. nextId /\ new.sid \in 0 .. sessions'
      BY <1>1, <1>2
    <3>2. \A j \in 1 .. Len(inbox) :
             inbox[j].id \in 1 .. nextId /\ inbox[j].sid \in 0 .. sessions'
      BY <2>1 DEF IInv, Numbered
    <3> QED
      BY <1>4, <3>1, <3>2
  <2>4. \A j \in 1 .. Len(inbox) : inbox[j].id # m.id
    BY DEF IInv, Numbered
  <2>5. \A j, k \in 1 .. Len(inbox') : inbox'[j].id = inbox'[k].id => j = k
    <3>1. SUFFICES ASSUME NEW j \in 1 .. Len(inbox'), NEW k \in 1 .. Len(inbox'),
                          inbox'[j].id = inbox'[k].id
                   PROVE  j = k
      OBVIOUS
    <3>2. CASE j \in 1 .. Len(inbox) /\ k \in 1 .. Len(inbox)
      BY <1>4, <3>1, <3>2 DEF IInv, Numbered
    <3>3. CASE j \notin 1 .. Len(inbox) \/ k \notin 1 .. Len(inbox)
      <4>1. \A l \in 1 .. Len(inbox) : inbox'[l].id # m.id
        BY <1>4, <2>4
      <4>2. \A l \in 1 .. Len(inbox') \ 1 .. Len(inbox) :
               l = Len(inbox) + 1 /\ inbox'[l].id = m.id
        BY <1>2, <1>4
      <4> QED
        BY <3>1, <3>3, <4>1, <4>2
    <3> QED
      BY <3>2, <3>3
  <2>6. \A n \in pending', j \in 1 .. Len(inbox') : inbox'[j].id # n.id
    <3>1. SUFFICES ASSUME NEW n \in pending', NEW j \in 1 .. Len(inbox')
                   PROVE  inbox'[j].id # n.id
      OBVIOUS
    <3>2. CASE j \in 1 .. Len(inbox)
      BY <1>4, <3>2 DEF IInv, Numbered
    <3>3. CASE j \notin 1 .. Len(inbox)
      BY <1>2, <1>4, <2>2, <3>3
    <3> QED
      BY <3>2, <3>3
  <2>7. \A n, k \in pending' : n.id = k.id => n = k
    BY DEF IInv, Numbered
  <2> QED
    BY <2>2, <2>3, <2>5, <2>6, <2>7 DEF Numbered
<1>14. OneWillRun'
  <2>1. ASSUME NEW n \in pending', n.what = "call" PROVE executed'[n.call] = 0
    <3>1. n.call \in Calls
      BY Typed DEF IInv, Messages
    <3>2. n \in pending /\ ~ (m.what = "call" /\ m.call = n.call) /\ executed[n.call] = 0
      BY <2>1 DEF IInv, OneWillRun
    <3> QED
      BY <1>7, <3>1, <3>2
  <2> QED
    BY <2>1 DEF IInv, OneWillRun
<1>15. ASSUME NEW u \in Threads PROVE CallsAhead(u)'
  <2>1. CallsAhead(u) /\ CallOf(u)' = CallOf(u)
    BY DEF IInv, CallOf
  <2>2. \A n \in 1 .. MaxCalls[u] : <<u, n>> \in Calls
    BY CallsMade
  <2>3. pc[u] # "idle" => CallOf(u) \in Calls
    BY BusyCall
  <2> QED
    BY <1>10, <2>1, <2>2, <2>3 DEF CallsAhead
<1>16. ASSUME NEW u \in Threads PROVE Awaited(u)'
  <2>1. Awaited(u) /\ CallOf(u)' = CallOf(u)
    BY DEF IInv, CallOf
  <2>2. SUFFICES ASSUME pc[u] = "await"
                 PROVE  /\ waitFor[u] \in 1 .. nextId
                        /\ \A n \in pending' : n.id = waitFor[u] =>
                              n.what = what[u] /\ n.call = CallOf(u) /\ n.sid = sid
                        /\ \A j \in 1 .. Len(inbox') :
                              inbox'[j].id = waitFor[u] => Answered(u, j)'
    BY <2>1 DEF Awaited
  <2>3. CallOf(u) \in Calls
    BY <2>2, BusyCall
  <2>4. ASSUME NEW j \in 1 .. Len(inbox), inbox[j].id = waitFor[u] PROVE Answered(u, j)'
    <3>1. Answered(u, j) /\ inbox'[j] = inbox[j]
      BY <1>4, <2>1, <2>2, <2>4 DEF Awaited
    <3>2. what[u] = "call" => executed'[CallOf(u)] = executed[CallOf(u)]
      BY <1>7, <2>3, <3>1 DEF Answered, Unsent
    <3>3. ready \/ sid # srv \/ sid = 0 => ready' \/ sid # srv' \/ sid = 0
      BY <1>1, Typed DEF IInv
    <3> QED
      BY <1>8, <2>1, <2>3, <3>1, <3>2, <3>3 DEF Answered
  <2>5. ASSUME NEW j \in 1 .. Len(inbox'), inbox'[j] = new, m.id = waitFor[u]
        PROVE  Answered(u, j)'
    <3>1. m.what = what[u] /\ m.call = CallOf(u) /\ m.sid = sid
      BY <2>1, <2>2, <2>5 DEF Awaited
    <3>2. what[u] = "call" =>
             /\ Unsent(CallOf(u))'
             /\ verdict = "ok" => executed'[CallOf(u)] = 1
             /\ verdict \in {"expired", "refused"} => executed'[CallOf(u)] = 0
      BY <1>6, <1>7, <1>9, <2>1, <3>1 DEF Unsent
    <3>3. /\ what[u] = "note" /\ verdict = "ok" => ready' \/ sid # srv' \/ sid = 0
          /\ what[u] # "init" => newSid = 0
          /\ what[u] = "note" => verdict # "error"
      BY <3>1
    <3> QED
      BY <1>2, <2>1, <2>5, <3>1, <3>2, <3>3 DEF Answered
  <2>6. ASSUME NEW j \in 1 .. Len(inbox'), inbox'[j].id = waitFor[u] PROVE Answered(u, j)'
    <3>1. CASE j \in 1 .. Len(inbox)
      BY <1>4, <2>4, <2>6, <3>1
    <3>2. CASE inbox'[j] = new
      BY <1>2, <2>5, <2>6, <3>2
    <3> QED
      BY <1>4, <3>1, <3>2
  <2> QED
    BY <2>1, <2>2, <2>6 DEF Awaited
<1>17. NoReplyStolen'
  <2>1. SUFFICES ASSUME NEW u \in Threads, pc[u] = "await"
                 PROVE  \/ \E n \in pending' : n.id = waitFor[u] /\ n.call = CallOf(u)
                        \/ \E j \in 1 .. Len(inbox') :
                              inbox'[j].id = waitFor[u] /\ inbox'[j].call = CallOf(u)
    BY DEF NoReplyStolen, CallOf
  <2>2. CASE m.id = waitFor[u]
    <3>1. \E j \in 1 .. Len(inbox') : inbox'[j] = new
      BY <1>4, <2>1, <2>2 DEF awaited
    <3>2. m.call = CallOf(u)
      BY <2>1, <2>2 DEF IInv, Awaited
    <3> QED
      BY <1>2, <2>2, <3>1, <3>2
  <2>3. CASE m.id # waitFor[u]
    <3>1. CASE \E n \in pending : n.id = waitFor[u] /\ n.call = CallOf(u)
      BY <2>3, <3>1
    <3>2. CASE \E j \in 1 .. Len(inbox) : inbox[j].id = waitFor[u] /\ inbox[j].call = CallOf(u)
      BY <1>4, <3>2
    <3> QED
      BY <2>1, <3>1, <3>2 DEF IInv, NoReplyStolen
  <2> QED
    BY <2>2, <2>3
<1>18. \A n \in {k.sid : k \in pending} \cup {sid} : n = srv' /\ ~ ready' => srv' = srv /\ ~ ready
  <2>1. \A n \in {k.sid : k \in pending} \cup {sid} : n \in 0 .. sessions
    BY Typed DEF IInv, Numbered
  <2> QED
    BY <1>1, <2>1
<1>19. Opening'
  BY <1>18 DEF IInv, Opening
<1>20. HandshakeUnbroken'
  BY <1>18 DEF IInv, HandshakeUnbroken, Knows
<1>21. Settled'
  <2>1. ASSUME NEW c \in Calls
        PROVE  /\ executed'[c] <= 1
               /\ outcome[c] = "unsent" => Untouched(c)'
               /\ outcome[c] = "ok" => executed'[c] = 1
               /\ outcome[c] \in {"ok", "error"} => answer[c] = c /\ Unsent(c)'
    BY <1>6, <1>7, <1>8, <1>10 DEF IInv, Settled
  <2> QED
    BY <2>1 DEF Settled
<1> QED
  BY <1>11, <1>12, <1>13, <1>14, <1>15, <1>16, <1>17, <1>19, <1>20, <1>21 DEF IInv

LEMMA HandleKeeps ==
    ASSUME IInv, NEW m \in pending, Handle(m)
    PROVE  IInv'
<1>1. /\ pending' = pending \ {m}
      /\ UNCHANGED <<holder, pc, what, retrying, made, nextId, waitFor, sid, cut, stalled, tries,
                     outcome, answer, kind, expiries>>
  BY DEF Handle, clientVars
<1>2. /\ faults \in 0 .. MaxFaults /\ sessions \in Nat /\ 0 \in 0 .. sessions /\ ready \in BOOLEAN
      /\ sid \in 0 .. sessions /\ m.what \in {"call", "init", "note"}
  BY Typed DEF IInv, Messages
<1>3. CASE TurnAway(m)
  <2>1. PICK verdict \in {"expired", "refused"} : Reply(m, verdict, 0)
    BY <1>3 DEF TurnAway
  <2>2. UNCHANGED <<srv, ready, sessions, executed, faults>>
    BY <1>3 DEF TurnAway
  <2> QED
    BY <1>1, <1>2, <2>1, <2>2, ServerKeeps
<1>4. CASE RunCall(m)
  <2>1. /\ UNCHANGED <<srv, ready, sessions, faults>>
        /\ m.what = "call" /\ executed' = [executed EXCEPT ![m.call] = @ + 1]
    BY <1>4 DEF RunCall
  <2>2. PICK verdict \in {"ok", "error"} : Reply(m, verdict, 0)
    BY <1>4 DEF RunCall
  <2>3. /\ sessions' \in Nat /\ sessions' >= sessions /\ 0 \in 0 .. sessions'
        /\ srv' = srv /\ (ready => ready') /\ ready' \in BOOLEAN /\ faults' \in 0 .. MaxFaults
    BY <1>2, <2>1
  <2> QED
    BY <1>1, <2>1, <2>2, <2>3, ServerKeeps
<1>5. CASE Decline(m)
  <2>1. /\ Reply(m, "error", 0) /\ UNCHANGED <<srv, ready, sessions, executed, faults>>
        /\ m.what # "note"
    BY <1>5 DEF Decline
  <2> QED
    BY <1>1, <1>2, <2>1, ServerKeeps
<1>6. CASE OpenSession(m)
  <2>1. /\ Reply(m, "ok", sessions + 1) /\ UNCHANGED <<executed, faults>>
        /\ m.what = "init" /\ sessions' = sessions + 1 /\ srv' = sessions + 1 /\ ready' = FALSE
    BY <1>6 DEF OpenSession
  <2>2. sessions' \in Nat /\ sessions' >= sessions /\ sessions + 1 \in 0 .. sessions'
    BY <1>2, <2>1
  <2> QED
    BY <1>1, <1>2, <2>1, <2>2, ServerKeeps
<1>7. CASE TakeNote(m)
  <2>1. /\ Reply(m, "ok", 0) /\ UNCHANGED <<srv, sessions, executed, faults>>
        /\ m.what = "note" /\ ready' = TRUE
    BY <1>7 DEF TakeNote
  <2> QED
    BY <1>1, <1>2, <2>1, ServerKeeps
<1>8. CASE Break(m)
  <2>1. faults' \in 0 .. MaxFaults /\ UNCHANGED <<srv, ready, sessions>>
    BY <1>2, <1>8, McpAssumption DEF Break
  <2>2. CASE Reply(m, "refused", 0) /\ UNCHANGED executed
    BY <1>1, <1>2, <2>1, <2>2, ServerKeeps
  <2>3. CASE /\ Reply(m, "failed", 0)
             /\ \/ UNCHANGED executed
                \/ m.what = "call" /\ executed' = [executed EXCEPT ![m.call] = @ + 1]
    BY <1>1, <1>2, <2>1, <2>3, ServerKeeps
  <2> QED
    BY <1>8, <2>2, <2>3 DEF Break
<1> QED
  BY <1>3, <1>4, <1>5, <1>6, <1>7, <1>8 DEF Handle

LEMMA ExpireKeeps ==
    ASSUME IInv, Expire
    PROVE  IInv'
<1>1. /\ UNCHANGED <<holder, pc, what, retrying, made, nextId, waitFor, sid, sessions, cut, pending,
                     inbox, stalled, executed, tries, outcome, answer, kind, faults>>
      /\ expiries < MaxExpiries /\ expiries' = expiries + 1 /\ srv' = 0 /\ ready' = FALSE
  BY DEF Expire, clientVars, wireVars, callVars
<1>2. TypeOK'
  <2>1. expiries' \in 0 .. MaxExpiries /\ srv' \in 0 .. sessions'
    BY <1>1, Typed, McpAssumption DEF IInv
  <2> QED
    BY <1>1, <2>1 DEF IInv, TypeOK
<1>3. LockHeld' /\ Numbered' /\ OneWillRun' /\ Settled'
  BY <1>1 DEF IInv, LockHeld, Numbered, OneWillRun, Settled, Untouched, Unsent
<1>4. ASSUME NEW u \in Threads PROVE CallsAhead(u)' /\ Awaited(u)'
  <2>1. CallOf(u)' = CallOf(u)
    BY <1>1 DEF CallOf
  <2>2. CallsAhead(u)'
    BY <1>1, <2>1 DEF IInv, CallsAhead, Untouched, Unsent
  <2>3. Awaited(u)'
    BY <1>1, <2>1 DEF IInv, Awaited, Answered, Unsent
  <2> QED
    BY <2>2, <2>3
<1>5. NoReplyStolen'
  BY <1>1 DEF IInv, NoReplyStolen, CallOf
<1>6. Opening' /\ HandshakeUnbroken'
  BY <1>1 DEF Opening, HandshakeUnbroken, Knows
<1> QED
  BY <1>2, <1>3, <1>4, <1>5, <1>6 DEF IInv

\* Nothing a stall or its end touches is in the argument.
LEMMA StallKeeps ==
    ASSUME IInv, faults' \in 0 .. MaxFaults, stalled' \in BOOLEAN,
           UNCHANGED <<holder, pc, what, retrying, made, nextId, waitFor, sid, srv, ready, sessions,
                       cut, pending, inbox, executed, tries, outcome, answer, kind, expiries>>
    PROVE  IInv'
<1>1. TypeOK' /\ LockHeld' /\ Numbered' /\ OneWillRun' /\ Settled'
  BY DEF IInv, TypeOK, LockHeld, Numbered, OneWillRun, Settled, Untouched, Unsent
<1>2. \A t \in Threads : CallsAhead(t)' /\ Awaited(t)'
  BY DEF IInv, CallsAhead, Awaited, Answered, Untouched, Unsent, CallOf
<1>3. NoReplyStolen' /\ Opening' /\ HandshakeUnbroken'
  BY DEF IInv, NoReplyStolen, Opening, HandshakeUnbroken, Knows, CallOf
<1> QED
  BY <1>1, <1>2, <1>3 DEF IInv

-----------------------------------------------------------------------------
(* The theorems.                                                           *)

LEMMA Start == Init => IInv
<1> SUFFICES ASSUME Init PROVE IInv
  OBVIOUS
<1>1. TypeOK
  <2>1. inbox \in Seq(Replies)
    BY DEF Init
  <2>2. stalled \in BOOLEAN
    BY Zenon DEF Init
  <2> QED
    BY <2>1, <2>2, McpAssumption DEF Init, TypeOK
<1>2. Len(inbox) = 0
  BY DEF Init
<1>3. LockHeld /\ Numbered /\ OneWillRun /\ NoReplyStolen /\ Opening /\ HandshakeUnbroken /\ Settled
  BY <1>2, NoThreadAssumption
     DEF Init, LockHeld, Numbered, OneWillRun, NoReplyStolen, Opening, HandshakeUnbroken, Settled
<1>4. ASSUME NEW t \in Threads PROVE CallsAhead(t) /\ Awaited(t)
  BY CallsMade DEF Init, CallsAhead, Awaited, Untouched, Unsent
<1> QED
  BY <1>1, <1>3, <1>4 DEF IInv

LEMMA Keeps == IInv /\ [Next]_vars => IInv'
<1> SUFFICES ASSUME IInv, [Next]_vars PROVE IInv'
  OBVIOUS
<1>1. ASSUME NEW t \in Threads, Ask(t) PROVE IInv'
  BY <1>1, AskKeeps
<1>2. ASSUME NEW t \in Threads, Step(t) \/ CannotConnect(t) PROVE IInv'
  <2>1. CASE Begin(t) \/ Post(t) \/ CannotConnect(t)
    BY <2>1, BeginKeeps, PostKeeps, CannotConnectKeeps
  <2>2. CASE Wait(t)
    BY <2>2, ReceiveKeeps, DiscardKeeps, LoseReplyKeeps, LoseKeeps DEF Wait
  <2> QED
    BY <1>2, <2>1, <2>2 DEF Step
<1>3. ASSUME NEW m \in pending, Handle(m) PROVE IInv'
  BY <1>3, HandleKeeps
<1>4. CASE Expire
  BY <1>4, ExpireKeeps
<1>5. CASE Stall \/ Resume \/ UNCHANGED vars
  <2>1. UNCHANGED <<holder, pc, what, retrying, made, nextId, waitFor, sid, srv, ready, sessions,
                    cut, pending, inbox, executed, tries, outcome, answer, kind, expiries>>
    BY <1>5 DEF Stall, Resume, vars, clientVars, serverVars, wireVars, callVars, boundVars
  <2>2. faults' \in 0 .. MaxFaults
    <3>1. faults \in 0 .. MaxFaults /\ MaxFaults \in Nat
      BY Typed, McpAssumption DEF IInv
    <3>2. (faults < MaxFaults /\ faults' = faults + 1) \/ faults' = faults
      BY <1>5 DEF Stall, Resume, vars, boundVars
    <3> QED
      BY <3>1, <3>2
  <2>3. stalled' \in BOOLEAN
    <3>1. stalled \in BOOLEAN
      BY Typed DEF IInv
    <3>2. stalled' = TRUE \/ stalled' = FALSE \/ stalled' = stalled
      BY <1>5 DEF Stall, Resume, vars, wireVars
    <3> QED
      BY <3>1, <3>2, Zenon
  <2> QED
    BY <2>1, <2>2, <2>3, StallKeeps
<1> QED
  BY <1>1, <1>2, <1>3, <1>4, <1>5 DEF Next

\* The strengthening is an invariant.
THEOREM Invariance == Spec => []IInv
BY Start, Keeps, PTL DEF Spec

\* Every variable keeps its type: no call is posted more than twice.
\* (Session._request_locked)
THEOREM TypeCorrect == Spec => []TypeOK
<1>1. IInv => TypeOK
  BY DEF IInv
<1> QED
  BY <1>1, Invariance, PTL

\* No call runs twice at the server, whatever is retried.
\* (Session._request_locked)
THEOREM NeverRunTwiceHolds == Spec => []NeverRunTwice
<1>1. IInv => NeverRunTwice
  BY DEF IInv, Settled, NeverRunTwice
<1> QED
  BY <1>1, Invariance, PTL

\* What a call is reported as is what became of it: "unsent" did not run, "ok" ran, a result
\* or an error is the server's answer to it, and nothing but an "unknown" call can still run.
\* (TransportError.delivered, Session.call_tool, StdioTransport._await, _read_sse)
THEOREM OutcomeIsTrueHolds == Spec => []OutcomeIsTrue
<1>1. IInv => OutcomeIsTrue
  BY DEF IInv, Settled, OutcomeIsTrue, Untouched, Unsent
<1> QED
  BY <1>1, Invariance, PTL

\* One exchange at a time: no thread takes the reply another waits for, and no call
\* enters a handshake.  (Session.request, Session.initialize)
THEOREM OneExchangeAtATimeHolds == Spec => []OneExchangeAtATime
<1>1. IInv => OneExchangeAtATime
  BY DEF IInv, OneExchangeAtATime
<1> QED
  BY <1>1, Invariance, PTL
=============================================================================
