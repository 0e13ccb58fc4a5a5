-------------------------- MODULE SessionPoolProofs --------------------------
(* Theorems about the session pool, for any threads, keys, caps and bounds.  *)
EXTENDS SessionPool, FiniteSetTheorems, TLAPS

USE DEF Sessions, NoSession

-----------------------------------------------------------------------------
(* Type correctness.                                                       *)

LEMMA InitTypeOK == Init => TypeOK
<1> SUFFICES ASSUME Init PROVE TypeOK
    OBVIOUS
<1> USE ConstantsAssumption DEF Init
<1>1. PoolTypeOK
    BY DEF PoolTypeOK, Pool
<1>2. SessionTypeOK
    BY DEF SessionTypeOK
<1>3. ThreadTypeOK
    BY DEF ThreadTypeOK, Places
<1> QED BY <1>1, <1>2, <1>3 DEF TypeOK

\* Get writes well-typed values, whichever way it goes.
LEMMA GetTypeOK ==
    ASSUME TypeOK, NEW t \in Threads, ask[t].key \in Keys,
           NEW hit \in Places, NEW miss \in Places, Get(t, hit, miss)
    PROVE  TypeOK'
<1> DEFINE k     == ask[t].key
           after == Without(entries, Expired)
<1>0. Expired \subseteq Keys /\ Expired \subseteq Pool
    BY DEF Expired, Pool
<1>1. /\ entries' = after
      /\ idle' = idle \ Expired
      /\ after \in [Keys -> Sessions \cup {NoSession}]
    BY DEF Get, Without, TypeOK, PoolTypeOK
<1>2. Pool' = Pool \ Expired
    BY <1>0, <1>1 DEF Pool, Without
<1>3. PoolTypeOK'
  <2>1. idle' \subseteq Pool'
    BY <1>1, <1>2 DEF TypeOK, PoolTypeOK
  <2>2. OrderWithout(usedAfter, Expired) \subseteq Pool' \X Pool'
    BY <1>2 DEF OrderWithout, TypeOK, PoolTypeOK
  <2>3. usedAfter' \subseteq Pool' \X Pool'
    <3>1. CASE after[k] # NoSession
      <4>1. k \in Pool'
        BY <3>1, <1>1 DEF Pool
      <4>2. usedAfter' = Touched(OrderWithout(usedAfter, Expired), Pool \ Expired, k)
        BY <3>1 DEF Get
      <4> QED BY <4>1, <4>2, <2>2, <1>2 DEF Touched
    <3>2. CASE after[k] = NoSession
      BY <3>2, <2>2 DEF Get
    <3> QED BY <3>1, <3>2
  <2>4. epoch' = epoch
    BY DEF Get
  <2> QED BY <1>1, <2>1, <2>3, <2>4 DEF PoolTypeOK, TypeOK
<1>4. SessionTypeOK'
  <2>1. SessionsOf(entries, Expired) \in SUBSET Sessions
    BY <1>0 DEF SessionsOf, TypeOK, PoolTypeOK
  <2> QED BY <2>1 DEF Get, TypeOK, SessionTypeOK, sessVars
<1>5. ThreadTypeOK'
  <2>1. after[k] \in Sessions \cup {NoSession}
    BY <1>1
  <2>2. pc' \in [Threads -> Places]
    BY DEF Get, Goto, TypeOK, ThreadTypeOK
  <2>3. got' \in [Threads -> Sessions \cup {NoSession}] /\ reused' \in [Threads -> BOOLEAN]
    BY <2>1 DEF Get, TypeOK, ThreadTypeOK
  <2> QED BY <2>2, <2>3 DEF Get, TypeOK, ThreadTypeOK
<1> QED BY <1>3, <1>4, <1>5 DEF TypeOK

-----------------------------------------------------------------------------
(* The inductive invariant.                                                *)

\* Inside the factory with a server started: the session is the builder's.
Builds(t) == pc[t] \in {"handshake", "put"}

\* A thread that is not idle has asked for a real key.
AskOK == \A t \in Threads : pc[t] # "idle" => ask[t].key \in Keys

\* A thread about to build, use or publish a session has one, of its own key.
HeldOK ==
    \A t \in Threads : pc[t] \in {"handshake", "put", "release", "use", "inflight"} =>
        got[t] \in 1 .. built /\ owner[got[t]] = ask[t].key

\* The pool holds a session under the key it was built for, and so under one.
PooledOK ==
    \A k \in Keys : entries[k] # NoSession =>
        entries[k] \in 1 .. built /\ owner[entries[k]] = k

PoolApart ==
    \A k \in Keys : entries[k] # NoSession =>
        /\ \A t \in Threads : Builds(t) => got[t] # entries[k]
        /\ \A c \in Closers : entries[k] \notin closing[c]
        /\ entries[k] \notin closed \cup abandoned

BuildersApart ==
    \A t \in Threads : Builds(t) =>
        /\ \A u \in Threads : Builds(u) /\ got[u] = got[t] => u = t
        /\ \A c \in Closers : got[t] \notin closing[c]
        /\ got[t] \notin closed \cup abandoned

ClosersApart ==
    \A c \in Closers :
        /\ \A s \in closing[c] : s \in 1 .. built /\ s \notin closed \cup abandoned
        /\ \A d \in Closers : c # d => closing[c] \cap closing[d] = {}

Apart == PoolApart /\ BuildersApart /\ ClosersApart

IInv == TypeOK /\ AskOK /\ HeldOK /\ PooledOK /\ Apart

LEMMA InitIInv == Init => IInv
<1> SUFFICES ASSUME Init PROVE IInv
    OBVIOUS
<1>1. TypeOK
    BY InitTypeOK
<1>2. AskOK /\ HeldOK /\ PooledOK /\ Apart
    BY DEF Init, AskOK, HeldOK, PooledOK, Apart, PoolApart, BuildersApart,
           ClosersApart, Builds
<1> QED BY <1>1, <1>2 DEF IInv

\* Victims that leave the dict for the list of a closer that had none stay apart
\* from everything else, while nobody starts to build.
LEMMA RetireApart ==
    ASSUME IInv, NEW c \in Closers, NEW R \in SUBSET Keys, closing[c] = {},
           entries' = Without(entries, R),
           closing' = [closing EXCEPT ![c] = SessionsOf(entries, R)],
           UNCHANGED sessVars,
           \A t \in Threads : Builds(t)' => Builds(t) /\ got'[t] = got[t]
    PROVE  PooledOK' /\ Apart'
<1> USE DEF IInv, TypeOK, PoolTypeOK, SessionTypeOK, sessVars
<1>1. \A k \in Keys : entries'[k] = (IF k \in R THEN NoSession ELSE entries[k])
    BY DEF Without
<1>2. \A s \in closing'[c] : \E k \in R : s = entries[k] /\ s # NoSession
    BY DEF SessionsOf
<1>3. \A d \in Closers : d # c => closing'[d] = closing[d]
    OBVIOUS
<1>4. PooledOK'
    BY <1>1 DEF PooledOK
<1>5. PoolApart'
  <2> SUFFICES ASSUME NEW k \in Keys, entries'[k] # NoSession
               PROVE  /\ \A t \in Threads : Builds(t)' => got'[t] # entries'[k]
                      /\ \A d \in Closers : entries'[k] \notin closing'[d]
                      /\ entries'[k] \notin closed' \cup abandoned'
      BY DEF PoolApart
  <2>1. k \notin R /\ entries'[k] = entries[k]
      BY <1>1
  <2>2. entries'[k] \notin closing'[c]
      BY <2>1, <1>2 DEF PooledOK
  <2> QED BY <2>1, <2>2, <1>3 DEF Apart, PoolApart
<1>6. BuildersApart'
  <2> SUFFICES ASSUME NEW t \in Threads, Builds(t)'
               PROVE  /\ \A u \in Threads : Builds(u)' /\ got'[u] = got'[t] => u = t
                      /\ \A d \in Closers : got'[t] \notin closing'[d]
                      /\ got'[t] \notin closed' \cup abandoned'
      BY DEF BuildersApart
  <2>1. Builds(t) /\ got'[t] = got[t]
      OBVIOUS
  <2>2. got[t] \notin closing'[c]
    <3>1. \A k \in R : entries[k] # NoSession => got[t] # entries[k]
        BY <2>1 DEF Apart, PoolApart
    <3> QED BY <3>1, <1>2
  <2>3. ASSUME NEW u \in Threads, Builds(u)', got'[u] = got'[t] PROVE u = t
      BY <2>1, <2>3 DEF Apart, BuildersApart
  <2> QED BY <2>1, <2>2, <2>3, <1>3 DEF Apart, BuildersApart
<1>7. ClosersApart'
  <2>1. \A s \in closing'[c] : s \in 1 .. built /\ s \notin closed \cup abandoned
      BY <1>2 DEF Apart, PoolApart, PooledOK
  <2>2. \A d \in Closers : d # c => closing'[c] \cap closing[d] = {}
      BY <1>2 DEF Apart, PoolApart
  <2> QED BY <2>1, <2>2, <1>3 DEF Apart, ClosersApart
<1> QED BY <1>4, <1>5, <1>6, <1>7 DEF Apart

\* Put keeps the dict, its order and its idle marks consistent.
LEMMA PutTypeOK ==
    ASSUME TypeOK, AskOK, HeldOK, NEW t \in Threads, Put(t)
    PROVE  TypeOK'
<1> DEFINE k       == ask[t].key
           written == [entries EXCEPT ![k] = got[t]]
           expired == Expired \ {k}
           pool    == (Pool \cup {k}) \ expired
           order   == Touched(OrderWithout(usedAfter, expired), pool, k)
           shed    == Overflow(order, pool)
           out     == expired \cup shed
<1>0. /\ k \in Keys /\ got[t] \in Sessions \cup {NoSession}
      /\ written \in [Keys -> Sessions \cup {NoSession}]
      /\ expired \subseteq Pool /\ Pool \subseteq Keys /\ pool \subseteq Keys
      /\ shed \subseteq pool /\ out \subseteq Keys
    BY DEF Put, At, AskOK, TypeOK, PoolTypeOK, ThreadTypeOK, Expired, Pool, Overflow
<1>1. /\ entries' = Without(written, out)
      /\ usedAfter' = OrderWithout(order, shed)
      /\ idle' = idle \ (out \cup {k})
      /\ closing' = [closing EXCEPT ![t] = SessionsOf(written, out)]
      /\ pc' = [pc EXCEPT ![t] = "release"]
      /\ UNCHANGED <<epoch, sessVars, ask, got, reused, lockEpoch, result, left>>
    BY DEF Put, Goto
<1>2. entries' \in [Keys -> Sessions \cup {NoSession}]
    BY <1>0, <1>1 DEF Without
<1>3. \A j \in Keys : j # k => (j \in Pool' <=> j \in Pool \ out)
    BY <1>0, <1>1 DEF Without, Pool, TypeOK, PoolTypeOK
<1>4. got[t] # NoSession => (k \in Pool' <=> k \notin out)
    BY <1>0, <1>1 DEF Without, Pool, TypeOK, PoolTypeOK
<1>5. CASE got[t] # NoSession
  <2>1. idle' \subseteq Pool'
    BY <1>0, <1>1, <1>3 DEF TypeOK, PoolTypeOK
  <2>2. pool \ shed \subseteq Pool'
    BY <1>0, <1>3, <1>4, <1>5
  <2>3. order \subseteq pool \X pool
    <3>1. OrderWithout(usedAfter, expired) \subseteq pool \X pool
      BY DEF OrderWithout, TypeOK, PoolTypeOK
    <3>2. k \in pool
      OBVIOUS
    <3> QED BY <3>1, <3>2 DEF Touched
  <2>4. usedAfter' \subseteq Pool' \X Pool'
    BY <2>2, <2>3, <1>1 DEF OrderWithout
  <2>5. PoolTypeOK'
    BY <1>1, <1>2, <2>1, <2>4 DEF PoolTypeOK, TypeOK
  <2>6. SessionTypeOK'
    <3>1. SessionsOf(written, out) \in SUBSET Sessions
      BY <1>0 DEF SessionsOf
    <3> QED BY <3>1, <1>1 DEF TypeOK, SessionTypeOK, sessVars
  <2>7. ThreadTypeOK'
    BY <1>1 DEF TypeOK, ThreadTypeOK, Places
  <2> QED BY <2>5, <2>6, <2>7 DEF TypeOK
<1>6. got[t] # NoSession
    BY DEF Put, At, HeldOK
<1> QED BY <1>5, <1>6

\* A step that moves no session, and makes no builder, keeps all of them apart.
LEMMA QuietApart ==
    ASSUME IInv, UNCHANGED <<entries, built, owner, closed, abandoned, closing>>,
           \A t \in Threads : Builds(t)' => Builds(t) /\ got'[t] = got[t]
    PROVE  PooledOK' /\ Apart'
<1> USE DEF IInv, Apart
<1>1. PooledOK' /\ ClosersApart'
    BY DEF PooledOK, ClosersApart
<1>2. PoolApart'
    BY DEF PoolApart
<1>3. BuildersApart'
    BY DEF BuildersApart
<1> QED BY <1>1, <1>2, <1>3

\* The steps that only move a thread on.
Moves(t) ==
    \/ \E k \in Keys, m \in Modes : Start(t, k, m)
    \/ Queue(t) \/ Acquire(t) \/ Release(t) \/ Ensured(t) \/ Send(t) \/ Await(t)

LEMMA MovesKeep ==
    ASSUME IInv, NEW t \in Threads, Moves(t)
    PROVE  IInv'
<1> USE DEF IInv, TypeOK, ThreadTypeOK, At, Goto, Finish, poolVars, sessVars
<1>1. UNCHANGED <<poolVars, sessVars, closing>>
    BY DEF Moves, Start, Queue, Acquire, Release, Ensured, Send, Await
<1>2. CASE \E k \in Keys, m \in Modes : Start(t, k, m)
  <2>1. PICK k \in Keys, m \in Modes : Start(t, k, m)
      BY <1>2
  <2>2. ThreadTypeOK'
    <3>1. /\ pc' \in [Threads -> Places]
          /\ lockEpoch' \in [Threads -> 0 .. MaxResets]
        BY <2>1 DEF Start, Goto, Places
    <3>2. left' \in [Threads -> 0 .. MaxCalls]
      <4>1. /\ left[t] \in 0 .. MaxCalls /\ left[t] > 0
            /\ left' = [left EXCEPT ![t] = left[t] - 1]
          BY <2>1 DEF Start
      <4>2. left[t] - 1 \in 0 .. MaxCalls
          BY <4>1, ConstantsAssumption
      <4> QED BY <4>1, <4>2
    <3>3. ask' \in [Threads -> [key : Keys \cup {NoKey}, attempt : 1 .. 2,
                               mode : {"call", "connect", "ensure"}]]
        BY <2>1, ConstantsAssumption DEF Start
    <3>4. /\ got' \in [Threads -> Sessions \cup {NoSession}]
          /\ reused' \in [Threads -> BOOLEAN]
          /\ result' \in [Threads -> {"none", "ok", "error", "unknown"}]
        BY <2>1 DEF Start
    <3> QED BY <3>1, <3>2, <3>3, <3>4
  <2>3. AskOK' /\ HeldOK'
      BY <2>1 DEF Start, AskOK, HeldOK
  <2>4. \A u \in Threads : Builds(u)' => Builds(u) /\ got'[u] = got[u]
      BY <2>1 DEF Start, Builds
  <2> QED BY <1>1, <2>2, <2>3, <2>4, QuietApart DEF PoolTypeOK, SessionTypeOK, Pool
<1>3. CASE Queue(t) \/ Acquire(t) \/ Release(t) \/ Ensured(t) \/ Send(t) \/ Await(t)
  <2>1. ThreadTypeOK'
    <3>1. CASE Queue(t)
        BY <3>1 DEF Queue, Places, PoolTypeOK
    <3>4. CASE Acquire(t)
        BY <3>4 DEF Acquire, Places, PoolTypeOK
    <3>5. CASE Release(t)
        BY <3>5 DEF Release, Places, PoolTypeOK
    <3>2. CASE Ensured(t)
        BY <3>2 DEF Ensured, Places
    <3>3. CASE Send(t) \/ Await(t)
        BY <3>3 DEF Send, Await, Fail, Places
    <3> QED BY <1>3, <3>1, <3>2, <3>3, <3>4, <3>5
  <2>2. AskOK' /\ HeldOK'
      BY <1>3 DEF Queue, Acquire, Release, Ensured, Send, Await, Fail, AskOK, HeldOK
  <2>3. \A u \in Threads : Builds(u)' => Builds(u) /\ got'[u] = got[u]
      BY <1>3 DEF Queue, Acquire, Release, Ensured, Send, Await, Fail, Builds
  <2> QED BY <1>1, <2>1, <2>2, <2>3, QuietApart DEF PoolTypeOK, SessionTypeOK, Pool
<1> QED BY <1>2, <1>3 DEF Moves

\* A lookup, from either place it is made.
LEMMA GetKeeps ==
    ASSUME IInv, NEW t \in Threads, closing[t] = {}, pc[t] # "idle",
           NEW hit \in {"use", "release"}, NEW miss \in {"miss", "spawn"},
           Get(t, hit, miss)
    PROVE  IInv'
<1> USE DEF IInv
<1>1. TypeOK'
    BY GetTypeOK DEF AskOK, Places
<1>2. PooledOK' /\ Apart'
  <2>1. Expired \in SUBSET Keys /\ t \in Closers
      BY DEF Expired, Pool, Closers
  <2>2. \A u \in Threads : Builds(u)' => Builds(u) /\ got'[u] = got[u]
      BY DEF Get, Goto, Builds, TypeOK, ThreadTypeOK
  <2> QED BY <2>1, <2>2, RetireApart DEF Get
<1>3. AskOK'
    BY DEF Get, Goto, AskOK, TypeOK, ThreadTypeOK
<1>4. HeldOK'
  <2> DEFINE found == Without(entries, Expired)[ask[t].key]
  <2>1. found # NoSession => found \in 1 .. built /\ owner[found] = ask[t].key
      BY DEF Without, PooledOK, AskOK
  <2>2. CASE found # NoSession
      BY <2>1, <2>2 DEF Get, Goto, HeldOK, sessVars, TypeOK, ThreadTypeOK
  <2>3. CASE found = NoSession
      BY <2>3 DEF Get, Goto, HeldOK, sessVars, TypeOK, ThreadTypeOK
  <2> QED BY <2>2, <2>3
<1> QED BY <1>1, <1>2, <1>3, <1>4

\* The built session enters the dict; what the put drops enters the closer's list.
LEMMA PutKeeps ==
    ASSUME IInv, NEW t \in Threads, Put(t)
    PROVE  IInv'
<1> DEFINE k       == ask[t].key
           written == [entries EXCEPT ![k] = got[t]]
           expired == Expired \ {k}
           pool    == (Pool \cup {k}) \ expired
           order   == Touched(OrderWithout(usedAfter, expired), pool, k)
           out     == expired \cup Overflow(order, pool)
<1> USE DEF IInv
<1>1. TypeOK'
    BY PutTypeOK
<1>2. /\ entries' = Without(written, out)
      /\ closing' = [closing EXCEPT ![t] = SessionsOf(written, out)]
      /\ pc' = [pc EXCEPT ![t] = "release"]
      /\ closing[t] = {} /\ pc[t] = "put"
      /\ UNCHANGED <<sessVars, ask, got>>
    BY DEF Put, Goto, At
<1>3. /\ k \in Keys /\ got[t] \in 1 .. built /\ owner[got[t]] = k
      /\ t \in Closers /\ out \subseteq Keys /\ Builds(t)
    BY <1>2 DEF AskOK, HeldOK, Closers, Expired, Pool, Overflow, Builds
<1>4. \A j \in Keys : written[j] = (IF j = k THEN got[t] ELSE entries[j])
    BY <1>3 DEF TypeOK, PoolTypeOK
<1>5. \A j \in Keys : entries'[j] = (IF j \in out THEN NoSession ELSE written[j])
    BY <1>2 DEF Without
<1>6. \A s \in closing'[t] : \E j \in out : s = written[j] /\ s # NoSession
    BY <1>2, <1>3 DEF SessionsOf, TypeOK, SessionTypeOK
<1>7. \A c \in Closers : c # t => closing'[c] = closing[c]
    BY <1>2 DEF TypeOK, SessionTypeOK
<1>8. \A u \in Threads : Builds(u)' => Builds(u) /\ u # t /\ got'[u] = got[u]
    BY <1>2 DEF Builds, TypeOK, ThreadTypeOK
<1> HIDE DEF k, written, expired, pool, order, out
\* The dict with the new entry still agrees with every other place.
<1>9. ASSUME NEW j \in Keys, written[j] # NoSession
      PROVE  /\ written[j] \in 1 .. built /\ owner[written[j]] = j
             /\ \A u \in Threads : Builds(u)' => got[u] # written[j]
             /\ \A c \in Closers : written[j] \notin closing[c]
             /\ written[j] \notin closed \cup abandoned
  <2>1. CASE j = k
      BY <2>1, <1>3, <1>4, <1>8 DEF Apart, BuildersApart
  <2>2. CASE j # k
      BY <2>2, <1>4, <1>8, <1>9 DEF Apart, PoolApart, PooledOK
  <2> QED BY <2>1, <2>2
<1>10. AskOK' /\ HeldOK'
    BY <1>2 DEF AskOK, HeldOK, sessVars, TypeOK, ThreadTypeOK
<1>11. PooledOK'
    BY <1>2, <1>5, <1>9 DEF PooledOK, sessVars
<1>12. PoolApart'
  <2> SUFFICES ASSUME NEW j \in Keys, entries'[j] # NoSession
               PROVE  /\ \A u \in Threads : Builds(u)' => got'[u] # entries'[j]
                      /\ \A c \in Closers : entries'[j] \notin closing'[c]
                      /\ entries'[j] \notin closed' \cup abandoned'
      BY DEF PoolApart
  <2>1. j \notin out /\ entries'[j] = written[j] /\ written[j] # NoSession
      BY <1>5
  <2>2. written[j] \notin closing'[t]
    <3>1. \A i \in out : written[i] # NoSession => written[i] # written[j]
        BY <2>1, <1>3, <1>9
    <3> QED BY <3>1, <1>6
  <2> QED BY <2>1, <2>2, <1>2, <1>7, <1>8, <1>9 DEF sessVars
<1>13. BuildersApart'
  <2> SUFFICES ASSUME NEW u \in Threads, Builds(u)'
               PROVE  /\ \A v \in Threads : Builds(v)' /\ got'[v] = got'[u] => v = u
                      /\ \A c \in Closers : got'[u] \notin closing'[c]
                      /\ got'[u] \notin closed' \cup abandoned'
      BY DEF BuildersApart
  <2>1. got[u] \notin closing'[t]
      BY <1>3, <1>6, <1>9
  <2> QED BY <2>1, <1>2, <1>7, <1>8 DEF Apart, BuildersApart, sessVars
<1>14. ClosersApart'
  <2>1. \A s \in closing'[t] : s \in 1 .. built /\ s \notin closed \cup abandoned
      BY <1>3, <1>6, <1>9
  <2>2. \A c \in Closers : c # t => closing'[t] \cap closing[c] = {}
      BY <1>3, <1>6, <1>9
  <2> QED BY <2>1, <2>2, <1>2, <1>7 DEF Apart, ClosersApart, sessVars
<1> QED BY <1>1, <1>10, <1>11, <1>12, <1>13, <1>14 DEF Apart

\* A started session is new to every place.
LEMMA SpawnKeeps ==
    ASSUME IInv, NEW t \in Threads, Spawn(t)
    PROVE  IInv'
<1> USE DEF IInv, At, Goto, poolVars
<1>1. CASE built < MaxSessions /\ built' = built + 1
  <2>1. /\ owner' = [owner EXCEPT ![built + 1] = ask[t].key]
        /\ got' = [got EXCEPT ![t] = built + 1]
        /\ reused' = [reused EXCEPT ![t] = FALSE]
        /\ pc' = [pc EXCEPT ![t] = "handshake"]
        /\ UNCHANGED <<poolVars, closed, died, abandoned, closing, ask, lockEpoch, left, result>>
        /\ pc[t] = "spawn" /\ ask[t].key \in Keys
        /\ built \in Nat
      BY <1>1, ConstantsAssumption DEF Spawn, Finish, AskOK, TypeOK, SessionTypeOK
  <2>2. TypeOK'
    <3>1. PoolTypeOK'
        BY <2>1 DEF TypeOK, PoolTypeOK, Pool
    <3>2. SessionTypeOK'
        BY <1>1, <2>1, ConstantsAssumption DEF TypeOK, SessionTypeOK
    <3>3. ThreadTypeOK'
        BY <1>1, <2>1, ConstantsAssumption DEF TypeOK, ThreadTypeOK, Places
    <3> QED BY <3>1, <3>2, <3>3 DEF TypeOK
  <2>3. AskOK' /\ HeldOK'
    <3>1. AskOK'
        BY <2>1 DEF AskOK, TypeOK, ThreadTypeOK
    <3>2. \A s \in 1 .. built : owner'[s] = owner[s]
        BY <1>1, <2>1 DEF TypeOK, SessionTypeOK
    <3>3. built + 1 \in Sessions /\ owner'[built + 1] = ask[t].key
        BY <1>1, <2>1, ConstantsAssumption DEF TypeOK, SessionTypeOK
    <3> SUFFICES ASSUME NEW u \in Threads,
                        pc'[u] \in {"handshake", "put", "release", "use", "inflight"}
                 PROVE  got'[u] \in 1 .. built' /\ owner'[got'[u]] = ask'[u].key
        BY <3>1 DEF HeldOK
    <3>4. CASE u = t
        BY <3>3, <3>4, <1>1, <2>1 DEF TypeOK, ThreadTypeOK
    <3>5. CASE u # t
        BY <3>2, <3>5, <1>1, <2>1 DEF HeldOK, TypeOK, ThreadTypeOK
    <3> QED BY <3>4, <3>5
  <2>4. PooledOK'
      BY <1>1, <2>1 DEF PooledOK, TypeOK, SessionTypeOK
  <2>5. \A u \in Threads : Builds(u)' => u = t \/ (Builds(u) /\ got'[u] = got[u])
      BY <2>1 DEF Builds, TypeOK, ThreadTypeOK
  <2>6. /\ got'[t] = built + 1
        /\ \A k \in Keys : entries[k] # NoSession => entries[k] < built + 1
        /\ \A u \in Threads : Builds(u) => got[u] < built + 1
        /\ \A c \in Closers : built + 1 \notin closing[c]
        /\ built + 1 \notin closed \cup abandoned
      BY <2>1 DEF PooledOK, HeldOK, Builds, Apart, ClosersApart, TypeOK, SessionTypeOK,
                  ThreadTypeOK
  <2>7. PoolApart'
      BY <2>1, <2>5, <2>6 DEF Apart, PoolApart
  <2>8. BuildersApart'
    <3> SUFFICES ASSUME NEW u \in Threads, Builds(u)'
                 PROVE  /\ \A v \in Threads : Builds(v)' /\ got'[v] = got'[u] => v = u
                        /\ \A c \in Closers : got'[u] \notin closing'[c]
                        /\ got'[u] \notin closed' \cup abandoned'
        BY DEF BuildersApart
    <3>1. CASE u = t
        BY <3>1, <2>1, <2>5, <2>6
    <3>2. CASE u # t
        BY <3>2, <2>1, <2>5, <2>6 DEF Apart, BuildersApart
    <3> QED BY <3>1, <3>2
  <2>9. ClosersApart'
      BY <1>1, <2>1 DEF Apart, ClosersApart
  <2> QED BY <2>2, <2>3, <2>4, <2>7, <2>8, <2>9 DEF Apart
<1>2. CASE Finish(t, "error") /\ UNCHANGED <<built, owner, got, reused>>
  <2>1. UNCHANGED <<poolVars, closed, died, abandoned, closing, ask, lockEpoch, left>>
      BY DEF Spawn
  <2>2. TypeOK' /\ AskOK' /\ HeldOK'
      BY <1>2, <2>1 DEF Finish, TypeOK, PoolTypeOK, Pool, SessionTypeOK, ThreadTypeOK, Places,
                        AskOK, HeldOK
  <2>3. \A u \in Threads : Builds(u)' => Builds(u) /\ got'[u] = got[u]
      BY <1>2 DEF Finish, Builds, TypeOK, ThreadTypeOK
  <2> QED BY <1>2, <2>1, <2>2, <2>3, QuietApart
<1> QED BY <1>1, <1>2 DEF Spawn

\* A failed handshake sets its session aside; a good one changes nothing else.
LEMMA HandshakeKeeps ==
    ASSUME IInv, NEW t \in Threads, Handshake(t)
    PROVE  IInv'
<1> USE DEF IInv, At, Goto, Finish, poolVars
<1>1. /\ UNCHANGED <<poolVars, built, owner, closed, died, closing, ask, got, reused,
                     lockEpoch, left>>
      /\ Builds(t) /\ got[t] \in 1 .. built
      /\ pc[t] # "idle" /\ pc[t] = "handshake"
    BY DEF Handshake, Builds, HeldOK
<1>2. \A u \in Threads : Builds(u)' => Builds(u) /\ got'[u] = got[u]
    BY <1>1 DEF Handshake, Builds, TypeOK, ThreadTypeOK
<1>3. AskOK' /\ HeldOK'
    BY <1>1 DEF Handshake, AskOK, HeldOK, TypeOK, ThreadTypeOK
<1>4. PoolTypeOK' /\ ThreadTypeOK'
    BY <1>1 DEF Handshake, TypeOK, PoolTypeOK, Pool, ThreadTypeOK, Places
<1>5. CASE UNCHANGED abandoned
    BY <1>1, <1>2, <1>3, <1>4, <1>5, QuietApart DEF TypeOK, SessionTypeOK
<1>6. CASE abandoned' = abandoned \cup {got[t]} /\ Finish(t, "error")
  <2>1. SessionTypeOK'
      BY <1>1, <1>6 DEF TypeOK, SessionTypeOK
  <2>2. \A u \in Threads : Builds(u)' => Builds(u) /\ got[u] # got[t]
      BY <1>1, <1>6 DEF Builds, Apart, BuildersApart, TypeOK, ThreadTypeOK
  <2>3. PoolApart' /\ PooledOK'
      BY <1>1, <1>2, <1>6 DEF Apart, PoolApart, PooledOK
  <2>4. BuildersApart'
      BY <1>1, <1>2, <1>6, <2>2 DEF Apart, BuildersApart
  <2>5. ClosersApart'
      BY <1>1, <1>6 DEF Apart, BuildersApart, ClosersApart
  <2> QED BY <1>3, <1>4, <2>1, <2>3, <2>4, <2>5 DEF TypeOK, Apart
<1> QED BY <1>5, <1>6 DEF Handshake

\* Retirement by key, by age or by reset, for a closer with nothing left to close.
LEMMA RetireKeeps ==
    ASSUME IInv, NEW c \in Closers, NEW R \in SUBSET Keys, closing[c] = {},
           entries' = Without(entries, R),
           closing' = [closing EXCEPT ![c] = SessionsOf(entries, R)],
           usedAfter' \subseteq OrderWithout(usedAfter, R), idle' \subseteq idle \ R,
           epoch' \in 0 .. MaxResets, UNCHANGED sessVars,
           ThreadTypeOK', AskOK', HeldOK',
           \A t \in Threads : Builds(t)' => Builds(t) /\ got'[t] = got[t]
    PROVE  IInv'
<1> USE DEF IInv
<1>1. PoolTypeOK'
  <2>1. Pool' = Pool \ R /\ entries' \in [Keys -> Sessions \cup {NoSession}]
      BY DEF Pool, Without, TypeOK, PoolTypeOK
  <2> QED BY <2>1 DEF TypeOK, PoolTypeOK, OrderWithout
<1>2. SessionTypeOK'
  <2>1. SessionsOf(entries, R) \in SUBSET Sessions
      BY DEF SessionsOf, TypeOK, PoolTypeOK
  <2> QED BY <2>1 DEF TypeOK, SessionTypeOK, sessVars
<1>3. PooledOK' /\ Apart'
    BY RetireApart
<1> QED BY <1>1, <1>2, <1>3 DEF TypeOK

LEMMA EvictKeeps ==
    ASSUME IInv, NEW t \in Threads, Evict(t)
    PROVE  IInv'
<1> DEFINE k == ask[t].key
<1> USE DEF IInv, At, Goto
<1>1. k \in Keys /\ t \in Closers /\ closing[t] = {} /\ pc[t] = "evict"
    BY DEF Evict, AskOK, Closers
<1>2. /\ entries' = Without(entries, {k})
      /\ closing' = [closing EXCEPT ![t] = SessionsOf(entries, {k})]
      /\ usedAfter' = OrderWithout(usedAfter, {k})
      /\ idle' = idle \ {k}
      /\ ask' = [ask EXCEPT ![t].attempt = 2]
      /\ pc' = [pc EXCEPT ![t] = "lookup"]
      /\ UNCHANGED <<epoch, sessVars, got, reused, lockEpoch, result, left>>
    BY DEF Evict
<1>3. ThreadTypeOK' /\ epoch' \in 0 .. MaxResets
    BY <1>2 DEF TypeOK, ThreadTypeOK, PoolTypeOK, Places
<1>4. \A u \in Threads : ask'[u].key = ask[u].key
    BY <1>2 DEF TypeOK, ThreadTypeOK
<1>5. AskOK'
    BY <1>1, <1>2, <1>4 DEF AskOK, TypeOK, ThreadTypeOK
<1>6. HeldOK'
    BY <1>1, <1>2, <1>4 DEF HeldOK, TypeOK, ThreadTypeOK, sessVars
<1>7. \A u \in Threads : Builds(u)' => Builds(u) /\ got'[u] = got[u]
    BY <1>2 DEF Builds, TypeOK, ThreadTypeOK
<1> HIDE DEF k
<1> QED BY <1>1, <1>2, <1>3, <1>5, <1>6, <1>7, RetireKeeps

\* The steps that belong to no thread.
LEMMA WorldKeeps ==
    ASSUME IInv,
           \/ Prune \/ Reset
           \/ \E k \in Keys : GrowIdle(k)
           \/ \E s \in Sessions : ServerDies(s)
           \/ \E c \in Closers, s \in Sessions : CloseVictim(c, s)
    PROVE  IInv'
<1> USE DEF IInv
<1>0. ASSUME UNCHANGED threadVars, UNCHANGED <<built, owner>>
      PROVE  /\ ThreadTypeOK' /\ AskOK' /\ HeldOK'
             /\ \A t \in Threads : Builds(t)' => Builds(t) /\ got'[t] = got[t]
    BY <1>0 DEF threadVars, TypeOK, ThreadTypeOK, AskOK, HeldOK, Builds
<1>1. CASE Prune
  <2>1. Pruner \in Closers /\ Expired \in SUBSET Keys
      BY DEF Closers, Expired, Pool
  <2> QED BY <1>0, <1>1, <2>1, RetireKeeps DEF Prune, sessVars, TypeOK, PoolTypeOK
<1>2. CASE Reset
  <2>1. Lifespan \in Closers /\ Pool \in SUBSET Keys
      BY DEF Closers, Pool
  <2>2. epoch' \in 0 .. MaxResets
      BY <1>2, ConstantsAssumption DEF Reset, TypeOK, PoolTypeOK
  <2> QED BY <1>0, <1>2, <2>1, <2>2, RetireKeeps DEF Reset, sessVars
<1>3. CASE \E k \in Keys : GrowIdle(k)
  <2>1. UNCHANGED <<entries, usedAfter, epoch, sessVars, closing, threadVars>>
      BY <1>3 DEF GrowIdle
  <2>2. PoolTypeOK' /\ SessionTypeOK'
      BY <1>3 DEF GrowIdle, sessVars, TypeOK, PoolTypeOK, SessionTypeOK, Pool
  <2> QED BY <1>0, <2>1, <2>2, QuietApart DEF sessVars, TypeOK
<1>4. CASE \E s \in Sessions : ServerDies(s)
  <2>1. UNCHANGED <<poolVars, built, owner, closed, abandoned, closing, threadVars>>
      BY <1>4 DEF ServerDies
  <2>2. PoolTypeOK' /\ SessionTypeOK'
      BY <1>4, <2>1 DEF ServerDies, poolVars, TypeOK, PoolTypeOK, SessionTypeOK, Pool
  <2> QED BY <1>0, <2>1, <2>2, QuietApart DEF poolVars, TypeOK
<1>5. CASE \E c \in Closers, s \in Sessions : CloseVictim(c, s)
  <2>1. PICK c \in Closers, s \in Sessions : CloseVictim(c, s)
      BY <1>5
  <2>2. /\ s \in closing[c]
        /\ closing' = [closing EXCEPT ![c] = @ \ {s}]
        /\ closed' = closed \cup {s}
        /\ UNCHANGED <<poolVars, built, owner, died, abandoned, threadVars>>
      BY <2>1 DEF CloseVictim
  <2>3. /\ s \in 1 .. built
        /\ \A k \in Keys : entries[k] # NoSession => entries[k] # s
        /\ \A t \in Threads : Builds(t) => got[t] # s
        /\ \A d \in Closers : d # c => s \notin closing[d]
      BY <2>2 DEF Apart, PoolApart, BuildersApart, ClosersApart
  <2>4. \A d \in Closers : closing'[d] \subseteq closing[d] \ {s}
      BY <2>2, <2>3 DEF TypeOK, SessionTypeOK
  <2>5. PoolTypeOK' /\ SessionTypeOK'
      BY <2>2, <2>3 DEF poolVars, TypeOK, PoolTypeOK, SessionTypeOK, Pool
  <2>6. PooledOK' /\ PoolApart' /\ BuildersApart'
      BY <1>0, <2>2, <2>3, <2>4 DEF Apart, PooledOK, PoolApart, BuildersApart, poolVars
  <2>7. ClosersApart'
      BY <2>2, <2>4 DEF Apart, ClosersApart
  <2> QED BY <1>0, <2>2, <2>5, <2>6, <2>7 DEF TypeOK, Apart
<1> QED BY <1>1, <1>2, <1>3, <1>4, <1>5

LEMMA NextKeeps == IInv /\ [Next]_vars => IInv'
<1> SUFFICES ASSUME IInv, [Next]_vars PROVE IInv'
    OBVIOUS
<1>1. ASSUME NEW t \in Threads, NEW k \in Keys, NEW m \in Modes, Start(t, k, m) PROVE IInv'
    BY <1>1, MovesKeep DEF Moves
<1>2. ASSUME NEW t \in Threads, Step(t) PROVE IInv'
  <2>1. CASE Lookup(t)
      BY <2>1, GetKeeps DEF Lookup, At
  <2>2. CASE Recheck(t)
      BY <2>2, GetKeeps DEF Recheck, At
  <2>3. CASE Spawn(t)
      BY <2>3, SpawnKeeps
  <2>4. CASE Handshake(t)
      BY <2>4, HandshakeKeeps
  <2>5. CASE Put(t)
      BY <2>5, PutKeeps
  <2>6. CASE Evict(t)
      BY <2>6, EvictKeeps
  <2>7. CASE Queue(t) \/ Acquire(t) \/ Release(t) \/ Ensured(t) \/ Send(t) \/ Await(t)
      BY <2>7, MovesKeep DEF Moves
  <2> QED BY <1>2, <2>1, <2>2, <2>3, <2>4, <2>5, <2>6, <2>7 DEF Step
<1>3. CASE UNCHANGED vars
  <2>1. TypeOK' /\ AskOK' /\ HeldOK'
      BY <1>3 DEF vars, poolVars, sessVars, threadVars, IInv, TypeOK, PoolTypeOK, Pool,
                  SessionTypeOK, ThreadTypeOK, AskOK, HeldOK
  <2>2. PooledOK' /\ Apart'
      BY <1>3, QuietApart DEF vars, poolVars, sessVars, threadVars, Builds
  <2> QED BY <2>1, <2>2 DEF IInv
<1> QED BY <1>1, <1>2, <1>3, WorldKeeps DEF Next

LEMMA Invariance == Spec => []IInv
<1> QED BY InitIInv, NextKeeps, PTL DEF Spec

-----------------------------------------------------------------------------
(* The theorems.                                                           *)

\* Every variable keeps its type in every behaviour of the pool.
THEOREM TypeCorrect == Spec => []TypeOK
<1>1. IInv => TypeOK
    BY DEF IInv
<1> QED BY <1>1, Invariance, PTL

\* A session is in one place only, however threads, sweeps and resets interleave:
\* SessionPool never serves a session it has closed, nor closes one twice.
THEOREM SessionsInOnePlace == Spec => []OnePlace
<1>1. IInv => OnePlace
    BY DEF IInv, OnePlace, PooledOK, Apart, PoolApart, BuildersApart, ClosersApart,
           Pooled, BeingBuilt, BuiltBy, AboutToClose, Builds
<1> QED BY <1>1, Invariance, PTL

\* A call never goes out on a session made for another credential.
THEOREM CallsNeverBorrow == Spec => []NeverBorrowed
<1>1. IInv => NeverBorrowed
    BY DEF IInv, HeldOK, NeverBorrowed
<1> QED BY <1>1, Invariance, PTL

\* However threads, sweeps and resets interleave, sessions are kept apart from one another
\* and from other callers.
THEOREM KeptApart == Spec => []SessionsStayApart
BY SessionsInOnePlace, CallsNeverBorrow, PTL DEF SessionsStayApart

-----------------------------------------------------------------------------
(* Building once, and forgetting nothing, until reset() replaces the locks. *)

InFactory(t) == pc[t] \in {"spawn", "handshake", "put"}

\* Until the first reset a building lock is one lock, its holder is alone with
\* its key, and a holder that went past the second check found the key free.
LockInv ==
    epoch = 0 =>
        /\ \A t \in Threads : lockEpoch[t] = 0
        /\ \A t, u \in Threads : t # u /\ Holds(t) /\ Holds(u) => ask[t].key # ask[u].key
        /\ \A t \in Threads : InFactory(t) => entries[ask[t].key] = NoSession

\* What it takes to keep LockInv: no new holder, and no key filled behind one.
LEMMA LockFrame ==
    ASSUME LockInv, epoch = 0,
           \A t \in Threads : lockEpoch'[t] = 0,
           \A t \in Threads : Holds(t)' => Holds(t) /\ ask'[t].key = ask[t].key,
           \A t \in Threads : InFactory(t)' =>
               InFactory(t) /\ (entries[ask[t].key] = NoSession
                                  => entries'[ask[t].key] = NoSession)
    PROVE  LockInv'
<1>1. \A t, u \in Threads : t # u /\ Holds(t)' /\ Holds(u)' => ask'[t].key # ask'[u].key
    BY DEF LockInv
<1>2. \A t \in Threads : InFactory(t)' => Holds(t)'
    BY DEF InFactory, Holds
<1>3. \A t \in Threads : InFactory(t)' => entries'[ask'[t].key] = NoSession
    BY <1>2 DEF LockInv
<1> QED BY <1>1, <1>3 DEF LockInv

LEMMA LockNext == IInv /\ LockInv /\ [Next]_vars => LockInv'
<1> SUFFICES ASSUME IInv, LockInv, [Next]_vars, epoch' = 0 PROVE LockInv'
    BY DEF LockInv
<1> USE DEF At, Goto, Finish
<1>0. /\ TypeOK /\ ThreadTypeOK
      /\ epoch = 0 => \A t \in Threads : lockEpoch[t] = 0
    BY DEF IInv, TypeOK, LockInv
<1>1. ASSUME NEW t \in Threads, NEW k \in Keys, NEW m \in Modes, Start(t, k, m)
      PROVE  LockInv'
    BY <1>0, <1>1, LockFrame DEF Start, poolVars, ThreadTypeOK, Holds, InFactory
<1>2. ASSUME NEW t \in Threads, Step(t) PROVE LockInv'
  <2>1. CASE Queue(t) \/ Release(t) \/ Ensured(t) \/ Send(t) \/ Await(t)
      BY <1>0, <2>1, LockFrame DEF Queue, Release, Ensured, Send, Await, Fail, poolVars,
                                   ThreadTypeOK, Holds, InFactory
  <2>2. CASE Acquire(t)
    <3>1. /\ epoch = 0 /\ UNCHANGED <<entries, ask, lockEpoch>>
          /\ pc' = [pc EXCEPT ![t] = "recheck"]
          /\ \A u \in Threads : u # t /\ Holds(u) => ~ SameLock(t, u)
        BY <2>2 DEF Acquire, poolVars
    <3>2. \A u \in Threads : u # t => (Holds(u)' <=> Holds(u)) /\ (InFactory(u)' <=> InFactory(u))
        BY <1>0, <3>1 DEF ThreadTypeOK, Holds, InFactory
    <3>3. ~ InFactory(t)'
        BY <1>0, <3>1 DEF ThreadTypeOK, InFactory
    <3>4. \A u \in Threads : u # t /\ Holds(u) => ask[t].key # ask[u].key
        BY <1>0, <3>1 DEF SameLock
    <3> QED BY <3>1, <3>2, <3>3, <3>4 DEF LockInv
  <2>3. CASE Lookup(t)
    <3>1. /\ epoch = 0 /\ UNCHANGED <<ask, lockEpoch>>
          /\ entries' = Without(entries, Expired)
          /\ pc[t] = "lookup" /\ pc' \in {[pc EXCEPT ![t] = "use"], [pc EXCEPT ![t] = "miss"]}
        BY <2>3 DEF Lookup, Get
    <3>2. \A u \in Threads : InFactory(u) => ask[u].key \in Keys
        BY DEF IInv, AskOK, InFactory
    <3> QED BY <1>0, <3>1, <3>2, LockFrame DEF Without, ThreadTypeOK, Holds, InFactory
  <2>4. CASE Recheck(t)
    <3>1. /\ epoch = 0 /\ UNCHANGED <<ask, lockEpoch>>
          /\ entries' = Without(entries, Expired) /\ pc[t] = "recheck"
          /\ \/ pc' = [pc EXCEPT ![t] = "release"]
             \/ pc' = [pc EXCEPT ![t] = "spawn"] /\ entries'[ask[t].key] = NoSession
        BY <2>4 DEF Recheck, Get
    <3>2. \A u \in Threads : Holds(u)' => Holds(u)
        BY <1>0, <3>1 DEF ThreadTypeOK, Holds
    <3>3. \A u \in Threads : u # t /\ InFactory(u)' =>
              InFactory(u) /\ ask[u].key \in Keys
        BY <1>0, <3>1 DEF IInv, AskOK, ThreadTypeOK, InFactory
    <3>4. \A u \in Threads : InFactory(u)' => entries'[ask'[u].key] = NoSession
      <4>1. ASSUME NEW u \in Threads, u # t, InFactory(u)'
            PROVE  entries'[ask'[u].key] = NoSession
          BY <3>1, <3>3, <4>1 DEF LockInv, Without
      <4>2. InFactory(t)' => entries'[ask'[t].key] = NoSession
          BY <1>0, <3>1 DEF ThreadTypeOK, InFactory
      <4> QED BY <4>1, <4>2
    <3> QED BY <3>1, <3>2, <3>4 DEF LockInv
  <2>5. CASE Spawn(t) \/ Handshake(t)
      BY <1>0, <2>5, LockFrame DEF Spawn, Handshake, poolVars, ThreadTypeOK, Holds, InFactory
  <2>6. CASE Put(t)
    <3> DEFINE written == [entries EXCEPT ![ask[t].key] = got[t]]
    <3>1. /\ epoch = 0 /\ UNCHANGED <<ask, lockEpoch>>
          /\ \E out : entries' = Without(written, out)
          /\ pc[t] = "put" /\ pc' = [pc EXCEPT ![t] = "release"]
        BY <2>6 DEF Put
    <3>2. \A u \in Threads : Holds(u)' => Holds(u)
        BY <1>0, <3>1 DEF ThreadTypeOK, Holds
    <3>3. ASSUME NEW u \in Threads, InFactory(u)'
          PROVE  InFactory(u) /\ entries'[ask[u].key] = NoSession
      <4>1. u # t /\ InFactory(u) /\ Holds(u) /\ Holds(t) /\ ask[u].key \in Keys
          BY <1>0, <3>1, <3>3 DEF IInv, AskOK, ThreadTypeOK, Holds, InFactory
      <4>2. ask[u].key # ask[t].key /\ entries[ask[u].key] = NoSession
          BY <3>1, <4>1 DEF LockInv
      <4>3. written[ask[u].key] = NoSession
          BY <4>1, <4>2 DEF IInv, TypeOK, PoolTypeOK
      <4> QED BY <3>1, <4>1, <4>3 DEF Without
    <3> QED BY <1>0, <3>1, <3>2, <3>3, LockFrame
  <2>7. CASE Evict(t)
    <3>1. /\ epoch = 0 /\ UNCHANGED lockEpoch
          /\ ask' = [ask EXCEPT ![t].attempt = 2]
          /\ entries' = Without(entries, {ask[t].key})
          /\ pc[t] = "evict" /\ pc' = [pc EXCEPT ![t] = "lookup"]
        BY <2>7 DEF Evict
    <3>2. \A u \in Threads : InFactory(u) => ask[u].key \in Keys
        BY DEF IInv, AskOK, InFactory
    <3>3. \A u \in Threads : ask'[u].key = ask[u].key
        BY <1>0, <3>1 DEF ThreadTypeOK
    <3> QED BY <1>0, <3>1, <3>2, <3>3, LockFrame DEF Without, ThreadTypeOK, Holds, InFactory
  <2> QED BY <1>2, <2>1, <2>2, <2>3, <2>4, <2>5, <2>6, <2>7 DEF Step
<1>3. CASE Prune
  <2>1. \A u \in Threads : InFactory(u) => ask[u].key \in Keys
      BY DEF IInv, AskOK, InFactory
  <2> QED BY <1>0, <1>3, <2>1, LockFrame DEF Prune, threadVars, Without, Holds, InFactory
<1>4. CASE Reset
    BY <1>0, <1>4 DEF Reset, TypeOK, PoolTypeOK
<1>5. CASE \/ \E k \in Keys : GrowIdle(k)
           \/ \E s \in Sessions : ServerDies(s)
           \/ \E c \in Closers, s \in Sessions : CloseVictim(c, s)
           \/ UNCHANGED vars
    BY <1>0, <1>5, LockFrame DEF GrowIdle, ServerDies, CloseVictim, vars, poolVars, threadVars,
                                 Holds, InFactory
<1> QED BY <1>1, <1>2, <1>3, <1>4, <1>5 DEF Next

\* Where a session is accounted for.
Kept(s) == Pooled(s) \/ BeingBuilt(s) \/ AboutToClose(s) \/ s \in closed \cup abandoned

\* A step that only takes entries out, onto a closer's list, forgets nothing.
LEMMA RetireForgetsNothing ==
    ASSUME TypeOK, NEW c \in Closers, NEW R \in SUBSET Keys, closing[c] = {},
           entries' = Without(entries, R),
           closing' = [closing EXCEPT ![c] = SessionsOf(entries, R)],
           UNCHANGED sessVars,
           \A t \in Threads : Builds(t) => Builds(t)' /\ got'[t] = got[t],
           NEW s \in 1 .. built, Kept(s)
    PROVE  Kept(s)'
<1> USE DEF TypeOK, SessionTypeOK, PoolTypeOK, sessVars
<1>1. CASE Pooled(s)
  <2>1. PICK k \in Keys : entries[k] = s
      BY <1>1 DEF Pooled
  <2>2. CASE k \in R
    <3>1. s \in closing'[c]
        BY <2>1, <2>2, ConstantsAssumption DEF SessionsOf
    <3> QED BY <3>1 DEF Kept, AboutToClose
  <2>3. CASE k \notin R
      BY <2>1, <2>3 DEF Kept, Pooled, Without
  <2> QED BY <2>2, <2>3
<1>2. CASE BeingBuilt(s)
    BY <1>2 DEF Kept, BeingBuilt, BuiltBy, Builds
<1>3. CASE AboutToClose(s)
    BY <1>3 DEF Kept, AboutToClose
<1>4. CASE s \in closed \cup abandoned
    BY <1>4 DEF Kept
<1> QED BY <1>1, <1>2, <1>3, <1>4 DEF Kept

\* A step that leaves dict, lists and builders alone forgets nothing.
LEMMA QuietForgetsNothing ==
    ASSUME UNCHANGED <<entries, closing>>, closed \subseteq closed', abandoned \subseteq abandoned',
           \A t \in Threads : Builds(t) => Builds(t)' /\ got'[t] = got[t],
           NEW s, Kept(s)
    PROVE  Kept(s)'
BY DEF Kept, Pooled, BeingBuilt, BuiltBy, Builds, AboutToClose

LEMMA ForgottenNext == IInv /\ LockInv /\ NoSessionForgotten /\ [Next]_vars => NoSessionForgotten'
<1> SUFFICES ASSUME IInv, LockInv, NoSessionForgotten, [Next]_vars, epoch' = 0,
                    NEW s \in 1 .. built'
             PROVE  Kept(s)'
    BY DEF NoSessionForgotten, Kept
<1> USE DEF At, Goto, Finish
<1>0. /\ TypeOK /\ ThreadTypeOK
      /\ epoch = 0 /\ s \in 1 .. built => Kept(s)
    BY DEF IInv, TypeOK, NoSessionForgotten, Kept
<1>1. ASSUME NEW t \in Threads, NEW k \in Keys, NEW m \in Modes, Start(t, k, m)
      PROVE  Kept(s)'
    BY <1>0, <1>1, QuietForgetsNothing DEF Start, poolVars, sessVars, ThreadTypeOK, Builds
<1>2. ASSUME NEW t \in Threads, Step(t) PROVE Kept(s)'
  <2>0. t \in Closers
      BY DEF Closers
  <2>1. CASE Queue(t) \/ Acquire(t) \/ Release(t) \/ Ensured(t) \/ Send(t) \/ Await(t)
      BY <1>0, <2>1, QuietForgetsNothing DEF Queue, Acquire, Release, Ensured, Send, Await, Fail,
                                             poolVars, sessVars, ThreadTypeOK, Builds
  <2>2. CASE Lookup(t) \/ Recheck(t)
    <3>1. /\ closing[t] = {} /\ Expired \in SUBSET Keys
          /\ entries' = Without(entries, Expired)
          /\ closing' = [closing EXCEPT ![t] = SessionsOf(entries, Expired)]
          /\ UNCHANGED <<epoch, sessVars>>
        BY <2>2 DEF Lookup, Recheck, Get, Expired, Pool
    <3>2. \A u \in Threads : Builds(u) => Builds(u)' /\ got'[u] = got[u]
        BY <1>0, <2>2 DEF Lookup, Recheck, Get, ThreadTypeOK, Builds
    <3> QED BY <1>0, <2>0, <3>1, <3>2, RetireForgetsNothing DEF sessVars
  <2>3. CASE Spawn(t)
    <3>1. \A u \in Threads : Builds(u) => Builds(u)' /\ got'[u] = got[u]
        BY <1>0, <2>3 DEF Spawn, ThreadTypeOK, Builds
    <3>2. CASE s = built + 1
        BY <1>0, <2>3, <3>2, ConstantsAssumption
           DEF Spawn, ThreadTypeOK, Kept, BeingBuilt, BuiltBy, IInv, TypeOK, SessionTypeOK
    <3>3. CASE s # built + 1
      <4>1. s \in 1 .. built /\ epoch = 0 /\ UNCHANGED <<entries, closing, closed, abandoned>>
          BY <2>3, <3>3 DEF Spawn, poolVars, IInv, TypeOK, SessionTypeOK
      <4> QED BY <1>0, <3>1, <4>1, QuietForgetsNothing
    <3> QED BY <3>2, <3>3
  <2>4. CASE Handshake(t)
    <3>1. /\ UNCHANGED <<poolVars, built, closed, closing, got>>
          /\ s \in 1 .. built /\ epoch = 0 /\ abandoned \subseteq abandoned'
        BY <2>4 DEF Handshake, poolVars
    <3>2. CASE s = got[t] /\ s \notin abandoned'
        BY <1>0, <2>4, <3>1, <3>2 DEF Handshake, ThreadTypeOK, Kept, BeingBuilt, BuiltBy
    <3>3. CASE s \in abandoned'
        BY <3>3 DEF Kept
    <3>4. CASE s # got[t] /\ BeingBuilt(s)
        BY <1>0, <2>4, <3>1, <3>4 DEF Handshake, ThreadTypeOK, Kept, BeingBuilt, BuiltBy
    <3>5. CASE ~ BeingBuilt(s)
        BY <1>0, <3>1, <3>5 DEF Kept, Pooled, AboutToClose, poolVars
    <3> QED BY <3>2, <3>3, <3>4, <3>5
  <2>5. CASE Put(t)
    <3> DEFINE k       == ask[t].key
               written == [entries EXCEPT ![k] = got[t]]
               expired == Expired \ {k}
               pool    == (Pool \cup {k}) \ expired
               out     == expired \cup
                          Overflow(Touched(OrderWithout(usedAfter, expired), pool, k), pool)
    <3>1. /\ entries' = Without(written, out)
          /\ closing' = [closing EXCEPT ![t] = SessionsOf(written, out)]
          /\ pc[t] = "put" /\ pc' = [pc EXCEPT ![t] = "release"]
          /\ closing[t] = {}
          /\ UNCHANGED <<epoch, sessVars, got, ask>>
        BY <2>5 DEF Put
    <3>2. k \in Keys /\ entries[k] = NoSession
        BY <3>1 DEF IInv, AskOK, LockInv, InFactory
    <3>3. \A u \in Threads : u # t /\ Builds(u) => Builds(u)' /\ got'[u] = got[u]
        BY <1>0, <3>1 DEF ThreadTypeOK, Builds
    <3>4. s \in 1 .. built /\ s # NoSession /\ Kept(s)
        BY <1>0, <3>1 DEF sessVars, IInv, TypeOK, SessionTypeOK
    <3> HIDE DEF out
    <3>5. ASSUME NEW j \in Keys, written[j] = s PROVE Kept(s)'
      <4>1. CASE j \in out
        <5>1. s \in closing'[t]
            BY <1>0, <2>0, <3>1, <3>4, <3>5, <4>1 DEF SessionsOf, TypeOK, SessionTypeOK
        <5> QED BY <2>0, <5>1 DEF Kept, AboutToClose
      <4>2. CASE j \notin out
          BY <3>1, <3>5, <4>2 DEF Without, Kept, Pooled
      <4> QED BY <4>1, <4>2
    <3>6. CASE Pooled(s)
      <4>1. PICK j \in Keys : entries[j] = s
          BY <3>6 DEF Pooled
      <4>2. written[j] = s
          BY <3>2, <3>4, <4>1
      <4> QED BY <4>2, <3>5
    <3>7. CASE BeingBuilt(s)
      <4>1. PICK u \in Threads : BuiltBy(u, s)
          BY <3>7 DEF BeingBuilt
      <4>2. CASE u = t
          BY <1>0, <3>2, <3>5, <4>1, <4>2 DEF BuiltBy, TypeOK, PoolTypeOK
      <4>3. CASE u # t
          BY <3>3, <4>1, <4>3 DEF BuiltBy, Builds, Kept, BeingBuilt
      <4> QED BY <4>2, <4>3
    <3>8. CASE AboutToClose(s)
        BY <1>0, <3>1, <3>8 DEF Kept, AboutToClose, TypeOK, SessionTypeOK
    <3>9. CASE s \in closed \cup abandoned
        BY <3>1, <3>9 DEF Kept, sessVars
    <3> QED BY <3>4, <3>6, <3>7, <3>8, <3>9 DEF Kept
  <2>6. CASE Evict(t)
    <3>1. /\ closing[t] = {} /\ {ask[t].key} \in SUBSET Keys
          /\ entries' = Without(entries, {ask[t].key})
          /\ closing' = [closing EXCEPT ![t] = SessionsOf(entries, {ask[t].key})]
          /\ UNCHANGED <<epoch, sessVars>>
        BY <2>6 DEF Evict, IInv, AskOK
    <3>2. \A u \in Threads : Builds(u) => Builds(u)' /\ got'[u] = got[u]
        BY <1>0, <2>6 DEF Evict, ThreadTypeOK, Builds
    <3> QED BY <1>0, <2>0, <3>1, <3>2, RetireForgetsNothing DEF sessVars
  <2> QED BY <1>2, <2>1, <2>2, <2>3, <2>4, <2>5, <2>6 DEF Step
<1>3. CASE Prune
  <2>1. Pruner \in Closers /\ Expired \in SUBSET Keys
      BY DEF Closers, Expired, Pool
  <2> QED BY <1>0, <1>3, <2>1, RetireForgetsNothing DEF Prune, sessVars, threadVars, Builds
<1>4. CASE Reset
    BY <1>0, <1>4 DEF Reset, TypeOK, PoolTypeOK
<1>5. CASE \E c \in Closers, v \in Sessions : CloseVictim(c, v)
  <2>1. PICK c \in Closers, v \in Sessions : CloseVictim(c, v)
      BY <1>5
  <2>2. /\ closing' = [closing EXCEPT ![c] = @ \ {v}] /\ closed' = closed \cup {v}
        /\ UNCHANGED <<poolVars, built, abandoned, threadVars>>
      BY <2>1 DEF CloseVictim
  <2>3. s \in 1 .. built /\ Kept(s)
      BY <1>0, <2>2 DEF poolVars
  <2>4. CASE s = v
      BY <2>2, <2>4 DEF Kept
  <2>5. CASE s # v /\ AboutToClose(s)
      BY <1>0, <2>2, <2>5 DEF Kept, AboutToClose, TypeOK, SessionTypeOK
  <2>6. CASE ~ AboutToClose(s)
      BY <2>2, <2>3, <2>6 DEF Kept, Pooled, BeingBuilt, BuiltBy, poolVars, threadVars
  <2> QED BY <2>4, <2>5, <2>6
<1>6. CASE \/ \E k \in Keys : GrowIdle(k)
           \/ \E v \in Sessions : ServerDies(v)
           \/ UNCHANGED vars
    BY <1>0, <1>6, QuietForgetsNothing DEF GrowIdle, ServerDies, vars, poolVars, sessVars,
                                           threadVars, Builds
<1> QED BY <1>1, <1>2, <1>3, <1>4, <1>5, <1>6 DEF Next

LEMMA LockInvariance == Spec => [](IInv /\ LockInv)
<1>1. Init => LockInv
    BY DEF Init, LockInv, Holds, InFactory
<1> QED BY <1>1, InitIInv, NextKeeps, LockNext, PTL DEF Spec

\* Until reset() runs, get_or_create has at most one thread inside the factory
\* for a key, and none while the pool already serves it.
THEOREM BuildsOnce == Spec => []OneBuilderPerKey
<1>1. IInv /\ LockInv => OneBuilderPerKey
    BY DEF LockInv, OneBuilderPerKey, InFactory, Holds
<1> QED BY <1>1, LockInvariance, PTL

\* Until reset() runs, every session that was started stays accounted for.
THEOREM ForgetsNothing == Spec => []NoSessionForgotten
<1>1. Init => NoSessionForgotten
    BY DEF Init, NoSessionForgotten
<1> QED BY <1>1, LockInvariance, ForgottenNext, PTL DEF Spec

\* Until reset() runs, get_or_create builds nothing twice and loses nothing.
THEOREM BuildsAlone == Spec => []BuildingIsExclusive
BY BuildsOnce, ForgetsNothing, PTL DEF BuildingIsExclusive

-----------------------------------------------------------------------------
(* The pool implements the directory.                                      *)

\* Taking the keys R out of the dict is the directory's Retire.
LEMMA RetireRefines ==
    ASSUME TypeOK, NEW c \in Closers, NEW R \in SUBSET Keys, closing[c] = {},
           entries' = Without(entries, R),
           closing' = [closing EXCEPT ![c] = SessionsOf(entries, R)],
           UNCHANGED sessVars
    PROVE  Directory!Next
<1>1. Gone' = Gone \cup SessionsOf(entries, R)
  <2>1. closing'[c] = SessionsOf(entries, R)
      BY DEF TypeOK, SessionTypeOK
  <2>2. \A d \in Closers : d # c => closing'[d] = closing[d]
      BY DEF TypeOK, SessionTypeOK
  <2> QED BY <2>1, <2>2 DEF Gone, sessVars
<1>2. Directory!Retire(R)
    BY <1>1 DEF Directory!Retire, Without, SessionsOf
<1> QED BY <1>2 DEF Directory!Next

LEMMA QuietRefines ==
    ASSUME UNCHANGED <<entries, closing, closed>>
    PROVE  UNCHANGED Directory!dirVars
BY DEF Directory!dirVars, Gone

LEMMA PutRefines ==
    ASSUME IInv, LockInv, epoch = 0, NEW t \in Threads, Put(t)
    PROVE  Directory!Next
<1> DEFINE k       == ask[t].key
           written == [entries EXCEPT ![k] = got[t]]
           expired == Expired \ {k}
           pool    == (Pool \cup {k}) \ expired
           order   == Touched(OrderWithout(usedAfter, expired), pool, k)
           shed    == Overflow(order, pool)
           out     == expired \cup shed
<1> USE DEF IInv, TypeOK, PoolTypeOK, SessionTypeOK, ThreadTypeOK
<1>1. /\ entries' = Without(written, out)
      /\ closing' = [closing EXCEPT ![t] = SessionsOf(written, out)]
      /\ closing[t] = {} /\ pc[t] = "put" /\ t \in Closers
      /\ UNCHANGED sessVars
    BY DEF Put, At, Closers
<1>2. k \in Keys /\ entries[k] = NoSession /\ got[t] \in Sessions
    BY <1>1 DEF AskOK, LockInv, InFactory, HeldOK
<1>3. k \notin out
  <2>1. \A i \in pool : <<i, k>> \notin order
      BY DEF Touched
  <2>2. Cardinality({i \in pool : <<i, k>> \in order}) = 0
      BY <2>1, FS_EmptySet
  <2> HIDE DEF order, pool
  <2>3. k \in shed => MaxSize # 0 /\ Cardinality({i \in pool : <<i, k>> \in order}) >= MaxSize
      BY DEF Overflow
  <2>4. k \notin shed
      BY <2>2, <2>3, ConstantsAssumption
  <2> QED BY <2>4
<1>4. out \subseteq Keys
    BY <1>2 DEF Expired, Pool, Overflow
<1>5. got[t] \notin Directory!Named \cup Gone
    BY <1>1 DEF Directory!Named, Gone, Apart, PoolApart, BuildersApart, Builds
<1> HIDE DEF out
<1>6. \A j \in Keys : entries'[j] = (IF j = k THEN got[t]
                                    ELSE IF j \in out THEN NoSession ELSE entries[j])
    BY <1>1, <1>2, <1>3 DEF Without
<1>7. SessionsOf(written, out) = {entries[j] : j \in out} \ {NoSession}
    BY <1>2, <1>3, <1>4 DEF SessionsOf
<1> DEFINE lost == {entries[j] : j \in out} \ {NoSession}
<1>8. Gone' = Gone \cup lost
  <2>1. closing'[t] = lost
      BY <1>1, <1>7
  <2>2. \A d \in Closers : d # t => closing'[d] = closing[d]
      BY <1>1
  <2>3. closed' = closed
      BY <1>1 DEF sessVars
  <2> HIDE DEF lost
  <2> QED BY <1>1, <2>1, <2>2, <2>3 DEF Gone
<1>9. entries' = [j \in Keys |-> IF j = k THEN got[t]
                                ELSE IF j \in out THEN NoSession ELSE entries[j]]
    BY <1>1, <1>6 DEF Without
<1>10. out \in SUBSET (Keys \ {k})
    BY <1>3, <1>4
<1> HIDE DEF k
<1>11. Directory!Open(k, got[t])
    BY <1>2, <1>5, <1>8, <1>9, <1>10 DEF Directory!Open
<1> QED BY <1>2, <1>11 DEF Directory!Next

LEMMA NextRefines ==
    ASSUME MaxResets = 0, IInv, LockInv, [Next]_vars
    PROVE  [Directory!Next]_(Directory!dirVars)
<1> USE DEF IInv, TypeOK, PoolTypeOK, At
<1>0. epoch = 0
    OBVIOUS
<1>1. ASSUME NEW t \in Threads, NEW k \in Keys, NEW m \in Modes, Start(t, k, m)
      PROVE  UNCHANGED Directory!dirVars
    BY <1>1, QuietRefines DEF Start, poolVars, sessVars
<1>2. ASSUME NEW t \in Threads, Step(t) PROVE [Directory!Next]_(Directory!dirVars)
  <2>0. t \in Closers
      BY DEF Closers
  <2>1. CASE \/ Queue(t) \/ Acquire(t) \/ Release(t) \/ Ensured(t) \/ Send(t) \/ Await(t)
             \/ Spawn(t) \/ Handshake(t)
      BY <2>1, QuietRefines DEF Queue, Acquire, Release, Ensured, Send, Await, Spawn, Handshake,
                                poolVars, sessVars
  <2>2. CASE Lookup(t) \/ Recheck(t)
      BY <2>0, <2>2, RetireRefines DEF Lookup, Recheck, Get, Expired, Pool
  <2>3. CASE Put(t)
      BY <1>0, <2>3, PutRefines
  <2>4. CASE Evict(t)
    <3>1. {ask[t].key} \in SUBSET Keys
        BY <2>4 DEF Evict, AskOK
    <3> QED BY <2>0, <2>4, <3>1, RetireRefines DEF Evict
  <2> QED BY <1>2, <2>1, <2>2, <2>3, <2>4 DEF Step
<1>3. CASE Prune
    BY <1>3, RetireRefines DEF Prune, Expired, Pool, Closers
<1>4. CASE Reset
    BY <1>4, <1>0 DEF Reset
<1>5. CASE \E c \in Closers, s \in Sessions : CloseVictim(c, s)
  <2>1. PICK c \in Closers, s \in Sessions : CloseVictim(c, s)
      BY <1>5
  <2>2. /\ s \in closing[c] /\ closed' = closed \cup {s} /\ UNCHANGED entries
        /\ closing' = [closing EXCEPT ![c] = @ \ {s}]
      BY <2>1 DEF CloseVictim, poolVars
  <2>3. Gone' = Gone
    <3>1. \A d \in Closers : closing'[d] = (IF d = c THEN closing[d] \ {s} ELSE closing[d])
        BY <2>2 DEF SessionTypeOK
    <3> QED BY <2>2, <3>1 DEF Gone
  <2> QED BY <2>2, <2>3 DEF Directory!dirVars
<1>6. CASE \/ \E k \in Keys : GrowIdle(k)
           \/ \E s \in Sessions : ServerDies(s)
           \/ UNCHANGED vars
    BY <1>6, QuietRefines DEF GrowIdle, ServerDies, vars, poolVars, sessVars
<1> QED BY <1>1, <1>2, <1>3, <1>4, <1>5, <1>6 DEF Next

\* The pool, for as long as reset() is not called, implements the directory: a
\* key's session is replaced only after it was retired, and never comes back.
THEOREM Refinement ==
    ASSUME MaxResets = 0
    PROVE  Spec => ImplementsDirectory
<1>1. Init => Directory!Init
    BY DEF Init, Directory!Init, Gone
<1>2. IInv /\ LockInv /\ [Next]_vars => [Directory!Next]_(Directory!dirVars)
    BY NextRefines
<1> QED BY <1>1, <1>2, LockInvariance, PTL DEF Spec, ImplementsDirectory, Directory!Spec

-----------------------------------------------------------------------------
(* The order of retirement.                                                *)

\* The order of use is strict and total on the entries of the dict.
Ordered(order, pool) ==
    /\ order \subseteq pool \X pool
    /\ \A i \in pool : <<i, i>> \notin order
    /\ \A i, j \in pool : i # j => <<i, j>> \in order \/ <<j, i>> \in order
    /\ \A i, j, k \in pool : <<i, j>> \in order /\ <<j, k>> \in order => <<i, k>> \in order

LEMMA OrderedWithout ==
    ASSUME NEW order, NEW pool, Ordered(order, pool), NEW R
    PROVE  Ordered(OrderWithout(order, R), pool \ R)
BY DEF Ordered, OrderWithout

\* Whatever is touched is used after the rest, whether or not it was there.
LEMMA OrderedTouched ==
    ASSUME NEW order, NEW pool, Ordered(order, pool), NEW k
    PROVE  Ordered(Touched(order, pool \cup {k}, k), pool \cup {k})
<1> DEFINE new == Touched(order, pool \cup {k}, k)
<1>1. \A i, j : <<i, j>> \in new <=> \/ <<i, j>> \in order /\ j # k
                                     \/ i = k /\ j \in pool \ {k}
  <2> TAKE i, j
  <2>1. <<i, j>> \in {p \in order : p[2] # k} <=> <<i, j>> \in order /\ j # k
    OBVIOUS
  <2>2. <<i, j>> \in {<<k, l>> : l \in (pool \cup {k}) \ {k}} <=> i = k /\ j \in pool \ {k}
    OBVIOUS
  <2> QED
    BY <2>1, <2>2 DEF Touched
<1>2. new \subseteq (pool \cup {k}) \X (pool \cup {k})
  BY DEF Touched, Ordered
<1> HIDE DEF new
<1> DEFINE all == pool \cup {k}
<1>3. \A i \in all : <<i, i>> \notin new
  BY <1>1 DEF Ordered
<1>4. ASSUME NEW i \in all, NEW j \in all, i # j PROVE <<i, j>> \in new \/ <<j, i>> \in new
  <2>1. CASE i = k \/ j = k
    BY <1>1, <1>4, <2>1
  <2>2. CASE i # k /\ j # k
    BY <1>1, <1>4, <2>2 DEF Ordered
  <2> QED
    BY <2>1, <2>2
<1>5. ASSUME NEW i \in all, NEW j \in all, NEW l \in all, <<i, j>> \in new, <<j, l>> \in new
      PROVE  <<i, l>> \in new
  <2>1. j # k /\ l # k /\ l \in pool /\ j \in pool
    BY <1>1, <1>5 DEF Ordered
  <2>2. CASE i = k
    BY <1>1, <2>1, <2>2
  <2>3. CASE i # k
    <3>1. i \in pool /\ <<i, j>> \in order /\ (<<j, l>> \in order)
      BY <1>1, <1>5, <2>1, <2>3
    <3>2. <<i, l>> \in order
      BY <2>1, <3>1 DEF Ordered
    <3> QED
      BY <1>1, <2>1, <3>2
  <2> QED
    BY <2>2, <2>3
<1> HIDE DEF all
<1>6. Ordered(new, all)
  BY <1>2, <1>3, <1>4, <1>5 DEF Ordered, all
<1> QED
  BY <1>6 DEF new, all

\* Entries that fewer than MaxSize others were used after are at most MaxSize: how many
\* were used after an entry tells it from every other.
LEMMA OverflowSheds ==
    ASSUME NEW pool, IsFiniteSet(pool), NEW order, Ordered(order, pool), MaxSize # 0
    PROVE  /\ Cardinality(pool \ Overflow(order, pool)) <= MaxSize
           /\ \A j \in Overflow(order, pool), k \in pool :
                 <<j, k>> \in order => k \in Overflow(order, pool)
<1> DEFINE After(j) == {i \in pool : <<i, j>> \in order}
           kept     == pool \ Overflow(order, pool)
<1>1. MaxSize \in Nat
  BY ConstantsAssumption
<1>2. \A j \in pool : IsFiniteSet(After(j)) /\ Cardinality(After(j)) \in Nat
  BY FS_Subset, FS_CardinalityType
<1>3. ASSUME NEW i \in pool, NEW j \in pool, <<i, j>> \in order
      PROVE  Cardinality(After(i)) < Cardinality(After(j))
  <2>1. After(i) \in SUBSET After(j) /\ i \in After(j) /\ i \notin After(i)
    BY <1>3 DEF Ordered
  <2>2. Cardinality(After(i)) <= Cardinality(After(j))
    BY <1>2, <2>1, FS_Subset
  <2>3. Cardinality(After(j)) # Cardinality(After(i))
    BY <1>2, <2>1, FS_Subset
  <2> HIDE DEF After
  <2> QED
    BY <1>2, <2>2, <2>3
<1>4. \A j \in pool : j \in Overflow(order, pool) <=> Cardinality(After(j)) >= MaxSize
  BY DEF Overflow
<1> HIDE DEF After
<1>5. \A j \in Overflow(order, pool), k \in pool :
         <<j, k>> \in order => k \in Overflow(order, pool)
  <2> SUFFICES ASSUME NEW j \in Overflow(order, pool), NEW k \in pool, <<j, k>> \in order
               PROVE  k \in Overflow(order, pool)
    OBVIOUS
  <2>1. j \in pool
    BY DEF Overflow
  <2>2. Cardinality(After(j)) >= MaxSize /\ Cardinality(After(j)) < Cardinality(After(k))
    BY <1>3, <1>4, <2>1
  <2> QED
    BY <1>1, <1>2, <1>4, <2>1, <2>2
<1> DEFINE rank == [j \in kept |-> Cardinality(After(j))]
<1>6. rank \in Injection(kept, 0 .. MaxSize - 1)
  <2>1. \A j \in kept : Cardinality(After(j)) \in 0 .. MaxSize - 1
    BY <1>1, <1>2, <1>4
  <2>2. ASSUME NEW i \in kept, NEW j \in kept, Cardinality(After(i)) = Cardinality(After(j))
        PROVE  i = j
    <3>1. i \in pool /\ j \in pool
      OBVIOUS
    <3>2. i # j => <<i, j>> \in order \/ <<j, i>> \in order
      BY <3>1 DEF Ordered
    <3>3. /\ <<i, j>> \in order => Cardinality(After(i)) < Cardinality(After(j))
          /\ <<j, i>> \in order => Cardinality(After(j)) < Cardinality(After(i))
      BY <1>3, <3>1
    <3>4. Cardinality(After(i)) \in Nat /\ Cardinality(After(j)) \in Nat
      BY <1>2, <3>1
    <3> QED
      BY <2>2, <3>2, <3>3, <3>4
  <2> QED
    BY <2>1, <2>2 DEF Injection, IsInjective
<1>7. IsFiniteSet(0 .. MaxSize - 1) /\ Cardinality(0 .. MaxSize - 1) = MaxSize
  BY <1>1, FS_Interval
<1> HIDE DEF rank, kept
<1>8. Cardinality(kept) <= MaxSize
  BY <1>6, <1>7, FS_Injection
<1> QED
  BY <1>5, <1>8 DEF kept

OrderInv == Ordered(usedAfter, Pool)

\* The dict, its order and its victims when a session is published.
LEMMA PutOrders ==
    ASSUME IInv, OrderInv, NEW t \in Threads, Put(t)
    PROVE  \E R \in SUBSET Pool : \E order :
              LET pool == (Pool \ R) \cup {ask[t].key}
                  shed == Overflow(order, pool)
              IN  /\ R = Expired \ {ask[t].key}
                  /\ order = Touched(OrderWithout(usedAfter, R), pool, ask[t].key)
                  /\ Ordered(order, pool)
                  /\ Pool' = pool \ shed
                  /\ usedAfter' = OrderWithout(order, shed)
                  /\ ask[t].key \notin shed
<1> DEFINE k       == ask[t].key
           written == [entries EXCEPT ![k] = got[t]]
           R       == Expired \ {k}
           pool    == (Pool \ R) \cup {k}
           order   == Touched(OrderWithout(usedAfter, R), pool, k)
           shed    == Overflow(order, pool)
<1>1. /\ k \in Keys /\ got[t] # NoSession /\ R \in SUBSET Pool
      /\ entries \in [Keys -> Sessions \cup {NoSession}] /\ got[t] \in Sessions \cup {NoSession}
  BY DEF Put, At, IInv, AskOK, HeldOK, Expired, TypeOK, PoolTypeOK, ThreadTypeOK
<1>2. (Pool \cup {k}) \ R = pool
  OBVIOUS
<1>3. entries' = Without(written, R \cup shed) /\ usedAfter' = OrderWithout(order, shed)
  BY <1>2 DEF Put
<1>4. Ordered(order, pool)
  BY OrderedWithout, OrderedTouched DEF OrderInv
<1>5. k \notin shed
  <2>1. \A i \in pool : <<i, k>> \notin order
    BY DEF Touched
  <2> HIDE DEF order, pool
  <2>2. Cardinality({i \in pool : <<i, k>> \in order}) = 0
    BY <2>1, FS_EmptySet
  <2>3. k \in shed => MaxSize # 0 /\ Cardinality({i \in pool : <<i, k>> \in order}) >= MaxSize
    BY DEF Overflow
  <2> HIDE DEF shed, k
  <2> QED
    BY <2>2, <2>3, ConstantsAssumption
<1>6. shed \subseteq pool
  BY DEF Overflow
<1> HIDE DEF shed, order
<1>7. Pool' = pool \ shed
  <2>1. \A j \in Keys : entries'[j] = IF j \in R \cup shed THEN NoSession
                                     ELSE IF j = k THEN got[t] ELSE entries[j]
    BY <1>1, <1>3 DEF Without
  <2>2. k \notin R
    OBVIOUS
  <2> QED
    BY <1>1, <1>5, <1>6, <2>1, <2>2 DEF Pool
<1> QED
  BY <1>1, <1>3, <1>4, <1>5, <1>7 DEF shed, order

LEMMA OrderNext == IInv /\ OrderInv /\ [Next]_vars => OrderInv'
<1> SUFFICES ASSUME IInv, OrderInv, [Next]_vars PROVE OrderInv'
    OBVIOUS
<1>1. ASSUME NEW R \in SUBSET Keys, entries' = Without(entries, R),
             usedAfter' = OrderWithout(usedAfter, R)
      PROVE  OrderInv'
  <2>1. Pool' = Pool \ R
    BY <1>1 DEF Pool, Without
  <2> QED
    BY <1>1, <2>1, OrderedWithout DEF OrderInv
<1>2. Expired \subseteq Keys
  BY DEF Expired, Pool
<1>3. ASSUME NEW t \in Threads, ask[t].key \in Keys, NEW hit, NEW miss, Get(t, hit, miss)
      PROVE  OrderInv'
  <2>1. entries' = Without(entries, Expired)
    BY <1>3 DEF Get
  <2>2. CASE usedAfter' = OrderWithout(usedAfter, Expired)
    BY <1>1, <1>2, <2>1, <2>2
  <2>3. CASE /\ Without(entries, Expired)[ask[t].key] # NoSession
             /\ usedAfter' = Touched(OrderWithout(usedAfter, Expired), Pool \ Expired, ask[t].key)
    <3>1. Pool' = Pool \ Expired
      BY <1>2, <2>1 DEF Pool, Without
    <3>2. (Pool \ Expired) \cup {ask[t].key} = Pool \ Expired
      BY <1>3, <2>3 DEF Pool, Without
    <3>3. Ordered(Touched(OrderWithout(usedAfter, Expired), (Pool \ Expired) \cup {ask[t].key},
                          ask[t].key), (Pool \ Expired) \cup {ask[t].key})
      BY OrderedWithout, OrderedTouched DEF OrderInv
    <3> QED
      BY <2>3, <3>1, <3>2, <3>3 DEF OrderInv
  <2> QED
    BY <1>3, <2>2, <2>3 DEF Get
<1>4. ASSUME NEW t \in Threads, Step(t) PROVE OrderInv'
  <2>1. CASE Lookup(t) \/ Recheck(t)
    BY <1>3, <2>1 DEF Lookup, Recheck, At, IInv, AskOK
  <2>2. CASE Put(t)
    <3> DEFINE pool(R)        == (Pool \ R) \cup {ask[t].key}
               shed(R, order) == Overflow(order, pool(R))
    <3>1. PICK R \in SUBSET Pool : \E order :
              /\ Ordered(order, pool(R))
              /\ Pool' = pool(R) \ shed(R, order)
              /\ usedAfter' = OrderWithout(order, shed(R, order))
      BY <2>2, PutOrders
    <3>2. PICK order :
              /\ Ordered(order, pool(R))
              /\ Pool' = pool(R) \ shed(R, order)
              /\ usedAfter' = OrderWithout(order, shed(R, order))
      BY <3>1
    <3> HIDE DEF pool, shed
    <3>3. Ordered(OrderWithout(order, shed(R, order)), pool(R) \ shed(R, order))
      BY <3>2, OrderedWithout
    <3> QED
      BY <3>2, <3>3 DEF OrderInv
  <2>3. CASE Evict(t)
    <3>1. ask[t].key \in Keys
      BY <2>3 DEF Evict, At, IInv, AskOK
    <3> QED
      BY <1>1, <2>3, <3>1 DEF Evict
  <2>4. CASE \/ Queue(t) \/ Acquire(t) \/ Spawn(t) \/ Handshake(t) \/ Release(t)
             \/ Ensured(t) \/ Send(t) \/ Await(t)
    <3>1. UNCHANGED <<entries, usedAfter>>
      BY <2>4 DEF Queue, Acquire, Spawn, Handshake, Release, Ensured, Send, Await, poolVars
    <3> QED
      BY <3>1 DEF OrderInv, Pool
  <2> QED
    BY <1>4, <2>1, <2>2, <2>3, <2>4 DEF Step
<1>5. CASE Prune
  BY <1>1, <1>2, <1>5 DEF Prune
<1>6. CASE Reset
  <2>1. Pool' = {} /\ usedAfter' = {}
    BY <1>6 DEF Reset, Pool, Without
  <2> QED
    BY <2>1 DEF OrderInv, Ordered
<1>7. CASE \/ \E t \in Threads, k \in Keys, m \in Modes : Start(t, k, m)
           \/ \E c \in Closers, s \in Sessions : CloseVictim(c, s)
           \/ \E k \in Keys : GrowIdle(k)
           \/ \E s \in Sessions : ServerDies(s)
           \/ UNCHANGED vars
  <2>1. UNCHANGED <<entries, usedAfter>>
    BY <1>7 DEF Start, CloseVictim, GrowIdle, ServerDies, vars, poolVars
  <2> QED
    BY <2>1 DEF OrderInv, Pool
<1> QED BY <1>4, <1>5, <1>6, <1>7 DEF Next

\* A key's entry is a session of its own, and there are finitely many.
LEMMA PoolIsFinite == IInv => IsFiniteSet(Pool)
<1> SUFFICES ASSUME IInv PROVE IsFiniteSet(Pool)
  OBVIOUS
<1> DEFINE f == [k \in Pool |-> entries[k]]
<1>1. MaxSessions \in Nat
  BY ConstantsAssumption
<1>2. f \in Injection(Pool, Sessions)
  BY DEF Injection, IsInjective, Pool, IInv, PooledOK, TypeOK, PoolTypeOK
<1>3. IsFiniteSet(Sessions)
  BY <1>1, FS_Interval
<1> HIDE DEF f
<1> QED
  BY <1>2, <1>3, FS_Injection

\* The cap holds after every put; what it drops beside expired entries was used before
\* whatever it keeps, and is not what it publishes.
LEMMA PutSheds ==
    ASSUME IInv, OrderInv, NEW t \in Threads, Put(t)
    PROVE  /\ MaxSize # 0 => Cardinality(Pool') <= MaxSize
           /\ ask[t].key \in Pool'
           /\ \A j \in Pool \ (idle \cup Pool') : \A k \in Pool \cap Pool' :
                 k # ask[t].key => <<k, j>> \in usedAfter
<1>1. PICK R \in SUBSET Pool : \E order :
         LET pool == (Pool \ R) \cup {ask[t].key}
             shed == Overflow(order, pool)
         IN  /\ R = Expired \ {ask[t].key}
             /\ order = Touched(OrderWithout(usedAfter, R), pool, ask[t].key)
             /\ Ordered(order, pool)
             /\ Pool' = pool \ shed
             /\ ask[t].key \notin shed
  BY PutOrders
<1> DEFINE pool == (Pool \ R) \cup {ask[t].key}
<1>2. PICK order : /\ R = Expired \ {ask[t].key}
                   /\ order = Touched(OrderWithout(usedAfter, R), pool, ask[t].key)
                   /\ Ordered(order, pool)
                   /\ Pool' = pool \ Overflow(order, pool)
                   /\ ask[t].key \notin Overflow(order, pool)
  BY <1>1
<1>3. IsFiniteSet(pool)
  <2>1. IsFiniteSet(Pool \ R)
    BY PoolIsFinite, FS_Subset
  <2> QED
    BY <2>1, FS_AddElement
<1>4. MaxSize # 0 =>
         /\ Cardinality(pool \ Overflow(order, pool)) <= MaxSize
         /\ \A j \in Overflow(order, pool), k \in pool :
               <<j, k>> \in order => k \in Overflow(order, pool)
  BY <1>2, <1>3, OverflowSheds
<1>5. ASSUME NEW j \in Pool \ (idle \cup Pool'), NEW k \in Pool \cap Pool', k # ask[t].key
      PROVE  <<k, j>> \in usedAfter
  <2>1. j \in Overflow(order, pool) /\ k \in pool /\ k \notin Overflow(order, pool) /\ MaxSize # 0
    BY <1>2, <1>5 DEF Expired, Overflow
  <2>2. j # ask[t].key /\ j \notin R /\ k \notin R /\ j # k
    BY <1>2, <1>5, <2>1 DEF Expired
  <2>3. <<j, k>> \notin order
    BY <1>4, <2>1
  <2>4. <<j, k>> \notin usedAfter
    BY <1>2, <1>5, <2>2, <2>3 DEF Touched, OrderWithout
  <2> QED
    BY <1>5, <2>2, <2>4 DEF OrderInv, Ordered
<1> QED
  BY <1>2, <1>4, <1>5

\* The cap holds, and retires the least recently used, for any cap and any number of keys.
\* (put, _take_overflow_locked)
THEOREM LeastRecentlyUsed == Spec => LeastRecentlyUsedGoes
<1>1. Init => OrderInv
  BY DEF Init, OrderInv, Ordered, Pool
<1>2. IInv /\ OrderInv /\ [Next]_vars =>
        [\A t \in Threads : Put(t) =>
           /\ MaxSize # 0 => Cardinality(Pool') <= MaxSize
           /\ ask[t].key \in Pool'
           /\ \A j \in Pool \ (idle \cup Pool') : \A k \in Pool \cap Pool' :
                 k # ask[t].key => <<k, j>> \in usedAfter]_vars
  BY PutSheds
<1> QED
  BY <1>1, <1>2, InitIInv, NextKeeps, OrderNext, PTL DEF Spec, LeastRecentlyUsedGoes
=============================================================================
