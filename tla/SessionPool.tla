----------------------------- MODULE SessionPool -----------------------------
(***************************************************************************)
(* The process-wide pool of live MCP sessions (tools/mcp/client.py,        *)
(* SessionPool) and the threads that use it (tools/mcp/__init__.py,        *)
(* connect and its `call` closure).                                        *)
(*                                                                         *)
(* A key stands for (tenant, connector, fingerprint of the credential).    *)
(* A session is a number, in the order sessions are started; over stdio it *)
(* is a child process, and closing it kills that process.                  *)
(*                                                                         *)
(* Each critical section of the pool's RLock is one atomic step.  What the *)
(* code does outside that lock (the build under a per-key lock, the close  *)
(* of every victim, the use of a session) is a step of its own.            *)
(***************************************************************************)
EXTENDS Naturals, FiniteSets

CONSTANTS
    Threads,       \* the server's worker threads
    Keys,          \* pool keys: (tenant, connector, credential fingerprint)
    Modes,         \* what threads ask for: "call", "connect", "ensure"
    MaxSize,       \* MCP_SESSION_POOL_MAX; 0 means no cap
    MaxSessions,   \* bound: sessions ever started
    MaxCalls,      \* bound: requests one thread makes
    MaxResets,     \* bound: calls of reset() (the lifespan makes one, on exit)
    MaxDeaths      \* bound: servers that exit by themselves

ASSUME ConstantsAssumption ==
    /\ Modes \subseteq {"call", "connect", "ensure"}
    /\ MaxSize \in Nat
    /\ MaxSessions \in Nat
    /\ MaxCalls \in Nat
    /\ MaxResets \in Nat
    /\ MaxDeaths \in Nat

Sessions  == 1 .. MaxSessions
NoSession == 0
NoKey     == "nokey"

\* The threads that close sessions besides the workers: the background pruner
\* and the lifespan, which resets the pool on its way out.
Pruner   == "pruner"
Lifespan == "lifespan"

ASSUME NamesAssumption ==
    /\ Pruner \notin Threads
    /\ Lifespan \notin Threads
    /\ NoKey \notin Keys

Closers == Threads \cup {Pruner, Lifespan}

VARIABLES
    entries,   \* the pool's dict: key -> session, or NoSession
    usedAfter, \* <<k, j>>: the entry of k has a higher seq than the entry of j
    idle,      \* keys whose entry was last used longer ago than the idle TTL
    epoch,     \* how often reset() has replaced the per-key building locks
    built,     \* how many sessions have been started
    owner,     \* the key a session was built for
    closed,    \* sessions whose close() has run
    died,      \* sessions whose server exited by itself
    abandoned, \* sessions whose handshake failed: started, never returned
    closing,   \* per closer: victims taken out of the dict and not closed yet
    pc,        \* per thread: where it is
    ask,       \* per thread: what it asked for
    got,       \* per thread: the session it holds a reference to
    reused,    \* per thread: the session came from the pool, not from a build
    lockEpoch, \* per thread: the generation of the building lock it queued on
    result,    \* per thread: how its last request ended
    left       \* per thread: requests it may still make

poolVars   == <<entries, usedAfter, idle, epoch>>
sessVars   == <<built, owner, closed, died, abandoned>>
threadVars == <<pc, ask, got, reused, lockEpoch, result, left>>
vars       == <<poolVars, sessVars, closing, threadVars>>

-----------------------------------------------------------------------------
(* The dict and its retirement rules.  These three run under the lock.     *)

Pool == {k \in Keys : entries[k] # NoSession}

\* A dict, a list of victims and an order, once the keys R are popped.
Without(dict, R)    == [k \in Keys |-> IF k \in R THEN NoSession ELSE dict[k]]
SessionsOf(dict, R) == {dict[k] : k \in R} \ {NoSession}

OrderWithout(order, R) == {p \in order : p[1] \notin R /\ p[2] \notin R}

\* _take_expired_locked: every entry idle past the TTL.
Expired == idle \cap Pool

\* _take_overflow_locked: with an entry for k written, the least recently used
\* entries above the cap.  An entry overflows when MaxSize others were used
\* later.
Overflow_Reversed(order, pool) ==  \* mutant: sorted the other way round
    {j \in pool : /\ MaxSize # 0
                  /\ Cardinality({i \in pool : <<j, i>> \in order}) >= MaxSize}

Overflow(order, pool) ==
    {j \in pool : /\ MaxSize # 0
                  /\ Cardinality({i \in pool : <<i, j>> \in order}) >= MaxSize}

\* The order once k has been given the next seq.
Touched(order, pool, k) ==
    {p \in order : p[2] # k} \cup {<<k, j>> : j \in pool \ {k}}

Alive(s) == s \notin closed \cup died

-----------------------------------------------------------------------------
Init ==
    /\ entries   = [k \in Keys |-> NoSession]
    /\ usedAfter = {}
    /\ idle      = {}
    /\ epoch     = 0
    /\ built     = 0
    /\ owner     = [s \in Sessions |-> NoKey]
    /\ closed    = {}
    /\ died      = {}
    /\ abandoned = {}
    /\ closing   = [c \in Closers |-> {}]
    /\ pc        = [t \in Threads |-> "idle"]
    /\ ask       = [t \in Threads |-> [key |-> NoKey, mode |-> "call", attempt |-> 1]]
    /\ got       = [t \in Threads |-> NoSession]
    /\ reused    = [t \in Threads |-> FALSE]
    /\ lockEpoch = [t \in Threads |-> 0]
    /\ result    = [t \in Threads |-> "none"]
    /\ left      = [t \in Threads |-> MaxCalls]

-----------------------------------------------------------------------------
(* One thread.  A thread closes the victims it took before it goes on, so  *)
(* every step of it but CloseVictim waits for closing[t] to be empty.      *)

At(t, where) == pc[t] = where /\ closing[t] = {}

Goto(t, where) == pc' = [pc EXCEPT ![t] = where]

\* The request of thread t ends, and with it the reference to the session.
Finish(t, how) ==
    /\ Goto(t, "idle")
    /\ result' = [result EXCEPT ![t] = how]

Holds_AfterFailure(t) ==  \* mutant: acquire() and release(), and no `with`
    \/ pc[t] \in {"recheck", "spawn", "handshake", "put", "release"}
    \/ pc[t] = "idle" /\ result[t] = "error"

\* The thread holds the building lock of its key: it is inside `with building`.
Holds(t) == pc[t] \in {"recheck", "spawn", "handshake", "put", "release"}

\* A call of a bound tool; `connect`, which lists the tools of the server; or
\* `ensure_session`, which only wants the session to exist.
Start(t, k, m) ==
    /\ At(t, "idle")
    /\ left[t] > 0
    /\ left'   = [left EXCEPT ![t] = @ - 1]
    /\ ask'    = [ask EXCEPT ![t] = [key |-> k, mode |-> m, attempt |-> 1]]
    /\ got'    = [got EXCEPT ![t] = NoSession]
    /\ reused' = [reused EXCEPT ![t] = FALSE]
    /\ result' = [result EXCEPT ![t] = "none"]
    /\ Goto(t, "lookup")
    /\ UNCHANGED <<poolVars, sessVars, closing, lockEpoch>>

\* SessionPool.get: expire, then look the key up and touch it.  A hit goes to
\* `hit`, a miss to `miss`.
Get(t, hit, miss) ==
    LET k     == ask[t].key
        after == Without(entries, Expired)
        found == after[k]
    IN  /\ closing' = [closing EXCEPT ![t] = SessionsOf(entries, Expired)]
        /\ entries' = after
        /\ idle'    = idle \ Expired
        /\ IF found # NoSession
           THEN /\ usedAfter' = Touched(OrderWithout(usedAfter, Expired), Pool \ Expired, k)
                /\ got'       = [got EXCEPT ![t] = found]
                /\ reused'    = [reused EXCEPT ![t] = TRUE]
                /\ Goto(t, hit)
           ELSE /\ usedAfter' = OrderWithout(usedAfter, Expired)
                /\ Goto(t, miss)
                /\ UNCHANGED <<got, reused>>
        /\ UNCHANGED <<epoch, sessVars, ask, lockEpoch, result, left>>

Lookup(t) == At(t, "lookup") /\ Get(t, "use", "miss")

\* Fetch the building lock of the key, making it if need be; then block on it.
Queue(t) ==
    /\ At(t, "miss")
    /\ lockEpoch' = [lockEpoch EXCEPT ![t] = epoch]
    /\ Goto(t, "wait")
    /\ UNCHANGED <<poolVars, sessVars, closing, ask, got, reused, result, left>>

SameLock(t, u) == ask[t].key = ask[u].key /\ lockEpoch[t] = lockEpoch[u]

Acquire_PerThread(t) ==  \* mutant: every thread makes a lock of its own
    /\ At(t, "wait")
    /\ Goto(t, "recheck")
    /\ UNCHANGED <<poolVars, sessVars, closing, ask, got, reused, lockEpoch, result, left>>

Acquire(t) ==
    /\ At(t, "wait")
    /\ ~ \E u \in Threads \ {t} : Holds(u) /\ SameLock(t, u)
    /\ Goto(t, "recheck")
    /\ UNCHANGED <<poolVars, sessVars, closing, ask, got, reused, lockEpoch, result, left>>

Recheck_Skipped(t) ==  \* mutant: single-checked locking
    /\ At(t, "recheck")
    /\ Goto(t, "spawn")
    /\ UNCHANGED <<poolVars, sessVars, closing, ask, got, reused, lockEpoch, result, left>>

\* Another thread may have finished building while this one queued.
Recheck(t) == At(t, "recheck") /\ Get(t, "release", "spawn")

\* The factory, first half: the transport is made and the server started.  It
\* may fail (no such program, egress refused, connection refused).
Spawn(t) ==
    /\ At(t, "spawn")
    /\ \/ LET s == built + 1
          IN  /\ built < MaxSessions
              /\ built' = s
              /\ owner' = [owner EXCEPT ![s] = ask[t].key]
              /\ got'   = [got EXCEPT ![t] = s]
              /\ reused' = [reused EXCEPT ![t] = FALSE]
              /\ Goto(t, "handshake")
              /\ UNCHANGED result
       \/ /\ Finish(t, "error")
          /\ UNCHANGED <<built, owner, got, reused>>
    /\ UNCHANGED <<poolVars, closed, died, abandoned, closing, ask, lockEpoch, left>>

\* The factory, second half: initialize().  When it raises, _initialized lets
\* the exception through and nobody closes the transport it had opened.
Handshake(t) ==
    /\ At(t, "handshake")
    /\ \/ /\ Alive(got[t])
          /\ Goto(t, "put")
          /\ UNCHANGED <<abandoned, result>>
       \/ /\ abandoned' = abandoned \cup {got[t]}
          /\ Finish(t, "error")
    /\ UNCHANGED <<poolVars, built, owner, closed, died, closing, ask, got, reused,
                   lockEpoch, left>>

\* SessionPool.put: write the entry, then expire, then shed the overflow.  An
\* entry that was there is overwritten, and its session closed by nobody.
Put(t) ==
    LET k       == ask[t].key
        written == [entries EXCEPT ![k] = got[t]]
        expired == Expired \ {k}
        pool    == (Pool \cup {k}) \ expired
        order   == Touched(OrderWithout(usedAfter, expired), pool, k)
        shed    == Overflow(order, pool)
        out     == expired \cup shed
    IN  /\ At(t, "put")
        /\ entries'   = Without(written, out)
        /\ usedAfter' = OrderWithout(order, shed)
        /\ idle'      = idle \ (out \cup {k})
        /\ closing'   = [closing EXCEPT ![t] = SessionsOf(written, out)]
        /\ Goto(t, "release")
        /\ UNCHANGED <<epoch, sessVars, ask, got, reused, lockEpoch, result, left>>

Release(t) ==
    /\ At(t, "release")
    /\ Goto(t, "use")
    /\ UNCHANGED <<poolVars, sessVars, closing, ask, got, reused, lockEpoch, result, left>>

\* close() of one victim, outside every lock of the pool and of the session.
CloseVictim(c, s) ==
    /\ s \in closing[c]
    /\ closing' = [closing EXCEPT ![c] = @ \ {s}]
    /\ closed'  = closed \cup {s}
    /\ UNCHANGED <<poolVars, built, owner, died, abandoned, threadVars>>

\* A request that failed.  `connect` retires a session it had reused, and only
\* then, and dials once more; everything else reports the failure.
Fail(t, how) ==
    IF ask[t].mode = "connect" /\ ask[t].attempt = 1 /\ reused[t]
    THEN Goto(t, "evict") /\ UNCHANGED result
    ELSE Finish(t, how)

\* ensure_session returns once there is a session.
Ensured(t) ==
    /\ At(t, "use")
    /\ ask[t].mode = "ensure"
    /\ Finish(t, "ok")
    /\ UNCHANGED <<poolVars, sessVars, closing, ask, got, reused, lockEpoch, left>>

\* Take the session's lock and send.  A server that is gone refuses the write:
\* nothing was delivered.
Send(t) ==
    /\ At(t, "use")
    /\ ask[t].mode # "ensure"
    /\ ~ \E u \in Threads \ {t} : pc[u] = "inflight" /\ got[u] = got[t]
    /\ IF Alive(got[t])
       THEN Goto(t, "inflight") /\ UNCHANGED result
       ELSE Fail(t, "error")
    /\ UNCHANGED <<poolVars, sessVars, closing, ask, got, reused, lockEpoch, left>>

\* The reply; or none by the deadline; or the server is gone, with the request
\* already on the wire.  The last two are delivered=True: the outcome is unknown.
Await(t) ==
    /\ At(t, "inflight")
    /\ \/ Alive(got[t]) /\ Finish(t, "ok")
       \/ Fail(t, "unknown")
    /\ UNCHANGED <<poolVars, sessVars, closing, ask, got, reused, lockEpoch, left>>

Evict_NoPop(t) ==  \* mutant: closed, and left in the dict
    /\ At(t, "evict")
    /\ closing' = [closing EXCEPT ![t] = SessionsOf(entries, {ask[t].key})]
    /\ ask'     = [ask EXCEPT ![t].attempt = 2]
    /\ Goto(t, "lookup")
    /\ UNCHANGED <<poolVars, sessVars, got, reused, lockEpoch, result, left>>

\* SessionPool.evict, by key: whatever the pool now holds for this key.
Evict(t) ==
    LET k == ask[t].key
    IN  /\ At(t, "evict")
        /\ closing'   = [closing EXCEPT ![t] = SessionsOf(entries, {k})]
        /\ entries'   = Without(entries, {k})
        /\ usedAfter' = OrderWithout(usedAfter, {k})
        /\ idle'      = idle \ {k}
        /\ ask'       = [ask EXCEPT ![t].attempt = 2]
        /\ Goto(t, "lookup")
        /\ UNCHANGED <<epoch, sessVars, got, reused, lockEpoch, result, left>>

-----------------------------------------------------------------------------
(* The rest of the process, and the servers.                               *)

\* SessionPruner.sweep_once -> SessionPool.prune, until the lifespan stops it.
Prune ==
    /\ epoch = 0
    /\ closing[Pruner] = {}
    /\ Expired # {}
    /\ closing'   = [closing EXCEPT ![Pruner] = SessionsOf(entries, Expired)]
    /\ entries'   = Without(entries, Expired)
    /\ usedAfter' = OrderWithout(usedAfter, Expired)
    /\ idle'      = idle \ Expired
    /\ UNCHANGED <<epoch, sessVars, threadVars>>

\* SessionPool.reset: forget the entries and the building locks.
Reset ==
    /\ epoch < MaxResets
    /\ closing[Lifespan] = {}
    /\ epoch'     = epoch + 1
    /\ closing'   = [closing EXCEPT ![Lifespan] = SessionsOf(entries, Pool)]
    /\ entries'   = Without(entries, Pool)
    /\ usedAfter' = {}
    /\ idle'      = {}
    /\ UNCHANGED <<sessVars, threadVars>>

\* Time passes the TTL of the least recently used entry that is not idle yet.
GrowIdle(k) ==
    /\ k \in Pool \ idle
    /\ \A j \in Pool \ idle : <<k, j>> \notin usedAfter
    /\ idle' = idle \cup {k}
    /\ UNCHANGED <<entries, usedAfter, epoch, sessVars, closing, threadVars>>

\* A server exits, or its endpoint recycles the session.
ServerDies(s) ==
    /\ s \in 1 .. built
    /\ Alive(s)
    /\ Cardinality(died) < MaxDeaths
    /\ died' = died \cup {s}
    /\ UNCHANGED <<poolVars, built, owner, closed, abandoned, closing, threadVars>>

-----------------------------------------------------------------------------
Step(t) ==
    \/ Lookup(t) \/ Queue(t) \/ Acquire(t) \/ Recheck(t)
    \/ Spawn(t) \/ Handshake(t) \/ Put(t) \/ Release(t)
    \/ Ensured(t) \/ Send(t) \/ Await(t) \/ Evict(t)

Next ==
    \/ \E t \in Threads, k \in Keys, m \in Modes : Start(t, k, m)
    \/ \E t \in Threads : Step(t)
    \/ \E c \in Closers, s \in Sessions : CloseVictim(c, s)
    \/ Prune
    \/ Reset
    \/ \E k \in Keys : GrowIdle(k)
    \/ \E s \in Sessions : ServerDies(s)

Spec == Init /\ [][Next]_vars

\* Threads keep running, and a close() returns; nobody owes a request, an idle
\* entry or a sweep.
Fairness ==
    /\ \A t \in Threads : WF_vars(Step(t))
    /\ \A c \in Closers : WF_vars(\E s \in Sessions : CloseVictim(c, s))

FairSpec == Spec /\ Fairness

-----------------------------------------------------------------------------
(* Properties.                                                             *)

PoolTypeOK ==
    /\ entries \in [Keys -> Sessions \cup {NoSession}]
    /\ usedAfter \subseteq Pool \X Pool
    /\ idle \subseteq Pool
    /\ epoch \in 0 .. MaxResets

SessionTypeOK ==
    /\ built \in 0 .. MaxSessions
    /\ owner \in [Sessions -> Keys \cup {NoKey}]
    /\ closed \subseteq 1 .. built
    /\ died \subseteq 1 .. built
    /\ abandoned \subseteq 1 .. built
    /\ closing \in [Closers -> SUBSET Sessions]

Places == {"idle", "lookup", "miss", "wait", "recheck", "spawn", "handshake",
           "put", "release", "use", "inflight", "evict"}

ThreadTypeOK ==
    /\ pc \in [Threads -> Places]
    /\ ask \in [Threads -> [key : Keys \cup {NoKey}, attempt : 1 .. 2,
                            mode : {"call", "connect", "ensure"}]]
    /\ got \in [Threads -> Sessions \cup {NoSession}]
    /\ reused \in [Threads -> BOOLEAN]
    /\ lockEpoch \in [Threads -> 0 .. MaxResets]
    /\ result \in [Threads -> {"none", "ok", "error", "unknown"}]
    /\ left \in [Threads -> 0 .. MaxCalls]

TypeOK == PoolTypeOK /\ SessionTypeOK /\ ThreadTypeOK

\* Where a started session can be.
Pooled(s)       == \E k \in Keys : entries[k] = s
BuiltBy(t, s)   == pc[t] \in {"handshake", "put"} /\ got[t] = s
BeingBuilt(s)   == \E t \in Threads : BuiltBy(t, s)
AboutToClose(s) == \E c \in Closers : s \in closing[c]

\* "Building at most one session per key, ever": while reset() has not replaced
\* the building locks, no two threads are inside the factory for one key, and
\* nobody is there for a key the pool already serves.  (get_or_create)
OneBuilderPerKey ==
    epoch = 0 =>
        \A t \in Threads : pc[t] \in {"spawn", "handshake", "put"} =>
            /\ entries[ask[t].key] = NoSession
            /\ \A u \in Threads \ {t} :
                  pc[u] \in {"spawn", "handshake", "put"} => ask[u].key # ask[t].key

\* No session is forgotten: until reset() runs, a started session is in the
\* pool, in the hands of its builder, on some closer's list, or closed; the only
\* ones nobody will ever close are those whose handshake failed.
\* (get_or_create, put, evict, prune)
NoSessionForgotten ==
    epoch = 0 =>
        \A s \in 1 .. built :
            Pooled(s) \/ BeingBuilt(s) \/ AboutToClose(s) \/ s \in closed \cup abandoned

\* What the building lock is for: nothing is built twice, and nothing that was built is
\* lost.  (get_or_create)
BuildingIsExclusive == OneBuilderPerKey /\ NoSessionForgotten

\* A session is in one place only: never pooled under two keys, never closed
\* twice or by two threads, and what the pool hands out has not been closed and
\* is on nobody's list to be closed.  (put, evict, prune, reset)
OnePlace ==
    \A s \in 1 .. built :
        /\ Pooled(s) => ~ BeingBuilt(s) /\ ~ AboutToClose(s) /\ s \notin closed \cup abandoned
        /\ BeingBuilt(s) => ~ AboutToClose(s) /\ s \notin closed \cup abandoned
        /\ AboutToClose(s) => s \notin closed \cup abandoned
        /\ \A j, k \in Keys : entries[j] = s /\ entries[k] = s => j = k
        /\ \A c, d \in Closers : s \in closing[c] /\ s \in closing[d] => c = d

\* A call goes out on a session made for the caller's own key: "created when
\* missing, never borrowed".  (connect's `call` closure, get_or_create)
NeverBorrowed ==
    \A t \in Threads :
        pc[t] \in {"use", "inflight", "release"} =>
            got[t] \in 1 .. built /\ owner[got[t]] = ask[t].key

\* Sessions are kept apart, from one another and from other callers.
SessionsStayApart == OnePlace /\ NeverBorrowed

\* The cap holds after every put, and retires the least recently used: a put drops
\* neither the session it publishes nor, expired entries aside, one used after
\* another that it keeps.  (put, _take_overflow_locked)
LeastRecentlyUsedGoes ==
    [][\A t \in Threads : Put(t) =>
         /\ MaxSize # 0 => Cardinality(Pool') <= MaxSize
         /\ ask[t].key \in Pool'
         /\ \A j \in Pool \ (idle \cup Pool') : \A k \in Pool \cap Pool' :
               k # ask[t].key => <<k, j>> \in usedAfter]_vars

\* What the pool promises, locks and threads forgotten: it implements the
\* directory, whose `gone` are the sessions taken out of the dict.
Gone == closed \cup UNION {closing[c] : c \in Closers}

Directory == INSTANCE SessionDirectory WITH live <- entries, gone <- Gone

\* At most one session per key, replaced only after it was retired, and none
\* served again after that.  (SessionPool as a whole)
ImplementsDirectory == Directory!Spec

\* Every request ends: the building lock, the session lock and the closing of
\* victims never leave a thread waiting for ever.  (get_or_create, Session)
RequestsEnd == \A t \in Threads : pc[t] # "idle" ~> pc[t] = "idle"

\* "The pool cap and the idle TTL [are] latency decisions rather than correctness
\* ones": a call whose session the pool itself closed is not reported as one that
\* may have happened.  (tools/mcp/__init__.py, connect.call)
RetirementIsOnlyLatency ==
    [][\A t \in Threads :
         pc[t] = "inflight" /\ result'[t] = "unknown" => got[t] \notin closed]_vars

\* No live process is left that nothing will ever close.  (get_or_create,
\* _initialized)
NoProcessLeaks ==
    \A s \in 1 .. built :
        Alive(s) => Pooled(s) \/ BeingBuilt(s) \/ AboutToClose(s)

\* "This is how it gets retired": once a caller was told that its session is gone,
\* the pool does not hold that session for the next one.  (evict, connect.call)
DeadIsRetired ==
    \A t \in Threads :
        pc[t] = "idle" /\ result[t] = "error" /\ got[t] \in died => ~ Pooled(got[t])
=============================================================================
