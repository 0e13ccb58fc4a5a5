------------------------------ MODULE McpSession ------------------------------
(***************************************************************************)
(* One pooled MCP session shared by several threads (tools/mcp/client.py,  *)
(* Session) over its transport (tools/mcp/transport.py): the session lock, *)
(* message ids, the one re-initialisation after an expired session, and    *)
(* the delivered / not delivered verdict that becomes the call's outcome.  *)
(*                                                                         *)
(* The session has completed its first handshake: the pool publishes no    *)
(* other.  A logical call is <<t, n>>, the n-th tools/call of thread t.    *)
(***************************************************************************)
EXTENDS Naturals, Sequences, FiniteSets

CONSTANTS
    Threads,      \* threads that share the session
    Kinds,        \* transports the session may be over: "http", "stdio"
    MaxCalls,     \* bound: calls of each thread
    MaxExpiries,  \* bound: times the server forgets its session
    MaxFaults     \* bound: connections refused, messages the server breaks on, stalls

ASSUME McpAssumption ==
    /\ Kinds \subseteq {"http", "stdio"}
    /\ MaxCalls \in [Threads -> Nat] /\ MaxExpiries \in Nat /\ MaxFaults \in Nat

Calls    == UNION {{t} \X (1 .. MaxCalls[t]) : t \in Threads}
NoThread == "nobody"
NoCall   == <<NoThread, 0>>

ASSUME NoThreadAssumption == NoThread \notin Threads

VARIABLES
    holder,   \* the thread that holds Session._lock
    pc,       \* per thread: "idle", "blocked", "send" or "await"
    what,     \* per thread: the message it is busy with: "call", "init" or "note"
    retrying, \* per thread: the _retrying argument of the request for its call
    made,     \* per thread: calls made so far
    nextId,   \* Session._next_id, notifications counted too
    waitFor,  \* per thread: the id of the reply it waits for
    sid,      \* the transport's session id, 0 when it has none
    srv,      \* the session the server recognises, 0 for none
    ready,    \* the server has had notifications/initialized for srv
    sessions, \* how many sessions the server has had
    cut,      \* sessions whose handshake was cut short
    pending,  \* messages at the server and not handled yet
    inbox,    \* replies not read yet, oldest first
    stalled,  \* the server holds an exchange where no deadline reaches
    executed, \* per call: how often the server ran it
    tries,    \* per call: how often it was posted
    outcome,  \* per call: "none", "ok", "error", "unsent" or "unknown"
    answer,   \* per call: the call whose result, or whose error, it was given
    kind,     \* the transport, chosen once, at launch
    faults, expiries

clientVars == <<holder, pc, what, retrying, made, nextId, waitFor, sid>>
serverVars == <<srv, ready, sessions, cut>>
wireVars   == <<pending, inbox, stalled>>
callVars   == <<executed, tries, outcome, answer>>
boundVars  == <<kind, faults, expiries>>
vars       == <<clientVars, serverVars, wireVars, callVars, boundVars>>

CallOf(t) == <<t, made[t]>>

Init ==
    /\ holder   = NoThread
    /\ pc       = [t \in Threads |-> "idle"]
    /\ what     = [t \in Threads |-> "call"]
    /\ retrying = [t \in Threads |-> FALSE]
    /\ made     = [t \in Threads |-> 0]
    /\ nextId   = 0
    /\ waitFor  = [t \in Threads |-> 0]
    /\ sid      = 1
    /\ srv      = 1
    /\ ready    = TRUE
    /\ sessions = 1
    /\ cut      = {}
    /\ pending  = {}
    /\ inbox    = <<>>
    /\ stalled  = FALSE
    /\ executed = [c \in Calls |-> 0]
    /\ tries    = [c \in Calls |-> 0]
    /\ outcome  = [c \in Calls |-> "none"]
    /\ answer   = [c \in Calls |-> NoCall]
    /\ kind \in Kinds
    /\ faults   = 0
    /\ expiries = 0

-----------------------------------------------------------------------------
(* The client.                                                             *)

\* The request ends, the lock is released.
Finish(t, how) ==
    /\ pc'      = [pc EXCEPT ![t] = "idle"]
    /\ holder'  = NoThread
    /\ outcome' = [outcome EXCEPT ![CallOf(t)] = how]

Raise_Held(t, delivered) ==  \* mutant: acquire() and release(), and no `with`
    /\ pc'      = [pc EXCEPT ![t] = "idle"]
    /\ outcome' = [outcome EXCEPT ![CallOf(t)] = IF delivered THEN "unknown" ELSE "unsent"]
    /\ cut'     = IF what[t] = "note" THEN cut \cup {sid} ELSE cut
    /\ UNCHANGED <<holder, answer>>

\* A TransportError leaves call_tool as a result the broker can audit: delivered is
\* "unknown" (it may have completed); not delivered is "unsent" ("nothing happened").
Raise(t, delivered) ==
    /\ Finish(t, IF delivered THEN "unknown" ELSE "unsent")
    /\ cut' = IF what[t] = "note" THEN cut \cup {sid} ELSE cut
    /\ UNCHANGED answer

\* The next message of thread t.
Turn(t, message) ==
    /\ pc'   = [pc EXCEPT ![t] = "send"]
    /\ what' = [what EXCEPT ![t] = message]

\* A thread makes its next call, and blocks on the session's lock.
Ask(t) ==
    /\ pc[t] = "idle"
    /\ made[t] < MaxCalls[t]
    /\ pc'   = [pc EXCEPT ![t] = "blocked"]
    /\ made' = [made EXCEPT ![t] = @ + 1]
    /\ UNCHANGED <<holder, what, retrying, nextId, waitFor, sid, serverVars, wireVars, callVars,
                   boundVars>>

Begin_NoLock(t) ==  \* mutant: a session without its lock
    /\ pc[t] = "blocked"
    /\ holder'   = t
    /\ retrying' = [retrying EXCEPT ![t] = FALSE]
    /\ Turn(t, "call")
    /\ UNCHANGED <<made, nextId, waitFor, sid, serverVars, wireVars, callVars, boundVars>>

Begin(t) ==
    /\ pc[t] = "blocked"
    /\ holder = NoThread
    /\ holder'   = t
    /\ retrying' = [retrying EXCEPT ![t] = FALSE]
    /\ Turn(t, "call")
    /\ UNCHANGED <<made, nextId, waitFor, sid, serverVars, wireVars, callVars, boundVars>>

\* The message leaves: it is at the server, or on its way there.  (A notification
\* carries no id, but over HTTP it has an answer of its own, the 202.)
Post(t) ==
    /\ pc[t] = "send"
    /\ ~ stalled
    /\ nextId'  = nextId + 1
    /\ pending' = pending \cup {[id |-> nextId + 1, what |-> what[t], call |-> CallOf(t),
                                 sid |-> sid]}
    /\ tries'   = [tries EXCEPT ![CallOf(t)] = IF what[t] = "call" THEN @ + 1 ELSE @]
    /\ waitFor' = [waitFor EXCEPT ![t] = nextId + 1]
    /\ pc'      = [pc EXCEPT ![t] = "await"]
    /\ UNCHANGED <<holder, what, retrying, made, sid, serverVars, inbox, stalled, executed,
                   outcome, answer, boundVars>>

\* The message never leaves: no connection could be made, or the server's process
\* had exited, perhaps while the write was blocked.
CannotConnect(t) ==
    /\ pc[t] = "send"
    /\ faults < MaxFaults
    /\ faults' = faults + 1
    /\ Raise(t, FALSE)
    /\ stalled' = FALSE
    /\ UNCHANGED <<what, retrying, made, nextId, waitFor, sid, srv, ready, sessions, pending,
                   inbox, executed, tries, kind, expiries>>

\* The reply a thread reads next: over HTTP the body of its own response, over
\* stdio whatever line came first.
Readable(t, i) ==
    /\ i \in 1 .. Len(inbox)
    /\ IF kind = "stdio" THEN i = 1 ELSE inbox[i].id = waitFor[t]

Unread(i) == SubSeq(inbox, 1, i - 1) \o SubSeq(inbox, i + 1, Len(inbox))

Mine_Any(t, i) == TRUE  \* mutant: the next reply is the reply

Mine(t, i) == inbox[i].id = waitFor[t]

\* A reply that is not the one awaited is thrown away.
Discard(t, i) ==
    /\ pc[t] = "await"
    /\ Readable(t, i)
    /\ ~ Mine(t, i)
    /\ inbox' = Unread(i)
    /\ UNCHANGED <<clientVars, serverVars, pending, stalled, callVars, boundVars>>

\* The call ends with what the server said.  An error is the server's answer as much
\* as a result is: an McpError (to the call, or to the handshake made for it) and an
\* isError result both become {"error": ...}, with no mark that it may have completed.
Conclude(t, how, reply) ==
    /\ Finish(t, how)
    /\ answer' = [answer EXCEPT ![CallOf(t)] = reply.call]
    /\ UNCHANGED <<what, retrying, cut, sid>>

\* What a successful reply leads to: the result of the call, or the next message
\* of the handshake, and after the handshake the call again.
Proceed(t, reply) ==
    CASE what[t] = "call" -> Conclude(t, "ok", reply)
      [] what[t] = "init" ->
            /\ Turn(t, "note")
            /\ sid' = reply.sid
            /\ UNCHANGED <<holder, retrying, outcome, answer, cut>>
      [] what[t] = "note" ->
            /\ Turn(t, "call")
            /\ retrying' = [retrying EXCEPT ![t] = TRUE]
            /\ UNCHANGED <<holder, outcome, answer, cut, sid>>

Refused_Retried(t, delivered) ==  \* mutant: a dropped stream is retried like a 404
    IF what[t] = "call" /\ ~ retrying[t]
    THEN /\ Turn(t, "call")
         /\ retrying' = [retrying EXCEPT ![t] = TRUE]
         /\ UNCHANGED <<holder, outcome, answer, cut, sid>>
    ELSE /\ Raise(t, delivered)
         /\ UNCHANGED <<what, retrying, sid>>

\* SessionExpired: forget the id; start over once, and only for the call itself.
Expired(t) ==
    /\ sid' = 0
    /\ IF what[t] = "call" /\ ~ retrying[t]
       THEN /\ Turn(t, "init")
            /\ UNCHANGED <<holder, retrying, outcome, answer, cut>>
       ELSE /\ Raise(t, FALSE)
            /\ UNCHANGED <<what, retrying>>

Refused(t, delivered) ==
    /\ Raise(t, delivered)
    /\ UNCHANGED <<what, retrying, sid>>

Receive(t, i) ==
    /\ pc[t] = "await"
    /\ Readable(t, i)
    /\ Mine(t, i)
    /\ inbox' = Unread(i)
    /\ stalled' = FALSE
    /\ CASE inbox[i].verdict = "ok"      -> Proceed(t, inbox[i])
         [] inbox[i].verdict = "error"   -> Conclude(t, "error", inbox[i])
         [] inbox[i].verdict = "expired" -> Expired(t)
         [] inbox[i].verdict = "refused" -> Refused(t, FALSE)
         [] inbox[i].verdict = "failed"  -> Refused(t, TRUE)
    /\ UNCHANGED <<made, nextId, waitFor, srv, ready, sessions, pending, executed, tries,
                   boundVars>>

\* No reply within the timeout, or a process that exits: the message was on the wire,
\* so it counts as delivered.  Over a pipe the timeout bounds the whole wait, and a late
\* reply stays in the pipe; over HTTP it bounds each read of the socket, so it cannot
\* fire while the server keeps the stream busy with what is no reply.
Lose(t) ==
    /\ pc[t] = "await"
    /\ ~ stalled
    /\ kind = "http" => ~ \E i \in 1 .. Len(inbox) : Readable(t, i)
    /\ Refused(t, TRUE)
    /\ UNCHANGED <<made, nextId, waitFor, srv, ready, sessions, wireVars, executed, tries,
                   boundVars>>

\* Only the headers of the reply were read: its session id is kept, its body is lost.
HeadersOnly(t, reply) ==
    /\ what[t] # "note"
    /\ reply.verdict \in {"ok", "error"}
    /\ Finish(t, "unknown")
    /\ sid' = IF reply.sid # 0 THEN reply.sid ELSE sid
    /\ cut' = IF what[t] = "init" THEN cut \cup {sid'} ELSE cut
    /\ UNCHANGED <<what, retrying, answer>>

\* Over HTTP a reply is lost with its connection, whole or from its body on (a stream
\* that breaks off, a body that is no reply).
LoseReply(t, i) ==
    /\ pc[t] = "await"
    /\ kind = "http"
    /\ Readable(t, i)
    /\ inbox'   = Unread(i)
    /\ stalled' = FALSE
    /\ Refused(t, TRUE) \/ HeadersOnly(t, inbox[i])
    /\ UNCHANGED <<made, nextId, waitFor, srv, ready, sessions, pending, executed, tries,
                   boundVars>>

-----------------------------------------------------------------------------
(* The server.                                                             *)

\* Over HTTP a reply travels on the connection of its own request, and reaches nobody
\* when the client has closed it.
Reply(m, verdict, newSid) ==
    inbox' = IF kind = "http" /\ ~ \E t \in Threads : pc[t] = "await" /\ waitFor[t] = m.id
             THEN inbox
             ELSE Append(inbox, [id |-> m.id, verdict |-> verdict, call |-> m.call,
                                 sid |-> newSid])

Knows(m) == m.sid # 0 /\ m.sid = srv

\* A message outside any session it knows: 404 if it names one, 400 if it names none.
TurnAway(m) ==
    /\ ~ Knows(m)
    /\ m.what # "init"
    /\ Reply(m, IF m.sid = 0 THEN "refused" ELSE "expired", 0)
    /\ UNCHANGED <<srv, ready, sessions, executed, faults>>

\* The tool runs, and returns a result or fails: an isError result or a JSON-RPC error.
RunCall(m) ==
    /\ Knows(m)
    /\ m.what = "call"
    /\ executed' = [executed EXCEPT ![m.call] = @ + 1]
    /\ \E verdict \in {"ok", "error"} : Reply(m, verdict, 0)
    /\ UNCHANGED <<srv, ready, sessions, faults>>

\* A JSON-RPC error instead: no such tool, arguments or a version it will not take.
Decline(m) ==
    /\ m.what = "init" \/ (m.what = "call" /\ Knows(m))
    /\ Reply(m, "error", 0)
    /\ UNCHANGED <<srv, ready, sessions, executed, faults>>

OpenSession(m) ==
    /\ m.what = "init"
    /\ sessions' = sessions + 1
    /\ srv'      = sessions + 1
    /\ ready'    = FALSE
    /\ Reply(m, "ok", sessions + 1)
    /\ UNCHANGED <<executed, faults>>

TakeNote(m) ==
    /\ Knows(m)
    /\ m.what = "note"
    /\ ready' = TRUE
    /\ Reply(m, "ok", 0)
    /\ UNCHANGED <<srv, sessions, executed, faults>>

\* The server breaks on a message: before it was dispatched (4xx), or at a point
\* nobody can tell (5xx), the call having run or not.
Break(m) ==
    /\ kind = "http"
    /\ faults < MaxFaults
    /\ faults' = faults + 1
    /\ \/ Reply(m, "refused", 0) /\ UNCHANGED executed
       \/ /\ Reply(m, "failed", 0)
          /\ IF m.what = "call" /\ Knows(m)
             THEN executed' \in {executed, [executed EXCEPT ![m.call] = @ + 1]}
             ELSE UNCHANGED executed
    /\ UNCHANGED <<srv, ready, sessions>>

Handle(m) ==
    /\ m \in pending
    /\ pending' = pending \ {m}
    /\ \/ TurnAway(m) \/ RunCall(m) \/ Decline(m)
       \/ OpenSession(m) \/ TakeNote(m) \/ Break(m)
    /\ UNCHANGED <<clientVars, cut, stalled, tries, outcome, answer, kind, expiries>>

\* The server recycles its session.  A stdio server has one for life.
Expire ==
    /\ kind = "http"
    /\ srv # 0
    /\ expiries < MaxExpiries
    /\ expiries' = expiries + 1
    /\ srv'      = 0
    /\ ready'    = FALSE
    /\ UNCHANGED <<clientVars, sessions, cut, wireVars, callVars, kind, faults>>

\* The server holds the exchange: over HTTP it keeps the response stream busy with
\* keep-alives and messages of its own, over a pipe it stops reading its input and the
\* write blocks.  It may let go, or not.
Stall ==
    /\ ~ stalled
    /\ faults < MaxFaults
    /\ \E t \in Threads :
          IF kind = "http" THEN pc[t] = "await" /\ what[t] # "note" ELSE pc[t] = "send"
    /\ faults'  = faults + 1
    /\ stalled' = TRUE
    /\ UNCHANGED <<clientVars, serverVars, pending, inbox, callVars, kind, expiries>>

Resume ==
    /\ stalled
    /\ stalled' = FALSE
    /\ UNCHANGED <<clientVars, serverVars, pending, inbox, callVars, boundVars>>

-----------------------------------------------------------------------------
Wait(t) ==
    \/ \E i \in 1 .. Len(inbox) : Receive(t, i) \/ Discard(t, i) \/ LoseReply(t, i)
    \/ Lose(t)

Step(t) == Begin(t) \/ Post(t) \/ Wait(t)

Next ==
    \/ \E t \in Threads : Ask(t) \/ Step(t) \/ CannotConnect(t)
    \/ \E m \in pending : Handle(m)
    \/ Expire \/ Stall \/ Resume

Spec == Init /\ [][Next]_vars

\* A thread that can step does: it reads what there is to read, and times out where a
\* timeout runs, which is nowhere while the server stalls it.  Nothing is assumed of
\* the server.
FairSpec == Spec /\ \A t \in Threads : WF_vars(Step(t))

-----------------------------------------------------------------------------
(* Properties.                                                             *)

Messages ==
    [id : Nat, what : {"call", "init", "note"}, call : Calls, sid : Nat]

Replies ==
    [id : Nat, verdict : {"ok", "error", "expired", "refused", "failed"}, call : Calls, sid : Nat]

TypeOK ==
    /\ holder \in Threads \cup {NoThread}
    /\ pc \in [Threads -> {"idle", "blocked", "send", "await"}]
    /\ what \in [Threads -> {"call", "init", "note"}]
    /\ retrying \in [Threads -> BOOLEAN]
    /\ made \in [Threads -> Nat] /\ \A t \in Threads : made[t] <= MaxCalls[t]
    /\ nextId \in Nat
    /\ waitFor \in [Threads -> 0 .. nextId]
    /\ sessions \in Nat /\ sid \in 0 .. sessions /\ srv \in 0 .. sessions
    /\ cut \subseteq 0 .. sessions
    /\ ready \in BOOLEAN
    /\ pending \subseteq Messages
    /\ inbox \in Seq(Replies) /\ stalled \in BOOLEAN
    /\ executed \in [Calls -> Nat] /\ tries \in [Calls -> 0 .. 2]
    /\ outcome \in [Calls -> {"none", "ok", "error", "unsent", "unknown"}]
    /\ answer \in [Calls -> Calls \cup {NoCall}]
    /\ kind \in Kinds
    /\ faults \in 0 .. MaxFaults /\ expiries \in 0 .. MaxExpiries

\* "This retries a write, and that is safe": no call runs twice at the server.
\* (Session._request_locked)
NeverRunTwice == \A c \in Calls : executed[c] <= 1

\* The outcome tells the truth.  "The request never reached the server, so nothing
\* happened": a call reported so never ran and never will (of one that might have, it is
\* "the one lie the audit log must never tell").  A result is the result of this very
\* call, which ran; an error is the server's answer to this very call, run or not.  And
\* only an "unknown" call can still run after its outcome is out.
\* (TransportError.delivered, Session.call_tool, StdioTransport._await, _read_sse)
OutcomeIsTrue == \A c \in Calls :
    /\ outcome[c] = "unsent" => executed[c] = 0
    /\ outcome[c] = "ok" => executed[c] = 1
    /\ outcome[c] \in {"ok", "error"} => answer[c] = c
    /\ outcome[c] \in {"ok", "error", "unsent"} =>
          \A m \in pending : m.what = "call" => m.call # c

\* A reply somebody waits for is at the server, in the inbox or lost by the server,
\* never thrown away by another thread.  (Session._lock, StdioTransport._await)
NoReplyStolen ==
    \A t \in Threads : pc[t] = "await" =>
        \/ \E m \in pending : m.id = waitFor[t] /\ m.call = CallOf(t)
        \/ \E i \in 1 .. Len(inbox) : inbox[i].id = waitFor[t] /\ inbox[i].call = CallOf(t)

\* No tools/call reaches a session between its initialize and its
\* notifications/initialized, unless that handshake was cut short.
\* (Session.initialize)
HandshakeUnbroken ==
    \A m \in pending : m.what = "call" /\ Knows(m) => ready \/ srv \in cut

\* What the session's lock is for: one exchange at a time, the handshake included.
\* (Session.request, Session.initialize)
OneExchangeAtATime == HandshakeUnbroken /\ NoReplyStolen

\* Every call ends, with an answer or a verdict, the calls that queue for the lock too,
\* unless the server holds an exchange for ever.  (Session._lock, _await, _read_sse)
CallsEnd == <>[](~ stalled) => \A t \in Threads : pc[t] # "idle" ~> pc[t] = "idle"

\* "The server could not be reached, or did not answer in time": every call ends,
\* whatever the server does.  (TransportError)
CallsAlwaysEnd == \A t \in Threads : pc[t] # "idle" ~> pc[t] = "idle"

\* A write that is audited as an error "plainly didn't" land: only what may have
\* completed is not an error.  (_is_ambiguous_write, Session.call_tool)
ErrorPlainlyDidNot == \A c \in Calls : outcome[c] \in {"error", "unsent"} => executed[c] = 0

\* "Handshake.  Must complete before anything else is legal": no tools/call reaches
\* a session the server knows and that was never initialized.
\* (Session.initialize)
HandshakeFirst == \A m \in pending : m.what = "call" /\ Knows(m) => ready

\* A call the server refused as outside its session "cannot have executed", so it
\* is never recorded as one that may have: only a failure of the call's own
\* exchange is ambiguous.  (SessionExpired, Session._request_locked)
UnknownIsAboutTheCall ==
    [][\A t \in Threads :
         pc[t] = "await" /\ outcome'[CallOf(t)] = "unknown" => what[t] = "call"]_vars
=============================================================================
