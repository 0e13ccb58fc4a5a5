---------------------------- MODULE StreamedCall ----------------------------
(***************************************************************************)
(* One brokered call whose answer is forwarded while it arrives:           *)
(* core/broker.py stream() and Streamed, the Upstream of tools/rest, and   *)
(* the OpenAI-compatible route that pulls them (_complete, _relay,         *)
(* _forward, _pulled).                                                     *)
(*                                                                         *)
(* Three Python generators are nested: Streamed._chunks (inner) inside     *)
(* _forward inside the async _pulled.  A generator is "none" (not          *)
(* created), "fresh" (created, its body not entered), "suspended" at a     *)
(* yield, or "closed".  The whole difficulty is that close() runs the      *)
(* finally of a suspended generator and nothing at all of a fresh one.     *)
(*                                                                         *)
(* A chunk has size 1; the byte cap is Cap chunks.                         *)
(***************************************************************************)
EXTENDS Naturals

CONSTANTS MaxChunks,    \* bound: chunks a vendor sends
          Cap           \* the tool's max_response_bytes

ASSUME SizesAssumption == MaxChunks \in Nat /\ Cap \in Nat

VARIABLES
  pc,          \* where the request is, see Places
  stream,      \* the caller asked for a stream
  write,       \* the tool's vetted effect is "write"
  refused,     \* Streamed.refused
  status,      \* the upstream's status: "none", "ok", "denied" (401, 403), "failed"
  upError,     \* Upstream.error is set
  mayHave,     \* Upstream.may_have_completed
  open,        \* the response from the vendor is open
  inner,       \* Streamed._iterator, the _chunks generator
  forward,     \* the _forward generator
  bytes,       \* Streamed.response_bytes
  finalized,   \* Streamed._finalized
  rows,        \* how many audit rows this call has
  row,         \* the outcome of the last of them
  vendor,      \* how the vendor's body ended: "more", "whole", "broke"
  client,      \* "here" or "gone"
  hand,        \* what _pulled just yielded: "none", "chunk", "event"
  got,         \* chunks the client received
  told         \* the client received the terminal error event

streamed == <<refused, inner, bytes, finalized, rows, row>>
upstream == <<status, upError, mayHave, open, vendor>>
asked == <<stream, write>>
vars == <<pc, stream, write, refused, status, upError, mayHave, open, inner,
          forward, bytes, finalized, rows, row, vendor, client, hand, got, told>>

Places == {"start", "relay", "join", "pull", "sent", "dropped", "over"}
Outcomes == {"ok", "oversize", "error", "unknown", "aborted", "deny"}

TypeOK ==
  /\ pc \in Places
  /\ stream \in BOOLEAN /\ write \in BOOLEAN
  /\ refused \in BOOLEAN /\ finalized \in BOOLEAN
  /\ status \in {"none", "ok", "denied", "failed"}
  /\ upError \in BOOLEAN /\ mayHave \in BOOLEAN /\ open \in BOOLEAN
  /\ vendor \in {"more", "whole", "broke"}
  /\ inner \in {"none", "suspended", "closed"}
  /\ forward \in {"none", "fresh", "suspended", "closed"}
  /\ bytes \in 0..(Cap + 1)
  /\ rows \in Nat /\ row \in Outcomes \cup {"none"}
  /\ client \in {"here", "gone"}
  /\ hand \in {"none", "chunk", "event"}
  /\ got \in 0..Cap /\ told \in BOOLEAN

Init ==
  /\ pc = "start"
  /\ stream \in BOOLEAN /\ write \in BOOLEAN
  /\ refused = FALSE
  /\ status = "none" /\ upError = FALSE /\ mayHave = FALSE /\ open = FALSE
  /\ vendor = "more"
  /\ inner = "none" /\ forward = "none"
  /\ bytes = 0 /\ finalized = FALSE
  /\ rows = 0 /\ row = "none"
  /\ client = "here" /\ hand = "none" /\ got = 0 /\ told = FALSE

-----------------------------------------------------------------------------
(* The broker's half: Streamed.                                            *)

\* Streamed._finalize: one row, once, with call()'s bias for a write that
\* may have landed when not one byte came back.
Finalize(outcome, received) ==
  IF finalized
  THEN UNCHANGED <<finalized, rows, row>>
  ELSE /\ finalized' = TRUE
       /\ rows' = rows + 1
       /\ row' = IF /\ outcome = "error" /\ mayHave
                    /\ received = 0 /\ write
                 THEN "unknown" ELSE outcome

\* stream() when _admit refuses, when the tool cannot stream or when its
\* stream_impl raises: the row is already written and the Streamed arrives
\* settled, with nothing behind it.
\* (Mutant: settled() forgets to mark itself final.)
Settled_NotFinal(outcome) ==
  /\ finalized' = FALSE
  /\ rows' = rows + 1
  /\ row' = outcome
  /\ UNCHANGED upstream

Settled(outcome) ==
  /\ finalized' = TRUE
  /\ rows' = rows + 1
  /\ row' = outcome
  /\ UNCHANGED upstream

OpenRefused ==
  /\ pc = "start" /\ pc' = "relay"
  /\ refused' = TRUE
  /\ \E outcome \in {"deny", "error"} : Settled(outcome)
  /\ UNCHANGED <<inner, bytes, forward, client, hand, got, told, asked>>

OpenSettled ==
  /\ pc = "start" /\ pc' = "relay"
  /\ Settled("error")
  /\ UNCHANGED <<refused, inner, bytes, forward, client, hand, got, told, asked>>

\* stream_impl returned an Upstream with no response: an argument it would
\* not send, a connection that never opened, or a request that may have
\* reached the vendor and was not answered.
OpenUnanswered ==
  /\ pc = "start" /\ pc' = "relay"
  /\ upError' = TRUE
  /\ mayHave' \in BOOLEAN
  /\ vendor' = "broke"
  /\ UNCHANGED <<status, open, streamed, forward, client, hand, got, told, asked>>

\* The vendor answered headers.  A 401, a 403 or any other non-2xx sets the
\* error at once; only the body of the first two is withheld.
OpenAnswered ==
  /\ pc = "start" /\ pc' = "relay"
  /\ status' \in {"ok", "denied", "failed"}
  /\ upError' = (status' # "ok")
  /\ open' = TRUE
  /\ UNCHANGED <<mayHave, vendor, streamed, forward, client, hand, got, told, asked>>

\* One turn of _chunks over Upstream.chunks.  NextChunk yields; the other
\* three leave the generator through its finally, which closes the upstream
\* and writes the row.
NextChunk ==
  /\ bytes < MaxChunks /\ bytes < Cap
  /\ bytes' = bytes + 1
  /\ inner' = "suspended"
  /\ UNCHANGED <<refused, finalized, rows, row, upstream>>

Finish(outcome, received) ==
  /\ inner' = "closed"
  /\ open' = FALSE
  /\ bytes' = received
  /\ Finalize(outcome, received)
  /\ UNCHANGED <<refused, status, mayHave>>

OverCap ==
  /\ bytes < MaxChunks /\ bytes = Cap
  /\ Finish("oversize", bytes + 1)
  /\ UNCHANGED <<upError, vendor>>

Ended ==
  /\ vendor' = "whole"
  /\ Finish(IF upError THEN "error" ELSE "ok", bytes)
  /\ UNCHANGED upError

\* A stall longer than the chunk timeout, the wall clock, or a broken stream.
\* (Mutant: the upstream's error is not read after the last chunk.)
Broke_Unread ==
  /\ vendor' = "broke"
  /\ upError' = TRUE
  /\ Finish("ok", bytes)

Broke ==
  /\ vendor' = "broke"
  /\ upError' = TRUE
  /\ Finish("error", bytes)

\* Streamed.close: nothing once finalized; the iterator's own close when
\* there is one, which runs the finally of a suspended generator; otherwise
\* nobody read, and what there was to read decides the outcome.
StreamedClose ==
  IF finalized \/ inner = "closed"
  THEN UNCHANGED <<streamed, upstream>>
  ELSE /\ open' = FALSE
       /\ inner' = IF inner = "suspended" THEN "closed" ELSE inner
       /\ Finalize(IF inner = "none" /\ upError THEN "error" ELSE "aborted", bytes)
       /\ UNCHANGED <<refused, bytes, status, upError, mayHave, vendor>>

-----------------------------------------------------------------------------
(* The route's half: _complete and _relay in the request's own thread.      *)

\* Every raise out of _relay passes through _complete, which closes.
RelayRefuses ==
  /\ pc = "relay" /\ (refused \/ status = "none")
  /\ pc' = "over"
  /\ StreamedClose
  /\ UNCHANGED <<forward, client, hand, got, told, asked>>

\* A refused credential: iterated to its (empty) end, then raised.
RelayDenied ==
  /\ pc = "relay" /\ ~refused /\ status = "denied"
  /\ pc' = "over"
  /\ Finish("error", bytes)
  /\ UNCHANGED <<upError, vendor, forward, client, hand, got, told, asked>>

\* A StreamingResponse around generators none of which has run.
RelayStreams ==
  /\ pc = "relay" /\ ~refused /\ stream /\ status = "ok"
  /\ pc' = "pull"
  /\ forward' = "fresh"
  /\ UNCHANGED <<streamed, upstream, client, hand, got, told, asked>>

\* b"".join(streamed) in the request's thread, which no client interrupts.
RelayJoins ==
  /\ pc = "relay" /\ ~refused
  /\ status = "failed" \/ (status = "ok" /\ ~stream)
  /\ pc' = "join"
  /\ UNCHANGED <<streamed, upstream, forward, client, hand, got, told, asked>>

\* A 2xx cut short becomes a refusal; a vendor's own refusal is relayed as
\* far as it came.
Join ==
  /\ pc = "join"
  /\ \/ NextChunk /\ pc' = "join" /\ UNCHANGED <<got, told>>
     \/ /\ OverCap \/ (Broke /\ status = "ok")
        /\ pc' = "over"
        /\ told' = (client = "here") /\ UNCHANGED got
     \/ /\ Ended \/ (Broke /\ status = "failed")
        /\ pc' = "over"
        /\ got' = IF client = "here" THEN bytes ELSE got
        /\ UNCHANGED told
  /\ UNCHANGED <<forward, client, hand, asked>>

-----------------------------------------------------------------------------
(* The server's half: _pulled, one next() of _forward per thread hop.       *)

\* next(forward): a chunk, a terminal event after an ending the client must
\* be told of, or exhaustion.  A thread that has begun is never abandoned.
\* (Mutants: no terminal event, and an exhaustion that is not noticed.)
Pull_Silent ==
  /\ pc = "pull"
  /\ \/ /\ inner # "closed" /\ NextChunk
        /\ hand' = "chunk" /\ forward' = "suspended" /\ pc' = "sent"
     \/ /\ inner # "closed" /\ (OverCap \/ Broke \/ Ended)
        /\ hand' = "none" /\ forward' = "closed" /\ pc' = "over"
  /\ UNCHANGED <<client, got, told, asked>>

Pull_Forever ==
  /\ pc = "pull"
  /\ \/ /\ inner # "closed" /\ NextChunk
        /\ hand' = "chunk" /\ forward' = "suspended" /\ pc' = "sent"
     \/ /\ inner # "closed" /\ (OverCap \/ Broke \/ Ended)
        /\ hand' = "event" /\ forward' = "suspended" /\ pc' = "sent"
     \/ /\ inner = "closed"
        /\ StreamedClose
        /\ hand' = "none" /\ forward' = "suspended" /\ pc' = "sent"
  /\ UNCHANGED <<client, got, told, asked>>

Pull ==
  /\ pc = "pull"
  /\ \/ /\ inner # "closed" /\ NextChunk
        /\ hand' = "chunk" /\ forward' = "suspended" /\ pc' = "sent"
     \/ /\ inner # "closed" /\ (OverCap \/ Broke)
        /\ hand' = "event" /\ forward' = "suspended" /\ pc' = "sent"
     \/ /\ inner # "closed" /\ Ended
        /\ hand' = "none" /\ forward' = "closed" /\ pc' = "over"
     \/ /\ inner = "closed"
        /\ StreamedClose
        /\ hand' = "none" /\ forward' = "closed" /\ pc' = "over"
  /\ UNCHANGED <<client, got, told, asked>>

\* What was yielded goes out; to a client that has gone it goes nowhere.
Send ==
  /\ pc = "sent" /\ pc' = "pull"
  /\ hand' = "none"
  /\ got' = IF client = "here" /\ hand = "chunk" THEN got + 1 ELSE got
  /\ told' = (told \/ (client = "here" /\ hand = "event"))
  /\ UNCHANGED <<streamed, upstream, forward, client, asked>>

\* iterator.close() in the finally of _pulled: the finally of _forward runs
\* only if its body was entered.
CloseForward ==
  /\ forward' = "closed"
  /\ IF forward = "suspended" THEN StreamedClose ELSE UNCHANGED <<streamed, upstream>>

\* The disconnect cancels the task at its next await.  Between two pulls
\* that is the thread hop itself, before the thread starts.
CancelPull ==
  /\ pc = "pull" /\ client = "gone"
  /\ pc' = "over"
  /\ CloseForward
  /\ UNCHANGED <<client, hand, got, told, asked>>

\* While a chunk is being sent it is the send: _pulled stays suspended, is
\* dropped, and the event loop's finaliser closes it.
CancelSend ==
  /\ pc = "sent" /\ client = "gone"
  /\ pc' = "dropped"
  /\ UNCHANGED <<streamed, upstream, forward, client, hand, got, told, asked>>

Collect ==
  /\ pc = "dropped"
  /\ pc' = "over"
  /\ CloseForward
  /\ UNCHANGED <<client, hand, got, told, asked>>

\* The environment.
ClientLeaves ==
  /\ client = "here" /\ pc # "over"
  /\ client' = "gone"
  /\ UNCHANGED <<pc, streamed, upstream, forward, hand, got, told, asked>>

BrokerStep == OpenRefused \/ OpenSettled \/ OpenUnanswered \/ OpenAnswered
RouteStep == RelayRefuses \/ RelayDenied \/ RelayStreams \/ RelayJoins \/ Join
ServerStep == Pull \/ Send \/ CancelPull \/ CancelSend \/ Collect
Next == BrokerStep \/ RouteStep \/ ServerStep \/ ClientLeaves

Spec == Init /\ [][Next]_vars

\* Threads and the event loop keep running, and every read of the vendor is
\* bounded by the chunk timeout; nothing obliges a client to leave.
FairSpec == Spec /\ WF_vars(BrokerStep \/ RouteStep \/ ServerStep)

-----------------------------------------------------------------------------
(* Properties.                                                             *)

\* The client left a streamed answer before anything was read for it.
LeftUnread == stream /\ status = "ok" /\ client = "gone" /\ inner = "none"

\* "Five endings, and one row for each": never two rows for one call; and
\* when the request is over there is a row and the vendor's response is
\* closed, unless nobody ever began to read it.
OneRowPerCall ==
  /\ rows <= 1
  /\ pc = "over" => (LeftUnread \/ (rows = 1 /\ ~open))

\* What _complete promises: the row is owed the moment the broker admits the
\* call, so no request is over without one.
RowIsOwed == pc = "over" => (rows = 1 /\ ~open)

\* The row tells the truth: ok only of an answer the vendor finished and the
\* broker passed on to the last byte, aborted only of a caller that walked away; and the
\* caller received no more than the tool's cap and no more than the row counts.
RowIsTrue ==
  /\ row = "ok" => (vendor = "whole" /\ bytes <= Cap /\ status = "ok")
  /\ row = "aborted" => client = "gone"
  /\ got <= Cap /\ got <= bytes

\* A caller still there at the end of an answer that ended badly was told so,
\* rather than shown a stream that merely stops.
ToldOfABadEnd ==
  (/\ pc = "over" /\ client = "here" /\ status = "ok"
   /\ row \in {"oversize", "error", "unknown"}) => told

\* Every request is over at some point.
RequestEnds == <>(pc = "over")

\* The claim of the Streamed docstring on "unknown": a write whose request
\* may have reached the vendor and answered nothing - a timeout before the
\* first byte.  Headers are not bytes: a body that breaks before its first
\* byte is such a call.
SilentWriteIsUnknown ==
  (/\ finalized /\ write /\ status = "ok" /\ vendor = "broke" /\ bytes = 0)
     => row = "unknown"
=============================================================================
