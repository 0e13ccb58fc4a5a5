------------------------- MODULE StreamedCallProofs -------------------------
(***************************************************************************)
(* The safety properties of StreamedCall hold for any number of chunks and *)
(* any byte cap.                                                           *)
(*                                                                         *)
(* The argument.  A row is written where _finalized is set, and nowhere    *)
(* else (Counted).  What is behind the Streamed depends on where the       *)
(* request is: nothing before the broker answers, a row or an error in     *)
(* hand when there is no response, an unread response in the route, and    *)
(* under the server a generator whose end is the row's (the five           *)
(* conjuncts of Placed).  A generator that was entered is suspended or     *)
(* closed, so the one request that ends without a row is the one whose     *)
(* generators were never entered.                                          *)
(***************************************************************************)
EXTENDS StreamedCall, TLAPS

-----------------------------------------------------------------------------
(* The strengthening.                                                      *)

\* The rows of a call are counted by _finalized; chunks past the cap are its end.
Counted ==
    /\ finalized => rows = 1 /\ row # "none"
    /\ ~ finalized => rows = 0 /\ row = "none" /\ bytes <= Cap

Untouched ==
    /\ inner = "none" /\ forward = "none" /\ hand = "none"
    /\ bytes = 0 /\ got = 0 /\ ~ told

\* The broker has not answered.
AtStart ==
    /\ Untouched
    /\ ~ refused /\ ~ finalized /\ ~ upError /\ ~ open
    /\ status = "none" /\ vendor = "more"

\* It has: with a row already written, with an error in hand, or with a response.
AtRelay ==
    /\ Untouched
    /\ refused => finalized
    /\ finalized => status = "none" /\ row \in {"deny", "error"}
    /\ status = "none" => ~ open /\ (finalized \/ upError)
    /\ status # "none" => vendor = "more"
    /\ status = "ok" => ~ upError
    /\ status \in {"denied", "failed"} => upError

\* The route reads it to the end in its own thread.
AtJoin ==
    /\ inner # "closed" /\ hand = "none" /\ got = 0
    /\ ~ finalized
    /\ vendor = "more"
    /\ \/ status = "failed" /\ upError
       \/ status = "ok" /\ ~ upError /\ ~ stream

\* The server pulls it: the generator is closed where the row is written.
InFlight ==
    /\ stream /\ status = "ok"
    /\ finalized => /\ inner = "closed" /\ ~ open
                    /\ row \in {"oversize", "error", "unknown"}
    /\ ~ finalized => inner # "closed" /\ vendor = "more" /\ ~ upError
    /\ forward = "fresh" => inner = "none" /\ pc = "pull"
    /\ forward = "suspended" => inner # "none"
    /\ forward \in {"fresh", "suspended"}

\* What was yielded last is what the client is about to be sent.
Handed ==
    /\ pc = "pull" => hand = "none"
    /\ pc = "pull" /\ finalized => told \/ client = "gone"
    /\ pc = "sent" /\ finalized => hand = "event"
    /\ hand = "chunk" => got < bytes /\ got < Cap
    /\ pc = "dropped" => client = "gone"

Placed ==
    /\ pc = "start" => AtStart
    /\ pc = "relay" => AtRelay
    /\ pc = "join" => AtJoin
    /\ pc \in {"pull", "sent", "dropped"} => InFlight /\ Handed

IInv == TypeOK /\ Counted /\ Placed /\ OneRowPerCall /\ RowIsTrue /\ ToldOfABadEnd

-----------------------------------------------------------------------------
(* The broker's half.                                                      *)

LEMMA BrokerKeeps ==
    ASSUME IInv, BrokerStep
    PROVE  IInv'
<1> USE SizesAssumption DEF IInv, Placed, asked, upstream, streamed
<1>1. AtStart /\ pc = "start" /\ rows = 0 /\ row = "none" /\ pc' = "relay"
  BY DEF BrokerStep, OpenRefused, OpenSettled, OpenUnanswered, OpenAnswered, Counted,
         AtStart
<1>2. CASE OpenRefused
  BY <1>1, <1>2 DEF OpenRefused, Settled, TypeOK, Places, Outcomes, Counted, AtStart,
                    AtRelay, Untouched, OneRowPerCall, RowIsTrue, ToldOfABadEnd
<1>3. CASE OpenSettled
  BY <1>1, <1>3 DEF OpenSettled, Settled, TypeOK, Places, Outcomes, Counted, AtStart,
                    AtRelay, Untouched, OneRowPerCall, RowIsTrue, ToldOfABadEnd
<1>4. CASE OpenUnanswered
  BY <1>1, <1>4 DEF OpenUnanswered, TypeOK, Places, Outcomes, Counted, AtStart,
                    AtRelay, Untouched, OneRowPerCall, RowIsTrue, ToldOfABadEnd
<1>5. CASE OpenAnswered
  BY <1>1, <1>5 DEF OpenAnswered, TypeOK, Places, Outcomes, Counted, AtStart,
                    AtRelay, Untouched, OneRowPerCall, RowIsTrue, ToldOfABadEnd
<1> QED
  BY <1>2, <1>3, <1>4, <1>5 DEF BrokerStep

\* _finalize writes the one row, of the outcome it is given or of "unknown" for an error.
LEMMA FinalizeOnce ==
    ASSUME IInv, ~ finalized, NEW outcome \in Outcomes, NEW received \in 0 .. (Cap + 1),
           Finalize(outcome, received)
    PROVE  /\ finalized' = TRUE /\ rows' = 1
           /\ row' \in Outcomes /\ row' # "none"
           /\ row' = outcome \/ (outcome = "error" /\ row' = "unknown")
BY DEF Finalize, IInv, Counted, Outcomes

\* Streamed.close leaves a row and no open response wherever something was read, or
\* there is an error to be told of.
LEMMA CloseSettles ==
    ASSUME IInv, StreamedClose, pc \in {"relay", "pull", "sent", "dropped"},
           inner = "closed" => finalized
    PROVE  /\ finalized' = TRUE /\ rows' = 1 /\ row' \in Outcomes
           /\ UNCHANGED <<refused, bytes, status, upError, mayHave, vendor>>
           /\ inner' \in {"none", "suspended", "closed"}
           /\ open' \in BOOLEAN
           /\ finalized => row' = row /\ open' = open
           /\ ~ finalized => ~ open'
           /\ ~ finalized /\ inner = "none" /\ upError => row' \in {"error", "unknown"}
           /\ ~ finalized /\ ~ (inner = "none" /\ upError) => row' = "aborted"
<1>1. CASE finalized
  BY <1>1 DEF StreamedClose, IInv, TypeOK, Counted, Outcomes, streamed, upstream
<1>2. CASE ~ finalized
  <2>1. /\ open' = FALSE
        /\ inner' = IF inner = "suspended" THEN "closed" ELSE inner
        /\ Finalize(IF inner = "none" /\ upError THEN "error" ELSE "aborted", bytes)
        /\ UNCHANGED <<refused, bytes, status, upError, mayHave, vendor>>
    BY <1>2 DEF StreamedClose
  <2>2. bytes \in 0 .. (Cap + 1) /\ inner \in {"none", "suspended", "closed"}
    BY DEF IInv, TypeOK
  <2>3. CASE inner = "none" /\ upError
    <3>1. Finalize("error", bytes)
      BY <2>1, <2>3
    <3> QED
      BY <1>2, <2>1, <2>2, <2>3, <3>1, FinalizeOnce DEF Outcomes
  <2>4. CASE ~ (inner = "none" /\ upError)
    <3>1. Finalize("aborted", bytes)
      BY <2>1, <2>4
    <3> QED
      BY <1>2, <2>1, <2>2, <2>4, <3>1, FinalizeOnce DEF Outcomes
  <2> QED
    BY <2>3, <2>4
<1> QED
  BY <1>1, <1>2

\* A request that is over with its row written has only the row to answer for.
LEMMA OverKeeps ==
    ASSUME TypeOK', pc' = "over", finalized' = TRUE, rows' = 1, row' \in Outcomes,
           open' = FALSE, RowIsTrue', ToldOfABadEnd'
    PROVE  IInv'
BY DEF IInv, Counted, Placed, OneRowPerCall, Outcomes

-----------------------------------------------------------------------------
(* The route's half.                                                       *)

LEMMA RouteKeeps ==
    ASSUME IInv, RouteStep
    PROVE  IInv'
<1> USE SizesAssumption DEF IInv, Placed, asked, upstream, streamed
<1>1. CASE RelayRefuses
  <2>1. pc = "relay" /\ AtRelay /\ pc' = "over" /\ (refused \/ status = "none")
    BY <1>1 DEF RelayRefuses
  <2>2. /\ finalized' = TRUE /\ rows' = 1 /\ row' \in {"deny", "error", "unknown"}
        /\ ~ open'
        /\ UNCHANGED <<bytes, status, upError, mayHave, vendor>>
    BY <1>1, <2>1, CloseSettles DEF RelayRefuses, AtRelay, Untouched, Counted
  <2> QED
    BY <1>1, <2>1, <2>2, CloseSettles
       DEF RelayRefuses, AtRelay, Untouched, TypeOK, Places, Outcomes, Counted,
           OneRowPerCall, RowIsTrue, ToldOfABadEnd
<1>2. CASE RelayDenied
  <2>1. pc = "relay" /\ AtRelay /\ pc' = "over" /\ ~ finalized /\ status = "denied"
    BY <1>2 DEF RelayDenied, AtRelay
  <2>2. finalized' = TRUE /\ rows' = 1 /\ row' \in {"error", "unknown"}
    BY <1>2, <2>1, FinalizeOnce DEF RelayDenied, Finish, TypeOK, Outcomes
  <2>3. TypeOK'
    <3>1. bytes' \in 0 .. (Cap + 1) /\ got' \in 0 .. Cap /\ rows' \in Nat
      BY <1>2, <2>2 DEF RelayDenied, Finish, TypeOK
    <3>2. /\ inner' = "closed" /\ open' = FALSE
          /\ UNCHANGED <<refused, status, mayHave, upError, vendor, forward, client, hand,
                         told, stream, write>>
      BY <1>2 DEF RelayDenied, Finish
    <3>3. /\ {refused', upError', mayHave', open', told', stream', write'} \subseteq BOOLEAN
          /\ finalized' \in BOOLEAN
      BY <2>2, <3>2 DEF TypeOK
    <3>4. /\ pc' \in Places /\ row' \in Outcomes
          /\ inner' \in {"none", "suspended", "closed"}
          /\ status' \in {"none", "ok", "denied", "failed"}
          /\ vendor' \in {"more", "whole", "broke"}
          /\ forward' \in {"none", "fresh", "suspended", "closed"}
          /\ client' \in {"here", "gone"} /\ hand' \in {"none", "chunk", "event"}
      BY <2>1, <2>2, <3>2 DEF TypeOK, Places, Outcomes
    <3> QED
      BY <3>1, <3>3, <3>4 DEF TypeOK
  <2>4. RowIsTrue' /\ ToldOfABadEnd'
    BY <1>2, <2>1, <2>2
       DEF RelayDenied, Finish, AtRelay, Untouched, TypeOK, RowIsTrue, ToldOfABadEnd
  <2> QED
    BY <1>2, <2>1, <2>2, <2>3, <2>4, OverKeeps DEF RelayDenied, Finish, Outcomes
<1>3. CASE RelayStreams
  BY <1>3 DEF RelayStreams, AtRelay, Untouched, InFlight, Handed, TypeOK, Places,
              Outcomes, Counted, OneRowPerCall, RowIsTrue, ToldOfABadEnd
<1>4. CASE RelayJoins
  BY <1>4 DEF RelayJoins, AtRelay, Untouched, AtJoin, TypeOK, Places,
              Outcomes, Counted, OneRowPerCall, RowIsTrue, ToldOfABadEnd
<1>5. CASE Join
  <2>1. pc = "join" /\ AtJoin /\ ~ finalized /\ rows = 0
    BY <1>5 DEF Join, AtJoin, Counted
  <2>2. CASE NextChunk /\ pc' = "join" /\ UNCHANGED <<got, told>>
    BY <1>5, <2>1, <2>2
       DEF Join, NextChunk, AtJoin, TypeOK, Places, Outcomes, Counted, OneRowPerCall,
           RowIsTrue, ToldOfABadEnd
  <2>3. CASE /\ OverCap \/ (Broke /\ status = "ok")
             /\ pc' = "over"
             /\ told' = (client = "here") /\ UNCHANGED got
    <3>1. CASE OverCap
      <4>1. finalized' = TRUE /\ rows' = 1 /\ row' = "oversize"
        <5>1. Finalize("oversize", bytes + 1) /\ bytes + 1 \in 0 .. (Cap + 1)
          BY <3>1 DEF OverCap, Finish, TypeOK
        <5> QED
          BY <2>1, <5>1, FinalizeOnce DEF Outcomes
      <4>2. TypeOK'
        <5>1. bytes' \in 0 .. (Cap + 1) /\ got' \in 0 .. Cap /\ rows' \in Nat
          BY <2>1, <2>3, <3>1, <4>1 DEF OverCap, Finish, TypeOK, Counted
        <5>2. told' \in BOOLEAN
          BY <2>3 DEF TypeOK
        <5>3. UNCHANGED <<refused, status, mayHave, forward, client, hand, stream, write>>
          BY <1>5, <3>1 DEF Join, OverCap, Finish
        <5>4. upError' \in BOOLEAN /\ vendor' \in {"more", "whole", "broke"}
          BY <3>1 DEF OverCap, TypeOK
        <5> QED
          BY <2>3, <3>1, <4>1, <5>1, <5>2, <5>3, <5>4
             DEF OverCap, Finish, TypeOK, Places, Outcomes
      <4>3. RowIsTrue'
        BY <1>5, <2>1, <2>3, <3>1, <4>1
           DEF Join, OverCap, Finish, AtJoin, TypeOK, Counted, RowIsTrue
      <4>4. ToldOfABadEnd'
        BY <1>5, <2>1, <2>3, <3>1, <4>1
           DEF Join, OverCap, Finish, AtJoin, TypeOK, ToldOfABadEnd
      <4> QED
        BY <2>3, <3>1, <4>1, <4>2, <4>3, <4>4, OverKeeps
           DEF OverCap, Finish, Outcomes
    <3>2. CASE Broke /\ status = "ok"
      <4>1. finalized' = TRUE /\ rows' = 1 /\ row' \in {"error", "unknown"}
        BY <2>1, <3>2, FinalizeOnce DEF Broke, Finish, TypeOK, Outcomes
      <4>2. TypeOK'
        BY <1>5, <2>1, <2>3, <3>2, <4>1
           DEF Join, Broke, Finish, AtJoin, TypeOK, Places, Outcomes, Counted
      <4>3. RowIsTrue'
        BY <1>5, <2>1, <2>3, <3>2, <4>1
           DEF Join, Broke, Finish, AtJoin, TypeOK, Counted, RowIsTrue
      <4>4. ToldOfABadEnd'
        BY <1>5, <2>1, <2>3, <3>2, <4>1
           DEF Join, Broke, Finish, AtJoin, TypeOK, ToldOfABadEnd
      <4> QED
        BY <2>3, <3>2, <4>1, <4>2, <4>3, <4>4, OverKeeps
           DEF Broke, Finish, Outcomes
    <3> QED
      BY <2>3, <3>1, <3>2
  <2>4. CASE /\ Ended \/ (Broke /\ status = "failed")
             /\ pc' = "over"
             /\ got' = (IF client = "here" THEN bytes ELSE got)
             /\ UNCHANGED told
    <3>1. CASE Ended
      <4>1. /\ finalized' = TRUE /\ rows' = 1
            /\ upError => row' \in {"error", "unknown"}
            /\ ~ upError => row' = "ok"
        BY <2>1, <3>1, FinalizeOnce DEF Ended, Finish, TypeOK, Outcomes
      <4>2. TypeOK'
        <5>1. bytes' \in 0 .. (Cap + 1) /\ got' \in 0 .. Cap /\ rows' \in Nat
          BY <2>1, <2>4, <3>1, <4>1 DEF Ended, Finish, TypeOK, Counted
        <5>2. told' \in BOOLEAN
          BY <2>4 DEF TypeOK
        <5>3. UNCHANGED <<refused, status, mayHave, forward, client, hand, stream, write>>
          BY <1>5, <3>1 DEF Join, Ended, Finish
        <5>4. upError' \in BOOLEAN /\ vendor' \in {"more", "whole", "broke"}
          BY <3>1 DEF Ended, TypeOK
        <5> QED
          BY <2>4, <3>1, <4>1, <5>1, <5>2, <5>3, <5>4
             DEF Ended, Finish, TypeOK, Places, Outcomes
      <4>3. RowIsTrue'
        BY <1>5, <2>1, <2>4, <3>1, <4>1
           DEF Join, Ended, Finish, AtJoin, TypeOK, Counted, RowIsTrue
      <4>4. ToldOfABadEnd'
        BY <1>5, <2>1, <2>4, <3>1, <4>1
           DEF Join, Ended, Finish, AtJoin, TypeOK, ToldOfABadEnd
      <4> QED
        BY <2>4, <3>1, <4>1, <4>2, <4>3, <4>4, OverKeeps
           DEF Ended, Finish, Outcomes
    <3>2. CASE Broke /\ status = "failed"
      <4>1. finalized' = TRUE /\ rows' = 1 /\ row' \in {"error", "unknown"}
        BY <2>1, <3>2, FinalizeOnce DEF Broke, Finish, TypeOK, Outcomes
      <4>2. TypeOK'
        <5>1. bytes' \in 0 .. (Cap + 1) /\ got' \in 0 .. Cap /\ rows' \in Nat
          BY <2>1, <2>4, <3>2, <4>1 DEF Broke, Finish, TypeOK, Counted
        <5>2. told' \in BOOLEAN
          BY <2>4 DEF TypeOK
        <5>3. UNCHANGED <<refused, status, mayHave, forward, client, hand, stream, write>>
          BY <1>5, <3>2 DEF Join, Broke, Finish
        <5>4. upError' \in BOOLEAN /\ vendor' \in {"more", "whole", "broke"}
          BY <3>2 DEF Broke, TypeOK
        <5> QED
          BY <2>4, <3>2, <4>1, <5>1, <5>2, <5>3, <5>4
             DEF Broke, Finish, TypeOK, Places, Outcomes
      <4>3. RowIsTrue'
        BY <1>5, <2>1, <2>4, <3>2, <4>1
           DEF Join, Broke, Finish, AtJoin, TypeOK, Counted, RowIsTrue
      <4>4. ToldOfABadEnd'
        BY <1>5, <2>1, <2>4, <3>2, <4>1
           DEF Join, Broke, Finish, AtJoin, TypeOK, ToldOfABadEnd
      <4> QED
        BY <2>4, <3>2, <4>1, <4>2, <4>3, <4>4, OverKeeps
           DEF Broke, Finish, Outcomes
    <3> QED
      BY <2>4, <3>1, <3>2
  <2> QED
    BY <1>5, <2>2, <2>3, <2>4 DEF Join
<1> QED
  BY <1>1, <1>2, <1>3, <1>4, <1>5 DEF RouteStep

-----------------------------------------------------------------------------
(* The server's half, and the client.                                      *)

\* The generator ends badly while it is pulled, and the terminal event is handed on.
LEMMA BadEndKeeps ==
    ASSUME IInv, pc = "pull", InFlight, Handed,
           NEW received \in 0 .. (Cap + 1), bytes <= received,
           inner' = "closed", open' = FALSE, bytes' = received,
           finalized' = TRUE, rows' = 1, row' \in {"oversize", "error", "unknown"},
           upError' \in BOOLEAN, vendor' \in {"more", "whole", "broke"},
           UNCHANGED <<refused, status, mayHave>>,
           UNCHANGED <<client, got, told, stream, write>>,
           hand' = "event", forward' = "suspended", pc' = "sent"
    PROVE  IInv'
<1>1. TypeOK'
  BY DEF IInv, TypeOK, Places, Outcomes
<1>2. Counted' /\ OneRowPerCall' /\ ToldOfABadEnd'
  BY DEF Counted, OneRowPerCall, ToldOfABadEnd
<1>3. RowIsTrue'
  BY SizesAssumption DEF IInv, TypeOK, RowIsTrue
<1>4. Placed'
  BY DEF Placed, InFlight, Handed
<1> QED
  BY <1>1, <1>2, <1>3, <1>4 DEF IInv

LEMMA PullKeeps ==
    ASSUME IInv, Pull
    PROVE  IInv'
<1> USE SizesAssumption DEF IInv, Placed, asked, upstream, streamed
<1>1. /\ pc = "pull" /\ InFlight /\ Handed
      /\ UNCHANGED <<client, got, told, stream, write>>
  BY DEF Pull
<1>2. ASSUME inner # "closed", NextChunk,
             hand' = "chunk" /\ forward' = "suspended" /\ pc' = "sent"
      PROVE  IInv'
  BY <1>1, <1>2
     DEF NextChunk, InFlight, Handed, TypeOK, Places, Outcomes, Counted, OneRowPerCall,
         RowIsTrue, ToldOfABadEnd
<1>3. ASSUME inner # "closed", OverCap,
             hand' = "event" /\ forward' = "suspended" /\ pc' = "sent"
      PROVE  IInv'
  <2>1. ~ finalized
    BY <1>1, <1>3 DEF InFlight
  <2>2. finalized' = TRUE /\ rows' = 1 /\ row' = "oversize"
    <3>1. Finalize("oversize", bytes + 1) /\ bytes + 1 \in 0 .. (Cap + 1)
      BY <1>3 DEF OverCap, Finish, TypeOK
    <3> QED
      BY <2>1, <3>1, FinalizeOnce DEF Outcomes
  <2>3. bytes + 1 \in 0 .. (Cap + 1) /\ bytes <= bytes + 1
    BY <1>3 DEF OverCap, TypeOK
  <2> QED
    BY <1>1, <1>3, <2>2, <2>3, BadEndKeeps DEF OverCap, Finish, TypeOK
<1>4. ASSUME inner # "closed", Broke,
             hand' = "event" /\ forward' = "suspended" /\ pc' = "sent"
      PROVE  IInv'
  <2>1. ~ finalized
    BY <1>1, <1>4 DEF InFlight
  <2>2. finalized' = TRUE /\ rows' = 1 /\ row' \in {"error", "unknown"}
    BY <1>4, <2>1, FinalizeOnce DEF Broke, Finish, TypeOK, Outcomes
  <2>3. bytes \in 0 .. (Cap + 1) /\ bytes <= bytes
    BY DEF TypeOK
  <2> QED
    BY <1>1, <1>4, <2>2, <2>3, BadEndKeeps DEF Broke, Finish
<1>5. ASSUME inner # "closed", Ended,
             hand' = "none" /\ forward' = "closed" /\ pc' = "over"
      PROVE  IInv'
  <2>1. ~ finalized
    BY <1>1, <1>5 DEF InFlight
  <2>2. finalized' = TRUE /\ rows' = 1 /\ row' = "ok"
    BY <1>1, <1>5, <2>1, FinalizeOnce DEF Ended, Finish, InFlight, TypeOK, Outcomes
  <2>3. TypeOK'
    BY <1>1, <1>5, <2>2 DEF Ended, Finish, TypeOK, Places, Outcomes
  <2>4. RowIsTrue' /\ ToldOfABadEnd'
    BY <1>1, <1>5, <2>1, <2>2
       DEF Ended, Finish, InFlight, TypeOK, Counted, RowIsTrue, ToldOfABadEnd
  <2> QED
    BY <1>5, <2>2, <2>3, <2>4, OverKeeps DEF Ended, Finish, Outcomes
<1>6. ASSUME inner = "closed", StreamedClose,
             hand' = "none" /\ forward' = "closed" /\ pc' = "over"
      PROVE  IInv'
  BY <1>1, <1>6
     DEF StreamedClose, InFlight, Handed, TypeOK, Places, Outcomes, Counted,
         OneRowPerCall, RowIsTrue, ToldOfABadEnd
<1> QED
  BY <1>2, <1>3, <1>4, <1>5, <1>6 DEF Pull

\* The end of a pulled answer whose client has gone: fresh generators are closed without
\* a word, and suspended ones through their finally.
LEMMA CloseForwardKeeps ==
    ASSUME IInv, CloseForward, pc \in {"pull", "dropped"}, client = "gone", pc' = "over",
           UNCHANGED <<client, hand, got, told, asked>>
    PROVE  IInv'
<1> USE SizesAssumption DEF IInv, Placed, asked, upstream, streamed
<1>1. InFlight
  OBVIOUS
<1>2. CASE forward = "suspended"
  <2>1. StreamedClose /\ forward' = "closed" /\ inner # "none"
    BY <1>1, <1>2 DEF CloseForward, InFlight
  <2>2. /\ finalized' = TRUE /\ rows' = 1 /\ row' \in Outcomes
        /\ UNCHANGED <<refused, bytes, status, upError, mayHave, vendor>>
        /\ inner' \in {"none", "suspended", "closed"}
        /\ open' = FALSE
        /\ row' \in {"oversize", "error", "unknown", "aborted"}
    BY <1>1, <2>1, CloseSettles DEF InFlight, TypeOK
  <2>3. TypeOK'
    <3>1. TypeOK /\ pc' \in Places /\ 1 \in Nat
      BY DEF Places
    <3>2. /\ refused' \in BOOLEAN /\ finalized' \in BOOLEAN /\ open' \in BOOLEAN
          /\ row' \in Outcomes \cup {"none"} /\ forward' \in {"none", "fresh", "suspended", "closed"}
      BY <2>1, <2>2, <3>1 DEF TypeOK
    <3> QED
      BY <2>2, <3>1, <3>2 DEF TypeOK
  <2>4. RowIsTrue' /\ ToldOfABadEnd'
    BY <2>2 DEF TypeOK, RowIsTrue, ToldOfABadEnd
  <2> QED
    BY <2>2, <2>3, <2>4, OverKeeps
<1>3. CASE forward = "fresh"
  <2>1. /\ UNCHANGED <<stream, write, refused, status, upError, mayHave, open, inner, bytes,
                       finalized, rows, row, vendor, client, hand, got, told>>
        /\ forward' = "closed"
    BY <1>3 DEF CloseForward
  <2>2. /\ stream /\ status = "ok" /\ inner = "none" /\ ~ finalized
        /\ rows = 0 /\ row = "none" /\ bytes <= Cap
    BY <1>1, <1>3 DEF InFlight, Counted
  <2>3. TypeOK'
    BY <2>1 DEF TypeOK, Places
  <2>4. Counted'
    BY <2>1, <2>2 DEF Counted
  <2>5. OneRowPerCall' /\ ToldOfABadEnd'
    BY <2>1, <2>2 DEF OneRowPerCall, LeftUnread, ToldOfABadEnd
  <2>6. RowIsTrue'
    BY <2>1 DEF RowIsTrue
  <2> QED
    BY <2>3, <2>4, <2>5, <2>6
<1> QED
  BY <1>1, <1>2, <1>3 DEF InFlight

LEMMA ServerKeeps ==
    ASSUME IInv, ServerStep
    PROVE  IInv'
<1> USE SizesAssumption DEF IInv, Placed, asked, upstream, streamed
<1>1. CASE Send
  BY <1>1 DEF Send, InFlight, Handed, TypeOK, Places, Outcomes, Counted, OneRowPerCall,
              RowIsTrue, ToldOfABadEnd
<1>2. CASE CancelPull
  BY <1>2, CloseForwardKeeps DEF CancelPull
<1>3. CASE CancelSend
  BY <1>3 DEF CancelSend, InFlight, Handed, TypeOK, Places, Outcomes, Counted,
              OneRowPerCall, RowIsTrue, ToldOfABadEnd
<1>4. CASE Collect
  BY <1>4, CloseForwardKeeps DEF Collect, Handed
<1> QED
  BY <1>1, <1>2, <1>3, <1>4, PullKeeps DEF ServerStep

LEMMA ClientKeeps ==
    ASSUME IInv, ClientLeaves
    PROVE  IInv'
<1> USE SizesAssumption DEF IInv, Placed, asked, upstream, streamed
<1>1. AtStart' = AtStart /\ AtRelay' = AtRelay /\ AtJoin' = AtJoin /\ InFlight' = InFlight
  BY DEF ClientLeaves, AtStart, AtRelay, AtJoin, InFlight, Untouched
<1> QED
  BY <1>1 DEF ClientLeaves, Handed, TypeOK, Places, Outcomes, Counted, OneRowPerCall,
              RowIsTrue, ToldOfABadEnd

-----------------------------------------------------------------------------
LEMMA Start == Init => IInv
<1> SUFFICES ASSUME Init PROVE IInv
  OBVIOUS
<1>1. TypeOK
  <2>1. 0 \in 0 .. (Cap + 1) /\ 0 \in 0 .. Cap
    BY SizesAssumption
  <2> QED
    BY <2>1 DEF Init, TypeOK, Places, Outcomes
<1>2. Counted /\ Placed
  BY SizesAssumption DEF Init, Counted, Placed, AtStart, Untouched
<1>3. OneRowPerCall /\ RowIsTrue /\ ToldOfABadEnd
  BY SizesAssumption DEF Init, OneRowPerCall, RowIsTrue, ToldOfABadEnd
<1> QED
  BY <1>1, <1>2, <1>3 DEF IInv

LEMMA Step == IInv /\ [Next]_vars => IInv'
<1> SUFFICES ASSUME IInv, [Next]_vars PROVE IInv'
  OBVIOUS
<1>1. CASE Next
  BY <1>1, BrokerKeeps, RouteKeeps, ServerKeeps, ClientKeeps DEF Next
<1>2. CASE UNCHANGED vars
  BY <1>2 DEF vars, IInv, TypeOK, Counted, Placed, AtStart, AtRelay, AtJoin, InFlight,
              Handed, Untouched, OneRowPerCall, LeftUnread, RowIsTrue, ToldOfABadEnd
<1> QED
  BY <1>1, <1>2

\* The strengthening is an invariant, whatever the vendor sends and the client does.
THEOREM Invariance == Spec => []IInv
BY Start, Step, PTL DEF Spec

\* Every variable of the call keeps its type, for any cap and any number of chunks.
\* (Streamed, Upstream)
THEOREM TypeCorrect == Spec => []TypeOK
<1>1. IInv => TypeOK
  BY DEF IInv
<1> QED
  BY Invariance, <1>1, PTL

\* "Five endings, and one row for each", of an answer of any length: never two rows, and
\* a row and a closed response at the end of a request unless nobody began to read it.
\* (Streamed._finalize, close)
THEOREM OneRowPerCallHolds == Spec => []OneRowPerCall
<1>1. IInv => OneRowPerCall
  BY DEF IInv
<1> QED
  BY Invariance, <1>1, PTL

\* The row says what happened, and nobody receives more than the cap or than the row
\* counts, for any cap.  (Streamed._chunks)
THEOREM RowIsTrueHolds == Spec => []RowIsTrue
<1>1. IInv => RowIsTrue
  BY DEF IInv
<1> QED
  BY Invariance, <1>1, PTL

\* A client that stayed to the end of an answer that ended badly was told.  (_forward)
THEOREM ToldOfABadEndHolds == Spec => []ToldOfABadEnd
<1>1. IInv => ToldOfABadEnd
  BY DEF IInv
<1> QED
  BY Invariance, <1>1, PTL
=============================================================================
