------------------------- MODULE ToolRegistryProofs -------------------------
(***************************************************************************)
(* Proofs about ToolRegistry, for any number of threads, connectors, tools *)
(* and administrative acts.                                                *)
(***************************************************************************)
EXTENDS ToolRegistry, TLAPS

Manifest == [Connectors -> [Tools -> Approval]]

Admin ==
    \E c \in Connectors :
        \/ Deregister(c)
        \/ \E n \in Tools : Vet(c, n) \/ VetRedaction(c, n) \/ Withdraw(c, n)

Entry == [conn : Connectors, row : Approval \ {None}] \cup {Unbound}

-----------------------------------------------------------------------------
(* Type correctness.                                                        *)

LEMMA NoneIsApproval == None \in Approval
  BY RegistryAssumption, SMT DEF None, Approval

\* An administrative act adds one state to the history of the approvals and
\* changes nothing else.
LEMMA Grows ==
  ASSUME TypeOK, Admin
  PROVE  /\ approved' \in Seq(Manifest)
         /\ Now \in Nat /\ Now' = Now + 1 /\ Now <= MaxVets
         /\ \A k \in 1 .. Now : approved'[k] = approved[k]
         /\ UNCHANGED <<bound, call>>
<1>1. PICK m \in Manifest : /\ Now <= MaxVets
                            /\ approved' = Append(approved, m)
                            /\ UNCHANGED <<bound, call>>
  <2>1. approved[Now] \in Manifest
    BY SMT DEF TypeOK, Manifest, Now
  <2>2. ASSUME NEW c \in Connectors, Deregister(c)
        PROVE  \E m \in Manifest : /\ Now <= MaxVets
                                   /\ approved' = Append(approved, m)
                                   /\ UNCHANGED <<bound, call>>
    <3>1. [approved[Now] EXCEPT ![c] = [n \in Tools |-> None]] \in Manifest
      BY <2>1, NoneIsApproval, SMT DEF Manifest
    <3>q. QED BY <2>2, <3>1 DEF Deregister
  <2>3. ASSUME NEW c \in Connectors, NEW n \in Tools, NEW row \in Approval, Write(c, n, row)
        PROVE  \E m \in Manifest : /\ Now <= MaxVets
                                   /\ approved' = Append(approved, m)
                                   /\ UNCHANGED <<bound, call>>
    <3>1. [approved[Now] EXCEPT ![c][n] = row] \in Manifest
      BY <2>1, SMT DEF Manifest
    <3>q. QED BY <2>3, <3>1 DEF Write
  <2>4. ASSUME NEW c \in Connectors, NEW n \in Tools, Vet(c, n)
        PROVE  \E row \in Approval : Write(c, n, row)
    <3>1. Now <= MaxVets /\ Now \in Nat
      BY <2>4, SMT DEF Vet, Write, TypeOK, Now
    <3>2. [look |-> Now + 1, redact |-> Now + 1] \in Approval
      BY <3>1, RegistryAssumption, SMT DEF Approval
    <3>q. QED BY <2>4, <3>2 DEF Vet
  <2>5. ASSUME NEW c \in Connectors, NEW n \in Tools, VetRedaction(c, n)
        PROVE  \E row \in Approval : Write(c, n, row)
    <3>1. Now <= MaxVets /\ Now \in Nat
      BY <2>5, SMT DEF VetRedaction, Write, TypeOK, Now
    <3>2. [approved[Now][c][n] EXCEPT !.redact = Now + 1] \in Approval
      BY <2>1, <3>1, RegistryAssumption, SMT DEF Approval, Manifest
    <3>q. QED BY <2>5, <3>2 DEF VetRedaction
  <2>6. ASSUME NEW c \in Connectors, NEW n \in Tools, Withdraw(c, n)
        PROVE  \E row \in Approval : Write(c, n, row)
    BY <2>6, NoneIsApproval DEF Withdraw
  <2>q. QED BY <2>2, <2>3, <2>4, <2>5, <2>6 DEF Admin
<1>2. approved \in Seq(Manifest)
  BY DEF TypeOK, Manifest
<1>q. QED BY <1>1, <1>2, SMT DEF Now

\* A call as TypeOK has it, when the approvals have had k states.
RecordAt(k) == [
    pc : Places, tool : Tools \cup {NoTool}, conn : Connectors \cup {Nowhere},
    missing : BOOLEAN, since : 0 .. k, seen : 0 .. k, older : SUBSET (0 .. k),
    todo : SUBSET Tools, skipped : BOOLEAN, decided : Connectors \cup {Nowhere},
    ran : [conn : Connectors \cup {Nowhere}, row : Approval]]

LEMMA RecordsWiden ==
  ASSUME NEW k \in Nat, NEW r \in RecordAt(k)
  PROVE  r \in RecordAt(k + 1)
<1>1. 0 .. k \subseteq 0 .. k + 1
  BY SMT
<1>2. SUBSET (0 .. k) \subseteq SUBSET (0 .. k + 1)
  BY <1>1
<1>q. QED BY <1>1, <1>2, Zenon DEF RecordAt

\* TypeOK in parts.
LEMMA Typed ==
  ASSUME TypeOK
  PROVE  /\ approved \in Seq(Manifest)
         /\ Now \in Nat /\ 1 <= Now /\ Now <= MaxVets + 1
         /\ bound \in [Tools -> Entry]
         /\ call \in [Threads -> RecordAt(Now)]
<1>1. Now \in 1 .. MaxVets + 1
  BY DEF TypeOK
<1>2. Now \in Nat /\ 1 <= Now /\ Now <= MaxVets + 1
  BY <1>1, RegistryAssumption, SMT
<1>q. QED BY <1>2 DEF TypeOK, Manifest, Entry, RecordAt

-----------------------------------------------------------------------------
(* Type correctness.  A copy is of an approval that was given, because a    *)
(* thread that binds has read what it registers.                            *)

\* What a thread at work on a connector knows of it.
ReadingOf(r) ==
    /\ r.pc # "idle" => r.tool \in Tools
    /\ r.pc \in {"chosen", "looked", "read", "bind"} => r.conn \in Connectors
    /\ r.pc \in {"read", "bind"} => 1 <= r.seen
    /\ r.pc = "bind" => r.todo \subseteq Declared(r.conn, r.seen)

Reading == \A t \in Threads : ReadingOf(call[t])

LEMMA ThisCall ==
  ASSUME TypeOK, Reading, NEW t \in Threads
  PROVE  /\ call[t] \in RecordAt(Now) /\ ReadingOf(call[t])
         /\ Now \in Nat /\ 1 <= Now /\ Now \in 0 .. Now
  BY Typed, SMT DEF Reading

\* A step of one thread, the approvals standing still.
LEMMA Still ==
  ASSUME TypeOK, Reading, UNCHANGED approved,
         bound' \in [Tools -> Entry],
         NEW t \in Threads, NEW r \in RecordAt(Now), ReadingOf(r), Goes(t, r)
  PROVE  TypeOK' /\ Reading'
<1>1. Now' = Now /\ approved' = approved
  BY DEF Now
<1>2. call' \in [Threads -> RecordAt(Now)]
  BY Typed DEF Goes
<1>3. TypeOK'
  BY <1>1, <1>2 DEF TypeOK, Entry, RecordAt
<1>4. ASSUME NEW u \in Threads PROVE ReadingOf(call[u])'
  <2>1. call'[u] = r \/ call'[u] = call[u]
    BY Typed DEF Goes
  <2>2. \A c, k : Declared(c, k)' = Declared(c, k)
    BY <1>1 DEF Declared
  <2>q. QED BY <2>1, <2>2 DEF Reading, ReadingOf
<1>q. QED BY <1>3, <1>4 DEF Reading

LEMMA IdleIsTyped ==
  ASSUME NEW k \in Nat
  PROVE  Idle \in RecordAt(k) /\ ReadingOf(Idle)
<1>1. 0 \in 0 .. k /\ {} \in SUBSET (0 .. k)
  BY SMT
<1>2. Idle \in RecordAt(k)
  BY <1>1, NoneIsApproval DEF Idle, RecordAt, Places, Unbound
<1>q. QED BY <1>2 DEF Idle, ReadingOf

\* The history of a state of the approvals is never rewritten.
LEMMA DeclaredStays ==
  ASSUME TypeOK, Admin, NEW k \in 1 .. Now, NEW c
  PROVE  Declared(c, k)' = Declared(c, k)
  BY Grows DEF Declared

LEMMA PlacesAre ==
  /\ "idle" \in Places /\ "admitted" \in Places /\ "chosen" \in Places
  /\ "looked" \in Places /\ "read" \in Places /\ "bind" \in Places
  /\ "ready" \in Places /\ "decided" \in Places /\ "ran" \in Places
  BY DEF Places

LEMMA TypesStay ==
  ASSUME TypeOK, Reading, [Next]_vars
  PROVE  TypeOK' /\ Reading'
  <2>1. CASE Admin
    <3>1. call' \in [Threads -> RecordAt(Now')]
      BY <2>1, Grows, Typed, RecordsWiden
    <3>2. Now' \in 1 .. MaxVets + 1 /\ approved' \in Seq(Manifest) /\ bound' = bound
      BY <2>1, Grows, RegistryAssumption, SMT
    <3>3. TypeOK'
      BY <3>1, <3>2 DEF TypeOK, Manifest, RecordAt
    <3>4. ASSUME NEW t \in Threads PROVE ReadingOf(call[t])'
      <4>1. call'[t] = call[t]
        BY <2>1, Grows
      <4>2. call[t].pc = "bind" => call[t].seen \in 1 .. Now
        BY ThisCall, SMT DEF ReadingOf, RecordAt
      <4>q. QED BY <2>1, <4>1, <4>2, ThisCall, DeclaredStays DEF ReadingOf
    <3>q. QED BY <3>3, <3>4 DEF Reading
  <2>2. ASSUME NEW t \in Threads, NEW n \in Tools, Arrive(t, n) PROVE TypeOK' /\ Reading'
    <3>1. call[t] \in RecordAt(Now) /\ ReadingOf(call[t]) /\ Now \in Nat /\ Now \in 0 .. Now
      BY ThisCall
    <3> DEFINE r == [call[t] EXCEPT !.pc = "admitted", !.tool = n, !.since = Now]
    <3>3. Goes(t, r) /\ At(t, "idle")
      BY <2>2 DEF Arrive
    <3>4. r \in RecordAt(Now)
      BY <3>1, PlacesAre DEF RecordAt
    <3>5. ReadingOf(r)
      BY <3>1, <3>3, SMT DEF At, ReadingOf, RecordAt
    <3>6. bound' \in [Tools -> Entry] /\ UNCHANGED approved
      BY <2>2, Typed DEF Arrive
    <3> HIDE DEF r
    <3>q. QED BY <3>3, <3>4, <3>5, <3>6, Still
  <2>3. ASSUME NEW t \in Threads, Choose(t) PROVE TypeOK' /\ Reading'
    <3>1. call[t] \in RecordAt(Now) /\ ReadingOf(call[t]) /\ Now \in Nat /\ At(t, "admitted")
      BY <2>3, ThisCall DEF Choose
    <3>2. bound' \in [Tools -> Entry] /\ UNCHANGED approved
      BY <2>3, Typed DEF Choose
    <3>3. CASE Goes(t, [call[t] EXCEPT !.pc = "ready"])
      <4> DEFINE r == [call[t] EXCEPT !.pc = "ready"]
      <4>1. r \in RecordAt(Now) /\ Goes(t, r)
        BY <3>1, <3>3, PlacesAre DEF RecordAt
      <4>2. ReadingOf(r)
        BY <3>1, SMT DEF At, ReadingOf, RecordAt
      <4> HIDE DEF r
      <4>q. QED BY <3>2, <4>1, <4>2, Still
    <3>4. ASSUME NEW c \in Connectors, Goes(t, [call[t] EXCEPT !.pc = "chosen", !.conn = c])
          PROVE  TypeOK' /\ Reading'
      <4> DEFINE r == [call[t] EXCEPT !.pc = "chosen", !.conn = c]
      <4>1. r \in RecordAt(Now) /\ Goes(t, r)
        BY <3>1, <3>4, PlacesAre DEF RecordAt
      <4>2. ReadingOf(r)
        BY <3>1, SMT DEF At, ReadingOf, RecordAt
      <4> HIDE DEF r
      <4>q. QED BY <3>2, <4>1, <4>2, Still
    <3>q. QED BY <2>3, <3>3, <3>4 DEF Choose
  <2>4. ASSUME NEW t \in Threads, Look(t) PROVE TypeOK' /\ Reading'
    <3>1. call[t] \in RecordAt(Now) /\ ReadingOf(call[t]) /\ Now \in Nat /\ Now \in 0 .. Now
      BY ThisCall
    <3> DEFINE r == [call[t] EXCEPT !.pc = "looked", !.missing = (bound[call[t].tool] = Unbound)]
    <3>3. Goes(t, r) /\ At(t, "chosen")
      BY <2>4 DEF Look
    <3>4. r \in RecordAt(Now)
      BY <3>1, PlacesAre DEF RecordAt
    <3>5. ReadingOf(r)
      BY <3>1, <3>3, SMT DEF At, ReadingOf, RecordAt
    <3>6. bound' \in [Tools -> Entry] /\ UNCHANGED approved
      BY <2>4, Typed DEF Look
    <3> HIDE DEF r
    <3>q. QED BY <3>3, <3>4, <3>5, <3>6, Still
  <2>5. ASSUME NEW t \in Threads, Read(t) PROVE TypeOK' /\ Reading'
    <3>1. call[t] \in RecordAt(Now) /\ ReadingOf(call[t]) /\ Now \in Nat /\ Now \in 0 .. Now
      BY ThisCall
    <3>2. 1 <= Now
      BY ThisCall
    <3> DEFINE r == [call[t] EXCEPT !.seen = Now,
                                    !.pc = IF call[t].tool \in Declared(call[t].conn, Now)
                                           THEN "read" ELSE "ready"]
    <3>3. Goes(t, r) /\ At(t, "looked")
      BY <2>5 DEF Read
    <3>4. r \in RecordAt(Now)
      BY <3>1, PlacesAre DEF RecordAt
    <3>5. ReadingOf(r)
      BY <3>1, <3>3, <3>2, SMT DEF At, ReadingOf, RecordAt
    <3>6. bound' \in [Tools -> Entry] /\ UNCHANGED approved
      BY <2>5, Typed DEF Read
    <3> HIDE DEF r
    <3>q. QED BY <3>3, <3>4, <3>5, <3>6, Still
  <2>6. ASSUME NEW t \in Threads, Compare(t) PROVE TypeOK' /\ Reading'
    <3>1. call[t] \in RecordAt(Now) /\ ReadingOf(call[t]) /\ Now \in Nat /\ Now \in 0 .. Now
      BY ThisCall
    <3> DEFINE older == {call[u].seen : u \in Binding(t)}
               rebind == call[t].missing \/ Stale(t)
    <3>2. Declared(call[t].conn, call[t].seen) \subseteq Tools
      BY DEF Declared
    <3>7. older \in SUBSET (0 .. Now)
      BY Typed DEF Binding, RecordAt
    <3> DEFINE r == [call[t] EXCEPT !.pc = IF rebind THEN "bind" ELSE "ready",
                                    !.todo = IF rebind
                                             THEN Declared(call[t].conn, call[t].seen) ELSE {},
                                    !.older = older]
    <3>3. Goes(t, r) /\ At(t, "read")
      BY <2>6 DEF Compare, Bind
    <3> HIDE DEF older, rebind
    <3>4. r \in RecordAt(Now)
      BY <3>1, <3>2, <3>7, PlacesAre DEF RecordAt
    <3>5. ReadingOf(r)
      BY <3>1, <3>3, <3>2, SMT DEF At, ReadingOf, RecordAt
    <3>6. bound' \in [Tools -> Entry] /\ UNCHANGED approved
      BY <2>6, Typed DEF Compare, Bind
    <3> HIDE DEF r
    <3>q. QED BY <3>3, <3>4, <3>5, <3>6, Still
  <2>7. ASSUME NEW t \in Threads, NEW n \in Tools, Register(t, n) PROVE TypeOK' /\ Reading'
    <3>1. call[t] \in RecordAt(Now) /\ ReadingOf(call[t]) /\ Now \in Nat /\ Now \in 0 .. Now
      BY ThisCall
    <3> DEFINE r == [call[t] EXCEPT !.todo = @ \ {n},
                                    !.pc = IF call[t].todo = {n} THEN "ready" ELSE "bind"]
    <3>3. Goes(t, r) /\ At(t, "bind") /\ n \in call[t].todo
      BY <2>7 DEF Register
    <3>4. r \in RecordAt(Now)
      BY <3>1, PlacesAre DEF RecordAt
    <3>5. ReadingOf(r)
      BY <3>1, <3>3, SMT DEF At, ReadingOf, RecordAt
    <3>6. bound' \in [Tools -> Entry] /\ UNCHANGED approved
      <4>1. call[t].conn \in Connectors /\ call[t].seen \in 1 .. Now
        BY <3>1, <3>3, SMT DEF At, ReadingOf, RecordAt
      <4>2. n \in Declared(call[t].conn, call[t].seen)
        BY <3>1, <3>3 DEF At, ReadingOf
      <4>3. approved[call[t].seen] \in Manifest
        BY <4>1, Typed, SMT DEF Now
      <4>4. Seen(t, n) \in Approval \ {None}
        BY <4>1, <4>2, <4>3 DEF Seen, Declared, Manifest
      <4>5. [conn |-> call[t].conn, row |-> Seen(t, n)] \in Entry
        BY <4>1, <4>4 DEF Entry
      <4>q. QED BY <2>7, <4>5, Typed DEF Register
    <3> HIDE DEF r
    <3>q. QED BY <3>3, <3>4, <3>5, <3>6, Still
  <2>8. ASSUME NEW t \in Threads, Leave(t), UNCHANGED <<approved, bound>>
        PROVE  TypeOK' /\ Reading'
    <3>1. bound' \in [Tools -> Entry] /\ UNCHANGED approved
      BY <2>8, Typed
    <3>q. QED BY <2>8, <3>1, Typed, IdleIsTyped, Still DEF Leave
  <2>9. ASSUME NEW t \in Threads, Decide(t) PROVE TypeOK' /\ Reading'
    <3>1. call[t] \in RecordAt(Now) /\ ReadingOf(call[t]) /\ Now \in Nat /\ Now \in 0 .. Now
      BY ThisCall
    <3>2. bound[call[t].tool] \in [conn : Connectors \cup {Nowhere}, row : Approval]
      <4>1. call[t].tool \in Tools
        BY <3>1, <2>9 DEF Decide, At, ReadingOf
      <4>q. QED BY <4>1, Typed, NoneIsApproval DEF Entry, Unbound
    <3> DEFINE r == [call[t] EXCEPT !.pc = "decided", !.decided = bound[call[t].tool].conn]
    <3>3. Goes(t, r) /\ At(t, "ready")
      BY <2>9 DEF Decide
    <3>4. r \in RecordAt(Now)
      BY <3>1, <3>2, PlacesAre DEF RecordAt
    <3>5. ReadingOf(r)
      BY <3>1, <3>3, SMT DEF At, ReadingOf, RecordAt
    <3>6. bound' \in [Tools -> Entry] /\ UNCHANGED approved
      BY <2>9, Typed DEF Decide
    <3> HIDE DEF r
    <3>q. QED BY <3>3, <3>4, <3>5, <3>6, Still
  <2>10. ASSUME NEW t \in Threads, Run(t) PROVE TypeOK' /\ Reading'
    <3>1. call[t] \in RecordAt(Now) /\ ReadingOf(call[t]) /\ Now \in Nat /\ Now \in 0 .. Now
      BY ThisCall
    <3>2. bound[call[t].tool] \in [conn : Connectors \cup {Nowhere}, row : Approval]
      <4>1. call[t].tool \in Tools
        BY <3>1, <2>10 DEF Run, At, ReadingOf
      <4>q. QED BY <4>1, Typed, NoneIsApproval DEF Entry, Unbound
    <3> DEFINE r == [call[t] EXCEPT !.pc = "ran", !.ran = bound[call[t].tool]]
    <3>3. Goes(t, r) /\ At(t, "decided")
      BY <2>10 DEF Run
    <3>4. r \in RecordAt(Now)
      BY <3>1, <3>2, PlacesAre DEF RecordAt
    <3>5. ReadingOf(r)
      BY <3>1, <3>3, SMT DEF At, ReadingOf, RecordAt
    <3>6. bound' \in [Tools -> Entry] /\ UNCHANGED approved
      BY <2>10, Typed DEF Run
    <3> HIDE DEF r
    <3>q. QED BY <3>3, <3>4, <3>5, <3>6, Still
  <2>11. CASE Restart
    <3>1. call' \in [Threads -> RecordAt(Now)] /\ \A t \in Threads : call'[t] = Idle
      BY <2>11, Typed, IdleIsTyped DEF Restart
    <3>2. bound' \in [Tools -> Entry] /\ approved' = approved /\ Now' = Now
      BY <2>11 DEF Restart, Entry, Now
    <3>3. TypeOK'
      BY <3>1, <3>2, Typed DEF TypeOK, Entry, RecordAt
    <3>4. \A t \in Threads : ReadingOf(call[t])'
      BY <3>1 DEF ReadingOf, Idle
    <3>q. QED BY <3>3, <3>4 DEF Reading
  <2>13. ASSUME NEW t \in Threads, Broken(t), bound[call[t].tool] # Unbound
         PROVE  TypeOK' /\ Reading'
    <3>1. call[t] \in RecordAt(Now) /\ ReadingOf(call[t])
      BY ThisCall
    <3> DEFINE r == [call[t] EXCEPT !.pc = "ready", !.todo = {}, !.skipped = TRUE]
    <3>3. Goes(t, r) /\ At(t, "bind")
      BY <2>13 DEF Broken
    <3>4. r \in RecordAt(Now)
      BY <3>1, PlacesAre DEF RecordAt
    <3>5. ReadingOf(r)
      BY <3>1, <3>3, SMT DEF At, ReadingOf, RecordAt
    <3>6. bound' \in [Tools -> Entry] /\ UNCHANGED approved
      BY <2>13, Typed DEF Broken
    <3> HIDE DEF r
    <3>q. QED BY <3>3, <3>4, <3>5, <3>6, Still
  <2>12. CASE UNCHANGED vars
    BY <2>12 DEF vars, TypeOK, Now, Reading, ReadingOf, Declared
  <2>q. QED
    BY <2>1, <2>2, <2>3, <2>4, <2>5, <2>6, <2>7, <2>8, <2>9, <2>10, <2>11, <2>12, <2>13
    DEF Next, Admin, RegisterFails, Unreachable, Broken, End

LEMMA TypesHold == Spec => [](TypeOK /\ Reading)
<1>1. Init => TypeOK /\ Reading
  <2> SUFFICES ASSUME Init PROVE TypeOK /\ Reading
    OBVIOUS
  <2>1. [look |-> 1, redact |-> 1] \in Approval
    BY RegistryAssumption, SMT DEF Approval
  <2>2. approved \in Seq(Manifest) /\ Now = 1
    BY <2>1, NoneIsApproval, SMT DEF Init, Manifest, Now
  <2>3. bound \in [Tools -> Entry]
    BY DEF Init, Entry
  <2>4. call \in [Threads -> RecordAt(Now)] /\ \A t \in Threads : call[t] = Idle
    BY <2>2, IdleIsTyped DEF Init
  <2>5. Now \in 1 .. MaxVets + 1
    BY <2>2, RegistryAssumption, SMT
  <2>6. TypeOK
    BY <2>2, <2>3, <2>4, <2>5 DEF TypeOK, Manifest, Entry, RecordAt
  <2>7. Reading
    BY <2>2, <2>4, IdleIsTyped DEF Reading
  <2>q. QED BY <2>6, <2>7
<1>2. TypeOK /\ Reading /\ [Next]_vars => TypeOK' /\ Reading'
  BY TypesStay
<1>q. QED BY <1>1, <1>2, PTL DEF Spec

\* The type invariant: every step keeps the registry, the approvals and the
\* threads' records well formed, and every copy is of an approval.
THEOREM TypeCorrect == Spec => []TypeOK
  BY TypesHold, PTL

-----------------------------------------------------------------------------
(* A name means one thing for the whole of a call.                          *)

\* What the door decided on is still what is bound: no bind takes a name over.
MeaningOf(r, b) ==
    /\ r.pc = "decided" /\ r.decided # Nowhere => b[r.tool].conn = r.decided
    /\ r.pc = "ran" => r.ran.conn = r.decided \/ r.decided = Nowhere

Meaning == \A t \in Threads : MeaningOf(call[t], bound)

\* What a step of one thread leaves alone.
LEMMA OthersStay ==
  ASSUME TypeOK, NEW t \in Threads, NEW r, Goes(t, r)
  PROVE  call'[t] = r /\ \A u \in Threads \ {t} : call'[u] = call[u]
  BY Typed DEF Goes

LEMMA MeaningStays ==
  ASSUME TypeOK, Reading, Meaning, [Next]_vars
  PROVE  Meaning'
  <2> SUFFICES ASSUME NEW u \in Threads PROVE MeaningOf(call'[u], bound')
    BY DEF Meaning
  <2>0. MeaningOf(call[u], bound) /\ ReadingOf(call[u])
    BY DEF Meaning, Reading
  <2>1. CASE Admin
    BY <2>0, <2>1, Grows
  <2>2. ASSUME NEW t \in Threads, NEW r, Goes(t, r), r.pc \notin {"decided", "ran"},
               bound' = bound
        PROVE  MeaningOf(call'[u], bound')
    BY <2>0, <2>2, OthersStay DEF MeaningOf
  <2>3. ASSUME NEW t \in Threads, NEW n \in Tools, Register(t, n)
        PROVE  MeaningOf(call'[u], bound')
    <3> DEFINE r == [call[t] EXCEPT !.todo = @ \ {n},
                                    !.pc = IF call[t].todo = {n} THEN "ready" ELSE "bind"]
    <3>1. Goes(t, r) /\ ~ Clashes(t, n)
          /\ bound' = [bound EXCEPT ![n] = [conn |-> call[t].conn, row |-> Seen(t, n)]]
      BY <2>3 DEF Register
    <3>2. r.pc \in {"ready", "bind"}
      BY Typed DEF RecordAt
    <3> HIDE DEF r
    <3>3. CASE u = t
      BY <3>1, <3>2, <3>3, OthersStay DEF MeaningOf
    <3>4. CASE u # t
      <4>1. call'[u] = call[u]
        BY <3>1, <3>4, OthersStay
      <4>2. ASSUME call[u].pc = "decided", call[u].decided # Nowhere
            PROVE  bound'[call[u].tool].conn = call[u].decided
        <5>1. bound[call[u].tool].conn = call[u].decided /\ call[u].tool \in Tools
          BY <2>0, <4>2 DEF MeaningOf, ReadingOf
        <5>2. CASE call[u].tool = n
          BY <3>1, <4>2, <5>1, <5>2, Typed DEF Clashes
        <5>3. CASE call[u].tool # n
          BY <3>1, <5>1, <5>3, Typed
        <5>q. QED BY <5>2, <5>3
      <4>q. QED BY <2>0, <4>1, <4>2 DEF MeaningOf
    <3>q. QED BY <3>3, <3>4
  <2>4. ASSUME NEW t \in Threads, Decide(t) PROVE MeaningOf(call'[u], bound')
    <3> DEFINE r == [call[t] EXCEPT !.pc = "decided", !.decided = bound[call[t].tool].conn]
    <3>1. Goes(t, r) /\ bound' = bound
      BY <2>4 DEF Decide
    <3>2. MeaningOf(r, bound)
      BY Typed DEF MeaningOf, RecordAt
    <3> HIDE DEF r
    <3>q. QED BY <2>0, <3>1, <3>2, OthersStay
  <2>5. ASSUME NEW t \in Threads, Run(t) PROVE MeaningOf(call'[u], bound')
    <3> DEFINE r == [call[t] EXCEPT !.pc = "ran", !.ran = bound[call[t].tool]]
    <3>1. Goes(t, r) /\ bound' = bound /\ call[t].pc = "decided"
      BY <2>5 DEF Run, At
    <3>2. MeaningOf(call[t], bound)
      BY DEF Meaning
    <3>3. MeaningOf(r, bound)
      BY <3>1, <3>2, Typed DEF MeaningOf, RecordAt
    <3> HIDE DEF r
    <3>q. QED BY <2>0, <3>1, <3>3, OthersStay
  <2>6. ASSUME NEW t \in Threads,
               \/ Choose(t) \/ Look(t) \/ Read(t) \/ Compare(t)
               \/ \E n \in Tools : Arrive(t, n)
        PROVE  MeaningOf(call'[u], bound')
    <3>1. \E r : Goes(t, r) /\ r.pc \notin {"decided", "ran"} /\ bound' = bound
      <4>1. \A n : [call[t] EXCEPT !.pc = "admitted", !.tool = n, !.since = Now].pc = "admitted"
        BY Typed DEF RecordAt
      <4>2. [call[t] EXCEPT !.pc = "ready"].pc = "ready"
        BY Typed DEF RecordAt
      <4>3. \A c : [call[t] EXCEPT !.pc = "chosen", !.conn = c].pc = "chosen"
        BY Typed DEF RecordAt
      <4>4. \A b : [call[t] EXCEPT !.pc = "looked", !.missing = b].pc = "looked"
        BY Typed DEF RecordAt
      <4>5. \A p : [call[t] EXCEPT !.seen = Now, !.pc = p].pc = p
        BY Typed DEF RecordAt
      <4>6. \A p, X, O : [call[t] EXCEPT !.pc = p, !.todo = X, !.older = O].pc = p
        BY Typed DEF RecordAt
      <4>7. ASSUME NEW n \in Tools, Arrive(t, n)
            PROVE  \E r : Goes(t, r) /\ r.pc \notin {"decided", "ran"} /\ bound' = bound
        BY <4>1, <4>7 DEF Arrive
      <4>8. CASE Choose(t)
        BY <4>2, <4>3, <4>8 DEF Choose
      <4>9. CASE Look(t)
        BY <4>4, <4>9 DEF Look
      <4>10. CASE Read(t)
        BY <4>5, <4>10 DEF Read
      <4>11. CASE Compare(t)
        <5> DEFINE p == IF call[t].missing \/ Stale(t) THEN "bind" ELSE "ready"
                   X == IF call[t].missing \/ Stale(t)
                        THEN Declared(call[t].conn, call[t].seen) ELSE {}
                   O == {call[v].seen : v \in Binding(t)}
                   r == [call[t] EXCEPT !.pc = p, !.todo = X, !.older = O]
        <5>1. Goes(t, r) /\ bound' = bound
          BY <4>11 DEF Compare, Bind
        <5>2. p \notin {"decided", "ran"}
          OBVIOUS
        <5> HIDE DEF p, X, O
        <5>3. r.pc = p
          BY <4>6
        <5> HIDE DEF r
        <5>q. QED BY <5>1, <5>2, <5>3
      <4>q. QED BY <2>6, <4>7, <4>8, <4>9, <4>10, <4>11
    <3>q. QED BY <2>2, <3>1
  <2>10. ASSUME NEW t \in Threads, Broken(t), bound[call[t].tool] # Unbound
         PROVE  MeaningOf(call'[u], bound')
    <3> DEFINE r == [call[t] EXCEPT !.pc = "ready", !.todo = {}, !.skipped = TRUE]
    <3>1. Goes(t, r) /\ bound' = bound
      BY <2>10 DEF Broken
    <3>2. r.pc = "ready"
      BY Typed DEF RecordAt
    <3> HIDE DEF r
    <3>q. QED BY <2>2, <3>1, <3>2
  <2>7. ASSUME NEW t \in Threads, Leave(t), bound' = bound PROVE MeaningOf(call'[u], bound')
    BY <2>2, <2>7 DEF Leave, Idle
  <2>8. CASE Restart
    BY <2>8 DEF Restart, MeaningOf, Idle
  <2>9. CASE UNCHANGED vars
    BY <2>0, <2>9 DEF vars
  <2>q. QED
    BY <2>1, <2>3, <2>4, <2>5, <2>6, <2>7, <2>8, <2>9, <2>10
    DEF Next, Admin, RegisterFails, Unreachable, Broken, End

\* A name means one thing for the whole of a call: the connector whose account was
\* settled and refreshed is the connector that is called.
THEOREM OneMeaningHolds == Spec => []OneMeaning
<1>1. Init => Meaning
  <2> SUFFICES ASSUME Init, NEW t \in Threads PROVE MeaningOf(Idle, bound)
    BY DEF Init, Meaning
  <2>q. QED BY DEF MeaningOf, Idle
<1>2. TypeOK /\ Reading /\ Meaning /\ [Next]_vars => Meaning'
  BY MeaningStays
<1>3. Meaning => OneMeaning
  BY DEF Meaning, MeaningOf, OneMeaning, At
<1>q. QED BY <1>1, <1>2, <1>3, TypesHold, PTL DEF Spec

-----------------------------------------------------------------------------
(* An approval is at most as old as the oldest bind under way.              *)

\* In each state of the approvals at most one connector declares a name.
OneDeclarer ==
    \A k \in 1 .. Now : \A c, d \in Connectors : \A n \in Tools :
        n \in Declared(c, k) /\ n \in Declared(d, k) => c = d

\* The connector c has approved the tool of the call r all along.
Steady(r, c) == \A k \in r.since .. Now : r.tool \in Declared(c, k)

\* The copy b is of an approval that stood late enough for the call r.
Fresh(r, b) ==
    \E s \in {r.since} \cup r.older : \E k \in s .. Now :
        1 <= k /\ SameLook(b.row, approved[k][b.conn][r.tool])

Late(r, b) == b.conn \in Connectors /\ Steady(r, b.conn) => Fresh(r, b)

\* The connector a call has chosen had approved its tool, after it arrived.
SoughtBy(r) ==
    /\ r.pc # "idle" => 1 <= r.since
    /\ r.pc \in {"chosen", "looked"} =>
         \E k \in r.since .. Now : r.tool \in Declared(r.conn, k)
    /\ r.pc \in {"read", "bind"} => r.since <= r.seen /\ r.tool \in Declared(r.conn, r.seen)

\* What the thread q may yet register is late enough for the call r.
Overtaking(r, q) == q.pc \in {"read", "bind"} => q.seen >= r.since \/ q.seen \in r.older

\* A call that has compared and not skipped the bind.
Compared(r) == r.pc \in {"bind", "ready", "decided"} /\ ~ r.skipped

\* While some connector c declares its tool, what is bound is late enough for such a
\* call, and what others will bind is.
Settled(r, c, b) ==
    /\ Compared(r) /\ Steady(r, c)
    /\ r.pc = "bind" => r.tool \notin r.todo
    => Late(r, b[r.tool])

Guarded(r, c, q) ==
    Compared(r) /\ Steady(r, c) => Overtaking(r, q)

RanLate(r) ==
    r.pc = "ran" => r.ran.conn \in Connectors /\ (r.skipped \/ Late(r, r.ran))

Lately ==
    /\ OneDeclarer
    /\ \A t \in Threads :
         /\ SoughtBy(call[t]) /\ RanLate(call[t])
         /\ \A c \in Connectors :
              /\ Settled(call[t], c, bound)
              /\ \A u \in Threads \ {t} : Guarded(call[t], c, call[u])

\* In what the newest state of the approvals declares, nothing is declared twice.
LEMMA Newest ==
  ASSUME TypeOK, Admin, NEW c \in Connectors, NEW d \in Connectors, NEW n \in Tools,
         approved'[Now + 1][c][n] # None, approved'[Now + 1][d][n] # None,
         OneDeclarer
  PROVE  c = d
<1> DEFINE m == approved[Now]
<1>1. m \in Manifest /\ Now \in 1 .. Now
  BY Typed, SMT DEF Now
<1>2. \A e, f \in Connectors : m[e][n] # None /\ m[f][n] # None => e = f
  BY <1>1 DEF OneDeclarer, Declared
<1>3. \A x : Append(approved, x)[Now + 1] = x
  BY Typed, SMT DEF Now
<1> HIDE DEF m
<1>4. ASSUME NEW e \in Connectors, Deregister(e) PROVE c = d
  <2>1. approved'[Now + 1] = [m EXCEPT ![e] = [x \in Tools |-> None]]
    BY <1>3, <1>4 DEF Deregister, m
  <2>q. QED BY <1>1, <1>2, <2>1 DEF Manifest
<1>5. ASSUME NEW e \in Connectors, NEW x \in Tools, NEW row, Write(e, x, row)
      PROVE  approved'[Now + 1] = [m EXCEPT ![e][x] = row]
  BY <1>3, <1>5 DEF Write, m
<1>6. ASSUME NEW e \in Connectors, NEW x \in Tools, Vet(e, x) PROVE c = d
  <2>1. approved'[Now + 1] = [m EXCEPT ![e][x] = [look |-> Now + 1, redact |-> Now + 1]]
    BY <1>5, <1>6 DEF Vet
  <2>2. \A f \in Connectors \ {e} : m[f][x] = None
    BY <1>6 DEF Vet, Declared, m
  <2>q. QED BY <1>1, <1>2, <2>1, <2>2 DEF Manifest
<1>7. ASSUME NEW e \in Connectors, NEW x \in Tools, VetRedaction(e, x) PROVE c = d
  <2>1. \E row : approved'[Now + 1] = [m EXCEPT ![e][x] = row]
    BY <1>5, <1>7 DEF VetRedaction
  <2>2. m[e][x] # None
    BY <1>7 DEF VetRedaction, Declared, m
  <2>3. \A f \in Connectors : approved'[Now + 1][f][n] # None => m[f][n] # None
    <3>1. PICK row : approved'[Now + 1] = [m EXCEPT ![e][x] = row]
      BY <2>1
    <3>q. QED BY <1>1, <2>2, <3>1 DEF Manifest
  <2>q. QED BY <1>2, <2>3
<1>8. ASSUME NEW e \in Connectors, NEW x \in Tools, Withdraw(e, x) PROVE c = d
  <2>1. approved'[Now + 1] = [m EXCEPT ![e][x] = None]
    BY <1>5, <1>8 DEF Withdraw
  <2>q. QED BY <1>1, <1>2, <2>1 DEF Manifest
<1>q. QED BY <1>4, <1>6, <1>7, <1>8 DEF Admin

LEMMA DeclarersStay ==
  ASSUME TypeOK, OneDeclarer, Admin
  PROVE  OneDeclarer'
<1> SUFFICES ASSUME NEW k \in 1 .. Now', NEW c \in Connectors, NEW d \in Connectors,
                    NEW n \in Tools, n \in Declared(c, k)', n \in Declared(d, k)'
             PROVE  c = d
  BY DEF OneDeclarer
<1>1. CASE k \in 1 .. Now
  BY <1>1, DeclaredStays DEF OneDeclarer
<1>2. CASE k = Now + 1
  BY <1>2, Newest DEF Declared
<1>q. QED BY <1>1, <1>2, Grows, SMT

\* An administrative act makes no copy older.
LEMMA LateStays ==
  ASSUME TypeOK, Admin, NEW r \in RecordAt(Now), 1 <= r.since, NEW b, Late(r, b)
  PROVE  Late(r, b)'
<1> SUFFICES ASSUME b.conn \in Connectors, Steady(r, b.conn)' PROVE Fresh(r, b)'
  BY DEF Late
<1>1. Now \in Nat /\ Now' = Now + 1 /\ r.since \in 1 .. Now
  BY Grows, SMT DEF RecordAt
<1>2. Steady(r, b.conn)
  <2> SUFFICES ASSUME NEW k \in r.since .. Now PROVE r.tool \in Declared(b.conn, k)
    BY DEF Steady
  <2>1. k \in 1 .. Now /\ k \in r.since .. Now'
    BY <1>1, SMT
  <2>2. r.tool \in Declared(b.conn, k)'
    BY <2>1 DEF Steady
  <2>q. QED BY <2>1, <2>2, DeclaredStays
<1>3. PICK s \in {r.since} \cup r.older : \E k \in s .. Now :
        1 <= k /\ SameLook(b.row, approved[k][b.conn][r.tool])
  BY <1>2 DEF Late, Fresh
<1>4. PICK k \in s .. Now : 1 <= k /\ SameLook(b.row, approved[k][b.conn][r.tool])
  BY <1>3
<1>5. s \in Nat
  BY <1>1, <1>3, SMT DEF RecordAt
<1>6. k \in 1 .. Now /\ k \in s .. Now'
  BY <1>1, <1>4, <1>5, SMT
<1>7. approved'[k] = approved[k]
  BY <1>6, Grows
<1>q. QED BY <1>3, <1>4, <1>6, <1>7 DEF Fresh, SameLook

LEMMA SteadyWas ==
  ASSUME TypeOK, Admin, NEW r \in RecordAt(Now), 1 <= r.since, NEW c, Steady(r, c)'
  PROVE  Steady(r, c)
<1> SUFFICES ASSUME NEW k \in r.since .. Now PROVE r.tool \in Declared(c, k)
  BY DEF Steady
<1>1. k \in 1 .. Now /\ k \in r.since .. Now'
  BY Grows, SMT DEF RecordAt
<1>2. r.tool \in Declared(c, k)'
  BY <1>1 DEF Steady
<1>q. QED BY <1>1, <1>2, DeclaredStays

LEMMA LatelyThroughAdmin ==
  ASSUME TypeOK, Reading, Lately, Admin
  PROVE  Lately'
<1>1. OneDeclarer'
  BY DeclarersStay DEF Lately
<1>2. ASSUME NEW t \in Threads
      PROVE  /\ SoughtBy(call[t])' /\ RanLate(call[t])'
             /\ \A c \in Connectors :
                  /\ Settled(call[t], c, bound)'
                  /\ \A u \in Threads \ {t} : Guarded(call[t], c, call[u])'
  <2> DEFINE r == call[t]
  <2>1. call' = call /\ bound' = bound /\ Now \in Nat /\ Now' = Now + 1
    BY Grows
  <2>2. r \in RecordAt(Now) /\ ReadingOf(r) /\ SoughtBy(r) /\ RanLate(r)
    BY ThisCall DEF Lately
  <2>3. \A c \in Connectors : /\ Settled(r, c, bound)
                              /\ \A u \in Threads \ {t} : Guarded(r, c, call[u])
    BY DEF Lately
  <2>4. r' = r
    BY <2>1
  <2> HIDE DEF r
  <2>5. SoughtBy(r)'
    <3>1. r.pc \in {"read", "bind"} => r.seen \in 1 .. Now
      BY <2>1, <2>2, SMT DEF ReadingOf, RecordAt
    <3>2. \A k \in r.since .. Now : r.pc # "idle" => k \in 1 .. Now /\ k \in r.since .. Now'
      BY <2>1, <2>2, SMT DEF SoughtBy, RecordAt
    <3>3. \A k \in 1 .. Now : \A c : Declared(c, k)' = Declared(c, k)
      BY DeclaredStays
    <3>4. r.pc \in {"chosen", "looked"} =>
             \E k \in r.since .. Now' : r.tool \in Declared(r.conn, k)'
      BY <2>2, <2>4, <3>2, <3>3 DEF SoughtBy
    <3>5. r.pc \in {"read", "bind"} => r.tool \in Declared(r.conn, r.seen)'
      BY <2>2, <2>4, <3>1, <3>3 DEF SoughtBy
    <3>q. QED BY <2>2, <2>4, <3>4, <3>5 DEF SoughtBy
  <2>6. r.pc # "idle" => \A b : Late(r, b) => Late(r, b)'
    BY <2>2, <2>4, LateStays DEF SoughtBy
  <2>7. r.pc # "idle" => \A c : Steady(r, c)' => Steady(r, c)
    BY <2>2, <2>4, SteadyWas DEF SoughtBy
  <2>8. RanLate(r)'
    BY <2>2, <2>4, <2>6 DEF RanLate
  <2>9. ASSUME NEW c \in Connectors
        PROVE  /\ Settled(r, c, bound)'
               /\ \A u \in Threads \ {t} : Guarded(r, c, call[u])'
    BY <2>1, <2>3, <2>4, <2>6, <2>7 DEF Settled, Guarded, Compared, Overtaking
  <2>q. QED BY <2>5, <2>8, <2>9 DEF r
<1>q. QED BY <1>1, <1>2 DEF Lately

\* A step of the thread t, the approvals standing still.
LEMMA LatelyThroughStep ==
  ASSUME TypeOK, Reading, Lately, UNCHANGED approved,
         NEW t \in Threads, NEW r \in RecordAt(Now), Goes(t, r),
         SoughtBy(r), RanLate(r),
         \A c \in Connectors : Settled(r, c, bound'),
         \A c \in Connectors : \A u \in Threads \ {t} :
            Guarded(r, c, call[u]) /\ Guarded(call[u], c, r) /\ Settled(call[u], c, bound')
  PROVE  Lately'
<1>1. Now' = Now /\ approved' = approved
  BY DEF Now
<1>2. call'[t] = r /\ \A u \in Threads \ {t} : call'[u] = call[u]
  BY OthersStay
<1>3. OneDeclarer'
  BY <1>1 DEF Lately, OneDeclarer, Declared
<1>4. \A q, c : Steady(q, c)' = Steady(q, c)
  BY <1>1 DEF Steady, Declared
<1>5. \A q, b : Fresh(q, b)' = Fresh(q, b)
  BY <1>1 DEF Fresh
<1>6. \A q, b : Late(q, b)' = Late(q, b)
  BY <1>4, <1>5 DEF Late
<1>7. \A q : SoughtBy(q)' = SoughtBy(q)
  BY <1>1 DEF SoughtBy, Declared
<1>8. ASSUME NEW u \in Threads
      PROVE  SoughtBy(call[u])' /\ RanLate(call[u])'
  <2>1. SoughtBy(call'[u]) /\ RanLate(call'[u])
    BY <1>2 DEF Lately
  <2>q. QED BY <1>6, <1>7, <2>1 DEF RanLate
<1>9. ASSUME NEW u \in Threads, NEW c \in Connectors PROVE Settled(call[u], c, bound)'
  <2>1. Settled(call'[u], c, bound')
    BY <1>2
  <2>q. QED BY <1>4, <1>6, <2>1 DEF Settled, Compared
<1>10. ASSUME NEW u \in Threads, NEW c \in Connectors, NEW v \in Threads \ {u}
       PROVE  Guarded(call[u], c, call[v])'
  <2>1. Guarded(call'[u], c, call'[v])
    BY <1>2 DEF Lately
  <2>q. QED BY <1>4, <2>1 DEF Guarded, Compared, Overtaking
<1>q. QED BY <1>3, <1>8, <1>9, <1>10 DEF Lately

\* A step that binds nothing, and leaves the thread with nothing to bind that it
\* had not read, or with what it has just read.
LEMMA LatelyThroughQuiet ==
  ASSUME TypeOK, Reading, Lately, UNCHANGED <<approved, bound>>,
         NEW t \in Threads, NEW r \in RecordAt(Now), Goes(t, r),
         SoughtBy(r), RanLate(r),
         \A c \in Connectors : Settled(r, c, bound),
         \A c \in Connectors : \A u \in Threads \ {t} : Guarded(r, c, call[u]),
         r.pc \in {"read", "bind"} =>
            \/ r.seen = Now
            \/ call[t].pc \in {"read", "bind"} /\ r.seen = call[t].seen
  PROVE  Lately'
<1>1. ASSUME NEW c \in Connectors, NEW u \in Threads \ {t} PROVE Guarded(call[u], c, r)
  <2>1. Guarded(call[u], c, call[t])
    BY DEF Lately
  <2>2. call[u].since <= Now
    BY Typed, SMT DEF RecordAt
  <2>q. QED BY <2>1, <2>2 DEF Guarded, Compared, Overtaking
<1>2. \A c \in Connectors : Settled(r, c, bound')
  OBVIOUS
<1>3. \A c \in Connectors : \A u \in Threads \ {t} : Settled(call[u], c, bound')
  BY DEF Lately
<1>q. QED BY <1>1, <1>2, <1>3, LatelyThroughStep

\* Nothing is asked of a call that has not compared, has skipped the bind, or is over.
LEMMA NothingAsked ==
  ASSUME NEW r, r.pc \notin {"bind", "ready", "decided"} \/ r.skipped
  PROVE  \A c, b, q : Settled(r, c, b) /\ Guarded(r, c, q)
  BY DEF Settled, Guarded, Compared

\* Nor of one whose tool no connector has declared all along.
LEMMA NothingSteady ==
  ASSUME NEW r, \A c \in Connectors : ~ Steady(r, c)
  PROVE  \A c \in Connectors : \A b, q : Settled(r, c, b) /\ Guarded(r, c, q)
  BY DEF Settled, Guarded, Compared

LEMMA LatelyThroughArrival ==
  ASSUME TypeOK, Reading, Lately, NEW t \in Threads, NEW n \in Tools, Arrive(t, n)
  PROVE  Lately'
<1> DEFINE r == [call[t] EXCEPT !.pc = "admitted", !.tool = n, !.since = Now]
<1>1. call[t] \in RecordAt(Now) /\ 1 <= Now /\ Now \in 0 .. Now
  BY ThisCall
<1>2. Goes(t, r) /\ UNCHANGED <<approved, bound>>
  BY DEF Arrive
<1>3. r \in RecordAt(Now)
  BY <1>1, PlacesAre DEF RecordAt
<1>4. r.pc = "admitted" /\ r.since = Now
  BY <1>1 DEF RecordAt
<1> HIDE DEF r
<1>5. SoughtBy(r) /\ RanLate(r)
  BY <1>1, <1>4 DEF SoughtBy, RanLate
<1>q. QED BY <1>2, <1>3, <1>4, <1>5, NothingAsked, LatelyThroughQuiet

LEMMA LatelyThroughChoice ==
  ASSUME TypeOK, Reading, Lately, NEW t \in Threads, Choose(t)
  PROVE  Lately'
<1>1. call[t] \in RecordAt(Now) /\ Now \in Nat /\ call[t].pc = "admitted"
      /\ call[t].since \in 1 .. Now /\ Now \in call[t].since .. Now
  <2>1. call[t] \in RecordAt(Now) /\ Now \in Nat /\ call[t].pc = "admitted" /\ SoughtBy(call[t])
    BY ThisCall DEF Choose, At, Lately
  <2>q. QED BY <2>1, SMT DEF SoughtBy, RecordAt
<1>2. UNCHANGED <<approved, bound>>
  BY DEF Choose
<1>3. CASE /\ \A c \in Connectors : call[t].tool \notin Declared(c, Now)
           /\ Goes(t, [call[t] EXCEPT !.pc = "ready"])
  <2> DEFINE r == [call[t] EXCEPT !.pc = "ready"]
  <2>1. r \in RecordAt(Now)
    BY <1>1, PlacesAre DEF RecordAt
  <2>2. r.pc = "ready" /\ r.tool = call[t].tool /\ r.since = call[t].since
    BY <1>1 DEF RecordAt
  <2>3. Goes(t, r)
    BY <1>3
  <2> HIDE DEF r
  <2>4. \A c \in Connectors : ~ Steady(r, c)
    BY <1>1, <1>3, <2>2 DEF Steady
  <2>5. SoughtBy(r) /\ RanLate(r)
    BY <1>1, <2>2, SMT DEF SoughtBy, RanLate
  <2>q. QED BY <1>2, <2>1, <2>2, <2>3, <2>4, <2>5, NothingSteady, LatelyThroughQuiet
<1>4. ASSUME NEW c \in Connectors, call[t].tool \in Declared(c, Now),
             Goes(t, [call[t] EXCEPT !.pc = "chosen", !.conn = c])
      PROVE  Lately'
  <2> DEFINE r == [call[t] EXCEPT !.pc = "chosen", !.conn = c]
  <2>1. r \in RecordAt(Now)
    BY <1>1, PlacesAre DEF RecordAt
  <2>2. r.pc = "chosen" /\ r.tool = call[t].tool /\ r.since = call[t].since /\ r.conn = c
    BY <1>1 DEF RecordAt
  <2>3. Goes(t, r)
    BY <1>4
  <2> HIDE DEF r
  <2>4. SoughtBy(r) /\ RanLate(r)
    BY <1>1, <1>4, <2>2, SMT DEF SoughtBy, RanLate
  <2>q. QED BY <1>2, <2>1, <2>2, <2>3, <2>4, NothingAsked, LatelyThroughQuiet
<1>q. QED BY <1>3, <1>4 DEF Choose

LEMMA LatelyThroughLook ==
  ASSUME TypeOK, Reading, Lately, NEW t \in Threads, Look(t)
  PROVE  Lately'
<1> DEFINE r == [call[t] EXCEPT !.pc = "looked", !.missing = (bound[call[t].tool] = Unbound)]
<1>1. call[t] \in RecordAt(Now) /\ SoughtBy(call[t]) /\ call[t].pc = "chosen"
  BY ThisCall DEF Look, At, Lately
<1>2. Goes(t, r) /\ UNCHANGED <<approved, bound>>
  BY DEF Look
<1>3. r \in RecordAt(Now)
  BY <1>1, PlacesAre DEF RecordAt
<1>4. /\ r.pc = "looked" /\ r.since = call[t].since
      /\ r.tool = call[t].tool /\ r.conn = call[t].conn
  BY <1>1 DEF RecordAt
<1> HIDE DEF r
<1>5. SoughtBy(r) /\ RanLate(r)
  BY <1>1, <1>4 DEF SoughtBy, RanLate
<1>q. QED BY <1>2, <1>3, <1>4, <1>5, NothingAsked, LatelyThroughQuiet

\* What is read is of now; a connector that has stopped declaring the tool has not
\* declared it all along, and no other has.
LEMMA LatelyThroughRead ==
  ASSUME TypeOK, Reading, Lately, NEW t \in Threads, Read(t)
  PROVE  Lately'
<1> DEFINE p == IF call[t].tool \in Declared(call[t].conn, Now) THEN "read" ELSE "ready"
           r == [call[t] EXCEPT !.seen = Now, !.pc = p]
<1>1. /\ call[t] \in RecordAt(Now) /\ SoughtBy(call[t]) /\ ReadingOf(call[t])
      /\ call[t].pc = "looked" /\ Now \in 0 .. Now
  BY ThisCall DEF Read, At, Lately
<1>2. Goes(t, r) /\ UNCHANGED <<approved, bound>>
  BY DEF Read
<1>3. r \in RecordAt(Now)
  BY <1>1, PlacesAre DEF RecordAt
<1>4. /\ r.pc = p /\ r.since = call[t].since /\ r.seen = Now
      /\ r.tool = call[t].tool /\ r.conn = call[t].conn
  BY <1>1 DEF RecordAt
<1>5. /\ call[t].since \in 1 .. Now /\ Now \in call[t].since .. Now
      /\ call[t].conn \in Connectors /\ call[t].tool \in Tools
  BY <1>1, SMT DEF SoughtBy, ReadingOf, RecordAt
<1>6. (call[t].tool \in Declared(call[t].conn, Now) /\ p = "read")
      \/ (call[t].tool \notin Declared(call[t].conn, Now) /\ p = "ready")
  OBVIOUS
<1> HIDE DEF p, r
<1>7. SoughtBy(r) /\ RanLate(r)
  BY <1>4, <1>5, <1>6, SMT DEF SoughtBy, RanLate
<1>8. CASE p = "read"
  BY <1>2, <1>3, <1>4, <1>7, <1>8, NothingAsked, LatelyThroughQuiet
<1>9. CASE call[t].tool \notin Declared(call[t].conn, Now) /\ p = "ready"
  <2>1. ASSUME NEW c \in Connectors, Steady(r, c) PROVE FALSE
    <3>1. PICK k \in call[t].since .. Now : call[t].tool \in Declared(call[t].conn, k)
      BY <1>1 DEF SoughtBy
    <3>2. call[t].tool \in Declared(c, k) /\ call[t].tool \in Declared(c, Now)
      BY <1>4, <1>5, <2>1, <3>1 DEF Steady
    <3>3. k \in 1 .. Now
      BY <1>5, <3>1, SMT
    <3>4. c = call[t].conn
      BY <1>5, <3>1, <3>2, <3>3 DEF Lately, OneDeclarer
    <3>q. QED BY <1>9, <3>2, <3>4
  <2>q. QED BY <1>2, <1>3, <1>4, <1>7, <1>9, <2>1, NothingSteady, LatelyThroughQuiet
<1>q. QED BY <1>6, <1>8, <1>9

\* A copy found equal to what has been read is late enough; and whoever else has
\* read has been noticed.
LEMMA LatelyThroughComparison ==
  ASSUME TypeOK, Reading, Lately, NEW t \in Threads, Compare(t)
  PROVE  Lately'
<1> DEFINE rebind == call[t].missing \/ Stale(t)
           p == IF rebind THEN "bind" ELSE "ready"
           X == IF rebind THEN Declared(call[t].conn, call[t].seen) ELSE {}
           O == {call[u].seen : u \in Binding(t)}
           r == [call[t] EXCEPT !.pc = p, !.todo = X, !.older = O]
<1>1. /\ call[t] \in RecordAt(Now) /\ SoughtBy(call[t]) /\ ReadingOf(call[t])
      /\ call[t].pc = "read"
  BY ThisCall DEF Compare, Bind, At, Lately
<1>2. Goes(t, r) /\ UNCHANGED <<approved, bound>>
  BY DEF Compare, Bind
<1>3. X \in SUBSET Tools
  BY DEF Declared
<1>4. O \in SUBSET (0 .. Now)
  BY Typed DEF Binding, RecordAt
<1>5. \/ p = "bind" /\ X = Declared(call[t].conn, call[t].seen)
      \/ p = "ready" /\ ~ Stale(t)
  OBVIOUS
<1>6. \A u \in Threads \ {t} : call[u].pc \in {"read", "bind"} => call[u].seen \in O
  BY DEF Binding
<1> HIDE DEF rebind, p, X, O
<1>7. r \in RecordAt(Now)
  BY <1>1, <1>3, <1>4, <1>5, PlacesAre DEF RecordAt
<1>8. /\ r.pc = p /\ r.since = call[t].since /\ r.seen = call[t].seen /\ r.older = O
      /\ r.tool = call[t].tool /\ r.conn = call[t].conn /\ r.todo = X
  BY <1>1 DEF RecordAt
<1> HIDE DEF r
<1>9. /\ call[t].since \in 1 .. Now /\ call[t].seen \in call[t].since .. Now
      /\ call[t].seen \in 1 .. Now
      /\ call[t].conn \in Connectors /\ call[t].tool \in Tools
      /\ call[t].tool \in Declared(call[t].conn, call[t].seen)
  BY <1>1, SMT DEF SoughtBy, ReadingOf, RecordAt
<1>10. SoughtBy(r) /\ RanLate(r)
  BY <1>5, <1>8, <1>9, SMT DEF SoughtBy, RanLate
<1>11. \A c \in Connectors : \A u \in Threads \ {t} : Guarded(r, c, call[u])
  BY <1>6, <1>8 DEF Guarded, Compared, Overtaking
<1>12. ASSUME NEW c \in Connectors PROVE Settled(r, c, bound)
  <2>1. CASE p = "bind" /\ X = Declared(call[t].conn, call[t].seen)
    BY <1>8, <1>9, <2>1 DEF Settled, Compared
  <2>2. CASE p = "ready" /\ ~ Stale(t)
    <3> DEFINE b == bound[call[t].tool]
    <3>1. ASSUME b.conn \in Connectors, Steady(r, b.conn) PROVE Fresh(r, b)
      <4>1. call[t].tool \in Declared(b.conn, call[t].seen)
        BY <1>8, <1>9, <3>1 DEF Steady
      <4>2. b.conn = call[t].conn
        BY <1>9, <3>1, <4>1 DEF Lately, OneDeclarer
      <4>3. SameLook(b.row, approved[call[t].seen][b.conn][call[t].tool])
        BY <2>2, <4>2 DEF Stale, Seen
      <4>4. 1 <= call[t].seen
        BY <1>9, SMT
      <4>q. QED BY <1>8, <1>9, <4>3, <4>4 DEF Fresh
    <3>q. QED BY <1>8, <3>1 DEF Settled, Compared, Late
  <2>q. QED BY <1>5, <2>1, <2>2
<1>q. QED BY <1>1, <1>2, <1>5, <1>7, <1>8, <1>10, <1>11, <1>12, LatelyThroughQuiet

\* What a thread registers is what it has read: late enough for itself, and for
\* every call that has noticed it.
LEMMA LatelyThroughRegistration ==
  ASSUME TypeOK, Reading, Lately, NEW t \in Threads, NEW n \in Tools, Register(t, n)
  PROVE  Lately'
<1> DEFINE p == IF call[t].todo = {n} THEN "ready" ELSE "bind"
<1>3. p = "bind" \/ (p = "ready" /\ call[t].todo = {n})
  OBVIOUS
<1> DEFINE r == [call[t] EXCEPT !.todo = @ \ {n}, !.pc = p]
           b == [conn |-> call[t].conn, row |-> Seen(t, n)]
<1>1. /\ call[t] \in RecordAt(Now) /\ SoughtBy(call[t]) /\ ReadingOf(call[t])
      /\ call[t].pc = "bind" /\ n \in call[t].todo
  BY ThisCall DEF Register, At, Lately
<1>2. Goes(t, r) /\ UNCHANGED approved /\ bound' = [bound EXCEPT ![n] = b]
  BY DEF Register
<1> HIDE DEF p
<1>4. r \in RecordAt(Now)
  BY <1>1, <1>3, PlacesAre DEF RecordAt
<1>5. /\ r.pc = p /\ r.since = call[t].since /\ r.seen = call[t].seen
      /\ r.older = call[t].older /\ r.tool = call[t].tool /\ r.conn = call[t].conn
      /\ r.skipped = call[t].skipped
      /\ r.todo = call[t].todo \ {n}
  BY <1>1 DEF RecordAt
<1>6. /\ call[t].since \in 1 .. Now /\ call[t].seen \in call[t].since .. Now
      /\ call[t].seen \in 1 .. Now /\ 1 <= call[t].seen
      /\ call[t].seen \in call[t].seen .. Now
  BY <1>1, SMT DEF SoughtBy, ReadingOf, RecordAt
<1>7. b.conn = call[t].conn /\ b.row = approved[call[t].seen][b.conn][n]
  BY DEF Seen
<1> HIDE DEF r, b
<1>8. bound'[n] = b /\ \A m \in Tools \ {n} : bound'[m] = bound[m]
  BY <1>2, Typed
<1>9. SoughtBy(r) /\ RanLate(r)
  BY <1>1, <1>3, <1>5 DEF SoughtBy, RanLate
<1>10. \A q, c : Steady(r, c) = Steady(call[t], c) /\ Fresh(r, q) = Fresh(call[t], q)
  BY <1>5 DEF Steady, Fresh
<1>11. ASSUME NEW c \in Connectors PROVE Settled(r, c, bound')
  <2>1. Settled(call[t], c, bound)
    BY DEF Lately
  <2>2. CASE call[t].tool = n
    <3>1. Fresh(r, b)
      BY <1>5, <1>6, <1>7, <2>2 DEF Fresh, SameLook
    <3>q. QED BY <1>5, <1>8, <2>2, <3>1 DEF Settled, Compared, Late
  <2>3. CASE call[t].tool # n
    <3>1. bound'[call[t].tool] = bound[call[t].tool]
      BY <1>1, <1>8, <2>3 DEF ReadingOf
    <3>2. (r.pc = "bind" => r.tool \notin r.todo) => call[t].tool \notin call[t].todo
      BY <1>3, <1>5, <2>3
    <3>q. QED BY <1>1, <1>5, <1>10, <2>1, <3>1, <3>2 DEF Settled, Compared, Late
  <2>q. QED BY <2>2, <2>3
<1>12. ASSUME NEW c \in Connectors, NEW u \in Threads \ {t}
       PROVE  Guarded(r, c, call[u]) /\ Guarded(call[u], c, r)
  <2>1. Guarded(call[t], c, call[u]) /\ Guarded(call[u], c, call[t])
    BY DEF Lately
  <2>q. QED BY <1>1, <1>5, <1>10, <2>1 DEF Guarded, Compared, Overtaking
<1>13. ASSUME NEW c \in Connectors, NEW u \in Threads \ {t}
       PROVE  Settled(call[u], c, bound')
  <2>1. Settled(call[u], c, bound) /\ Guarded(call[u], c, call[t])
        /\ ReadingOf(call[u]) /\ SoughtBy(call[u]) /\ call[u] \in RecordAt(Now)
    BY ThisCall DEF Lately
  <2>2. CASE call[u].tool = n
    <3>1. ASSUME Compared(call[u]), Steady(call[u], c)
          PROVE  Fresh(call[u], b)
      <4>1. call[t].seen >= call[u].since \/ call[t].seen \in call[u].older
        BY <1>1, <2>1, <3>1 DEF Guarded, Compared, Overtaking
      <4>2. \E s \in {call[u].since} \cup call[u].older : call[t].seen \in s .. Now
        BY <1>6, <2>1, <4>1, SMT DEF RecordAt
      <4>q. QED BY <1>6, <1>7, <2>2, <4>2 DEF Fresh, SameLook
    <3>q. QED BY <1>8, <2>2, <3>1 DEF Settled, Compared, Late
  <2>3. CASE call[u].tool # n
    <3>1. call[u].pc # "idle" => bound'[call[u].tool] = bound[call[u].tool]
      BY <1>8, <2>1, <2>3 DEF ReadingOf
    <3>q. QED BY <2>1, <3>1 DEF Settled, Compared
  <2>q. QED BY <2>2, <2>3
<1>q. QED BY <1>2, <1>4, <1>9, <1>11, <1>12, <1>13, LatelyThroughStep

LEMMA LatelyThroughDecision ==
  ASSUME TypeOK, Reading, Lately, NEW t \in Threads, Decide(t)
  PROVE  Lately'
<1> DEFINE d == bound[call[t].tool].conn
           r == [call[t] EXCEPT !.pc = "decided", !.decided = d]
<1>1. /\ call[t] \in RecordAt(Now) /\ SoughtBy(call[t]) /\ ReadingOf(call[t])
      /\ call[t].pc = "ready"
  BY ThisCall DEF Decide, At, Lately
<1>2. Goes(t, r) /\ UNCHANGED <<approved, bound>>
  BY DEF Decide
<1>3. d \in Connectors \cup {Nowhere}
  BY <1>1, Typed DEF ReadingOf, Entry, Unbound
<1> HIDE DEF d
<1>4. r \in RecordAt(Now)
  BY <1>1, <1>3, PlacesAre DEF RecordAt
<1>5. /\ r.pc = "decided" /\ r.since = call[t].since
      /\ r.older = call[t].older /\ r.tool = call[t].tool /\ r.skipped = call[t].skipped
  BY <1>1 DEF RecordAt
<1> HIDE DEF r
<1>6. SoughtBy(r) /\ RanLate(r)
  BY <1>1, <1>5 DEF SoughtBy, RanLate
<1>7. \A q, c : Steady(r, c) = Steady(call[t], c) /\ Fresh(r, q) = Fresh(call[t], q)
  BY <1>5 DEF Steady, Fresh
<1>8. ASSUME NEW c \in Connectors
      PROVE  Settled(r, c, bound) /\ \A u \in Threads \ {t} : Guarded(r, c, call[u])
  <2>1. /\ Settled(call[t], c, bound)
        /\ \A u \in Threads \ {t} : Guarded(call[t], c, call[u])
    BY DEF Lately
  <2>q. QED BY <1>1, <1>5, <1>7, <2>1 DEF Settled, Late, Guarded, Compared, Overtaking
<1>q. QED BY <1>2, <1>4, <1>5, <1>6, <1>8, LatelyThroughQuiet

LEMMA LatelyThroughRun ==
  ASSUME TypeOK, Reading, Lately, NEW t \in Threads, Run(t)
  PROVE  Lately'
<1> DEFINE e == bound[call[t].tool]
           r == [call[t] EXCEPT !.pc = "ran", !.ran = e]
<1>1. /\ call[t] \in RecordAt(Now) /\ SoughtBy(call[t]) /\ ReadingOf(call[t])
      /\ call[t].pc = "decided"
  BY ThisCall DEF Run, At, Lately
<1>2. Goes(t, r) /\ UNCHANGED <<approved, bound>> /\ e # Unbound
  BY DEF Run
<1>3. e \in [conn : Connectors \cup {Nowhere}, row : Approval] /\ e.conn \in Connectors
  BY <1>1, <1>2, Typed DEF ReadingOf, Entry
<1>4. \A c \in Connectors : Settled(call[t], c, bound)
  BY DEF Lately
<1>5. call[t].skipped \/ Late(call[t], e)
  BY <1>1, <1>3, <1>4 DEF Settled, Compared, Late
<1> HIDE DEF e
<1>6. r \in RecordAt(Now)
  BY <1>1, <1>3, PlacesAre DEF RecordAt
<1>7. /\ r.pc = "ran" /\ r.since = call[t].since /\ r.ran = e
      /\ r.older = call[t].older /\ r.tool = call[t].tool /\ r.skipped = call[t].skipped
  BY <1>1 DEF RecordAt
<1> HIDE DEF r
<1>8. SoughtBy(r)
  BY <1>1, <1>7 DEF SoughtBy
<1>9. RanLate(r)
  BY <1>3, <1>5, <1>7 DEF RanLate, Late, Steady, Fresh
<1>q. QED BY <1>2, <1>6, <1>7, <1>8, <1>9, NothingAsked, LatelyThroughQuiet

LEMMA LatelyThroughBrokenBind ==
  ASSUME TypeOK, Reading, Lately, NEW t \in Threads, Broken(t), bound[call[t].tool] # Unbound
  PROVE  Lately'
<1> DEFINE r == [call[t] EXCEPT !.pc = "ready", !.todo = {}, !.skipped = TRUE]
<1>1. call[t] \in RecordAt(Now) /\ SoughtBy(call[t]) /\ call[t].pc = "bind"
  BY ThisCall DEF Broken, At, Lately
<1>2. Goes(t, r) /\ UNCHANGED <<approved, bound>>
  BY DEF Broken
<1>3. r \in RecordAt(Now)
  BY <1>1, PlacesAre DEF RecordAt
<1>4. r.pc = "ready" /\ r.since = call[t].since /\ r.skipped
  BY <1>1 DEF RecordAt
<1> HIDE DEF r
<1>5. SoughtBy(r) /\ RanLate(r)
  BY <1>1, <1>4 DEF SoughtBy, RanLate
<1>q. QED BY <1>2, <1>3, <1>4, <1>5, NothingAsked, LatelyThroughQuiet

LEMMA LatelyThroughLeaving ==
  ASSUME TypeOK, Reading, Lately, NEW t \in Threads, Leave(t), UNCHANGED <<approved, bound>>
  PROVE  Lately'
<1>1. Idle \in RecordAt(Now) /\ Goes(t, Idle)
  BY Typed, IdleIsTyped DEF Leave
<1>2. Idle.pc = "idle"
  BY DEF Idle
<1>3. SoughtBy(Idle) /\ RanLate(Idle)
  BY <1>2 DEF SoughtBy, RanLate
<1>q. QED BY <1>1, <1>2, <1>3, NothingAsked, LatelyThroughQuiet

\* With no call under way, nothing is asked.
LEMMA LatelyOfIdle ==
  ASSUME OneDeclarer, \A t \in Threads : call[t] = Idle
  PROVE  Lately
<1>1. Idle.pc = "idle"
  BY DEF Idle
<1>2. SoughtBy(Idle) /\ RanLate(Idle)
  BY <1>1 DEF SoughtBy, RanLate
<1>q. QED BY <1>1, <1>2, NothingAsked DEF Lately

LEMMA LatelyStays ==
  ASSUME TypeOK, Reading, Lately, [Next]_vars
  PROVE  Lately'
<1>1. CASE Restart
  <2>1. OneDeclarer'
    BY <1>1 DEF Restart, Lately, OneDeclarer, Declared, Now
  <2>2. \A t \in Threads : call'[t].pc = "idle"
    BY <1>1 DEF Restart, Idle
  <2>q. QED BY <2>1, <2>2 DEF Lately, SoughtBy, RanLate, Settled, Guarded, Compared
<1>2. CASE UNCHANGED vars
  <2>1. approved' = approved /\ bound' = bound /\ call' = call
    BY <1>2 DEF vars
  <2>2. OneDeclarer'
    BY <2>1 DEF Lately, OneDeclarer, Declared, Now
  <2>3. \A r, c : Steady(r, c)' <=> Steady(r, c)
    BY <2>1 DEF Steady, Declared, Now
  <2>4. \A r, b : Late(r, b)' <=> Late(r, b)
    BY <2>1, <2>3 DEF Late, Fresh, Now
  <2>5. \A t \in Threads : SoughtBy(call[t])' /\ RanLate(call[t])'
    BY <2>1, <2>4 DEF Lately, SoughtBy, RanLate, Declared, Now
  <2>6. \A t \in Threads, c \in Connectors :
          /\ Settled(call[t], c, bound)'
          /\ \A u \in Threads \ {t} : Guarded(call[t], c, call[u])'
    BY <2>1, <2>3, <2>4 DEF Lately, Settled, Guarded
  <2>q. QED BY <2>2, <2>5, <2>6 DEF Lately
<1>q. QED
  BY <1>1, <1>2, LatelyThroughAdmin, LatelyThroughArrival, LatelyThroughChoice,
     LatelyThroughLook, LatelyThroughRead, LatelyThroughComparison,
     LatelyThroughRegistration, LatelyThroughDecision, LatelyThroughRun,
     LatelyThroughBrokenBind, LatelyThroughLeaving
  DEF Next, Admin, RegisterFails, Unreachable, Broken, End

LEMMA LatelyEnough == Lately => ApprovedLately
<1> SUFFICES ASSUME Lately, NEW t \in Threads, Approving(t), ~ call[t].skipped
             PROVE  \E s \in {call[t].since} \cup call[t].older : \E k \in s .. Now :
                      SameLook(call[t].ran.row, approved[k][call[t].ran.conn][call[t].tool])
  BY DEF ApprovedLately
<1>1. RanLate(call[t])
  BY DEF Lately
<1>2. call[t].ran.conn \in Connectors /\ Late(call[t], call[t].ran)
  BY <1>1 DEF RanLate, Approving, At
<1>3. Steady(call[t], call[t].ran.conn)
  BY DEF Approving, Steady
<1>q. QED BY <1>2, <1>3 DEF Late, Fresh

\* The approval a call ran on stood when the call arrived or later, or since a bind
\* that was then under way was started: never one replaced before all of that.
THEOREM ApprovedLatelyHolds == Spec => []ApprovedLately
<1>1. Init => Lately
  <2> SUFFICES ASSUME Init PROVE Lately
    OBVIOUS
  <2>1. \A c \in Connectors \ {Home} : \A n \in Tools : approved[1][c][n] = None
    BY DEF Init
  <2>2. Now = 1
    BY SMT DEF Init, Now
  <2>3. OneDeclarer
    BY <2>1, <2>2, SMT DEF OneDeclarer, Declared
  <2>q. QED BY <2>3, LatelyOfIdle DEF Init
<1>2. TypeOK /\ Reading /\ Lately /\ [Next]_vars => Lately'
  BY LatelyStays
<1>q. QED BY <1>1, <1>2, LatelyEnough, TypesHold, PTL DEF Spec
=============================================================================
