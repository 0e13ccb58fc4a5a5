---------------------------- MODULE ToolRegistry ----------------------------
(***************************************************************************)
(* The approvals of one tenant, and what one process has bound of them     *)
(* (tools/__init__.py: get, register, ensure_available, _stale_names; the  *)
(* door's _bind around them; vet_tool, withdraw_tool, deregister).         *)
(*                                                                         *)
(* An administrator approves tools in the database.  A process keeps a     *)
(* Tool object per name, a copy of the approval made when the connector    *)
(* was last bound, and every call reads the approvals anew to notice that  *)
(* the copy is stale.  Threads read and write the copies one name at a     *)
(* time, and a server may take its time to answer tools/list.              *)
(*                                                                         *)
(* A tool is its local name.  Of an approval two parts are told apart:     *)
(* what _descriptor compares (effect, identity, resources, the pointer to  *)
(* the credential, ...) and redact_args.  A call reads the approvals of    *)
(* the one connector that declares its tool.                               *)
(***************************************************************************)
EXTENDS Integers, Sequences

CONSTANTS
    Threads,     \* threads that serve tools/call in one process
    Connectors,
    Tools,       \* local names
    Rest,        \* the connectors that are REST: bound without a dial
    Home,        \* the connector whose tools are approved from the start
    MaxVets      \* bound: administrative acts

ASSUME RegistryAssumption ==
    /\ Rest \subseteq Connectors /\ Home \in Connectors /\ MaxVets \in Nat

None     == [look |-> 0, redact |-> 0]
Approval == [look : 0 .. MaxVets + 1, redact : 0 .. MaxVets + 1]
Nowhere  == "nowhere"
NoTool   == "no tool"

ASSUME NowhereAssumption == Nowhere \notin Connectors /\ NoTool \notin Tools

VARIABLES
    approved,  \* vetted_tools, every state it has had: the last is the present one
    bound,     \* _BOUND of the tenant: each name's connector and its approval's copy
    call       \* what each thread knows of the call it serves

vars == <<approved, bound, call>>

Unbound == [conn |-> Nowhere, row |-> None]

Idle == [pc |-> "idle", tool |-> NoTool, conn |-> Nowhere, missing |-> FALSE,
         since |-> 0, seen |-> 0, older |-> {}, todo |-> {}, skipped |-> FALSE,
         decided |-> Nowhere,
         ran |-> Unbound]

Now == Len(approved)

\* Which of its tools a connector declares, in the state k of the approvals.
\* (Connector.declared_names)
Declared(c, k) == {n \in Tools : approved[k][c][n] # None}

Init ==
    /\ approved = <<[c \in Connectors |-> [n \in Tools |->
                        IF c = Home THEN [look |-> 1, redact |-> 1] ELSE None]]>>
    /\ bound = [n \in Tools |-> Unbound]
    /\ call = [t \in Threads |-> Idle]

Places == {"idle", "admitted", "chosen", "looked", "read", "bind", "ready", "decided", "ran"}

TypeOK ==
    /\ approved \in Seq([Connectors -> [Tools -> Approval]])
    /\ Now \in 1 .. MaxVets + 1
    /\ bound \in [Tools -> [conn : Connectors, row : Approval \ {None}] \cup {Unbound}]
    /\ call \in [Threads -> [
         pc : Places, tool : Tools \cup {NoTool}, conn : Connectors \cup {Nowhere},
         missing : BOOLEAN, since : 0 .. Now, seen : 0 .. Now, older : SUBSET (0 .. Now),
         todo : SUBSET Tools, skipped : BOOLEAN, decided : Connectors \cup {Nowhere},
         ran : [conn : Connectors \cup {Nowhere}, row : Approval]]]

-----------------------------------------------------------------------------
(* The administrator.                                                       *)

Write(c, n, row) ==
    /\ Now <= MaxVets
    /\ approved' = Append(approved, [approved[Now] EXCEPT ![c][n] = row])
    /\ UNCHANGED <<bound, call>>

\* A new approval, or a review that changed something _descriptor compares.  Two
\* connectors never declare one name at a time here.
Vet(c, n) ==
    /\ \A d \in Connectors \ {c} : n \notin Declared(d, Now)
    /\ Write(c, n, [look |-> Now + 1, redact |-> Now + 1])

\* A review that changed which arguments the audit hashes, and nothing else.
VetRedaction(c, n) ==
    /\ n \in Declared(c, Now)
    /\ Write(c, n, [approved[Now][c][n] EXCEPT !.redact = Now + 1])

\* One approval withdrawn.
Withdraw(c, n) ==
    /\ n \in Declared(c, Now)
    /\ Write(c, n, None)

\* A connector removed, and every approval on it.
Deregister(c) ==
    /\ Declared(c, Now) # {}
    /\ Now <= MaxVets
    /\ approved' = Append(approved, [approved[Now] EXCEPT ![c] = [n \in Tools |-> None]])
    /\ UNCHANGED <<bound, call>>

-----------------------------------------------------------------------------
(* A call.                                                                  *)

At(t, where) == call[t].pc = where

Goes(t, r) == call' = [call EXCEPT ![t] = r]

Leave(t) == Goes(t, Idle)

\* Agents are read, and one that grants a name nobody declares is invalid: a call
\* gets further only for a tool some connector declares now.
Arrive(t, n) ==
    /\ At(t, "idle")
    /\ \E c \in Connectors : n \in Declared(c, Now)
    /\ Goes(t, [call[t] EXCEPT !.pc = "admitted", !.tool = n, !.since = Now])
    /\ UNCHANGED <<approved, bound>>

\* The door finds the connector of the tool; with none, there is nothing to bind.
Choose(t) ==
    /\ At(t, "admitted")
    /\ LET wanting == {c \in Connectors : call[t].tool \in Declared(c, Now)} IN
         \/ /\ wanting = {}
            /\ Goes(t, [call[t] EXCEPT !.pc = "ready"])
         \/ \E c \in wanting :
              Goes(t, [call[t] EXCEPT !.pc = "chosen", !.conn = c])
    /\ UNCHANGED <<approved, bound>>

\* ensure_available asks the registry before it reads the approvals.
Look(t) ==
    /\ At(t, "chosen")
    /\ Goes(t, [call[t] EXCEPT !.pc = "looked", !.missing = (bound[call[t].tool] = Unbound)])
    /\ UNCHANGED <<approved, bound>>

\* The approvals, read once more; a connector that no longer declares the tool has
\* nothing to bind.
Read(t) ==
    /\ At(t, "looked")
    /\ Goes(t, [call[t] EXCEPT !.seen = Now,
                               !.pc = IF call[t].tool \in Declared(call[t].conn, Now)
                                      THEN "read" ELSE "ready"])
    /\ UNCHANGED <<approved, bound>>

Seen(t, n) == approved[call[t].seen][call[t].conn][n]

\* Two approvals _descriptor finds equal.
SameLook(a, b) == a.look = b.look

\* The copy of the tool this call asked for is not what has been read.
Stale_Never(t) == FALSE  \* mutant: once bound, never looked at again

Stale(t) ==
    LET n == call[t].tool IN
    /\ bound[n].conn = call[t].conn
    /\ ~ SameLook(bound[n].row, Seen(t, n))

\* The threads that have read approvals they may yet register.
Binding(t) == {u \in Threads \ {t} : call[u].pc \in {"read", "bind"}}

\* A bind, or nothing: only a tool that is missing or stale has its connector bound.
\* The connector's every approved tool is then registered.
Bind(t, tools) ==
    /\ At(t, "read")
    /\ LET rebind == call[t].missing \/ Stale(t) IN
         Goes(t, [call[t] EXCEPT !.pc = IF rebind THEN "bind" ELSE "ready",
                                 !.todo = IF rebind THEN tools ELSE {},
                                 !.older = {call[u].seen : u \in Binding(t)}])
    /\ UNCHANGED <<approved, bound>>

Compare(t) == Bind(t, Declared(call[t].conn, call[t].seen))

\* A name another connector holds is not taken over.
Clashes_Never(t, n) == FALSE  \* mutant: the last to bind takes the name

Clashes(t, n) == bound[n].conn \notin {Nowhere, call[t].conn}

\* Everything the connector declares is registered, a name at a time.
Register(t, n) ==
    /\ At(t, "bind")
    /\ n \in call[t].todo
    /\ ~ Clashes(t, n)
    /\ bound' = [bound EXCEPT ![n] = [conn |-> call[t].conn, row |-> Seen(t, n)]]
    /\ Goes(t, [call[t] EXCEPT !.todo = @ \ {n},
                               !.pc = IF call[t].todo = {n} THEN "ready" ELSE "bind"])
    /\ UNCHANGED approved

\* A clash ends the call, with some names registered and some not.
RegisterFails(t, n) ==
    /\ At(t, "bind")
    /\ n \in call[t].todo
    /\ Clashes(t, n)
    /\ Leave(t)
    /\ UNCHANGED <<approved, bound>>

\* An MCP server is dialled for its session or its tools/list: it may not answer, and
\* a vetted tool may have vanished from the list.
Unreachable(t) ==
    /\ call[t].pc \in {"read", "bind"}
    /\ call[t].conn \notin Rest
    /\ At(t, "bind") => call[t].todo = Declared(call[t].conn, call[t].seen)
    /\ Leave(t)
    /\ UNCHANGED <<approved, bound>>

\* An MCP server is dialled with the shared credential or the caller's own, which may
\* have expired.  If the tool is bound none the less, the call goes on without the
\* bind; the caller's account is renewed before the broker reads it.
Broken(t) ==
    /\ At(t, "bind")
    /\ call[t].conn \notin Rest
    /\ call[t].todo = Declared(call[t].conn, call[t].seen)
    /\ \/ bound[call[t].tool] = Unbound /\ Leave(t)
       \/ /\ bound[call[t].tool] # Unbound
          /\ Goes(t, [call[t] EXCEPT !.pc = "ready", !.todo = {}, !.skipped = TRUE])
    /\ UNCHANGED <<approved, bound>>

\* The door takes the tool from the registry: whose account the call needs is
\* settled, refreshed and adjudicated with this copy.
Decide(t) ==
    /\ At(t, "ready")
    /\ Goes(t, [call[t] EXCEPT !.pc = "decided", !.decided = bound[call[t].tool].conn])
    /\ UNCHANGED <<approved, bound>>

\* The broker takes it again, checks it and runs that copy; no tool, no run.
Run(t) ==
    /\ At(t, "decided")
    /\ bound[call[t].tool] # Unbound
    /\ Goes(t, [call[t] EXCEPT !.pc = "ran", !.ran = bound[call[t].tool]])
    /\ UNCHANGED <<approved, bound>>

\* The call is refused, before or after the decision, or it has answered.
End(t) ==
    /\ call[t].pc \in {"decided", "ran"}
    /\ Leave(t)
    /\ UNCHANGED <<approved, bound>>

\* The process is restarted: its registry and its calls are gone.
Restart ==
    /\ bound' = [n \in Tools |-> Unbound]
    /\ call' = [t \in Threads |-> Idle]
    /\ UNCHANGED approved

Next ==
    \/ \E t \in Threads :
         \/ Choose(t) \/ Look(t) \/ Read(t) \/ Compare(t) \/ Unreachable(t) \/ Broken(t)
         \/ Decide(t) \/ Run(t) \/ End(t)
         \/ \E n \in Tools : Arrive(t, n) \/ Register(t, n) \/ RegisterFails(t, n)
    \/ \E c \in Connectors :
         \/ Deregister(c)
         \/ \E n \in Tools : Vet(c, n) \/ VetRedaction(c, n) \/ Withdraw(c, n)
    \/ Restart

Spec == Init /\ [][Next]_vars
-----------------------------------------------------------------------------
(* What the registry promises.                                              *)

\* The call has run on a connector that approved the tool all along.
Approving(t) ==
    /\ At(t, "ran")
    /\ \A k \in call[t].since .. Now : call[t].tool \in Declared(call[t].ran.conn, k)

\* The approval a call ran on is one that stood when it arrived or later, or since
\* a bind that was under way was started: never one replaced before all of that.
\* A call whose own bind was skipped is excused.  (ensure_available, _stale_names)
ApprovedLately ==
    \A t \in Threads : Approving(t) /\ ~ call[t].skipped =>
        \E s \in {call[t].since} \cup call[t].older : \E k \in s .. Now :
            SameLook(call[t].ran.row, approved[k][call[t].ran.conn][call[t].tool])

\* A name means one thing for the whole of a call: the connector whose account was
\* settled and refreshed is the connector that is called.  (register)
OneMeaning ==
    \A t \in Threads : At(t, "ran") =>
        call[t].ran.conn = call[t].decided \/ call[t].decided = Nowhere

\* "A re-vetted tool has to rebind, or the approval is a screen and not a control":
\* a call that ran alone ran on the whole of an approval that stood meanwhile.
\* (ensure_available)
RevetTakesEffect ==
    \A t \in Threads : Approving(t) /\ call[t].older = {} /\ ~ call[t].skipped =>
        \E k \in call[t].since .. Now :
            call[t].ran.row = approved[k][call[t].ran.conn][call[t].tool]

\* "If the tool is bound, binding's failure changes nothing" (door.py): refuted,
\* because the bind that failed may have been the one that replaces a stale copy, and
\* the account it failed with is renewed before the broker reads it.
BrokenBindChangesNothing ==
    \A t \in Threads : Approving(t) /\ call[t].older = {} =>
        \E k \in call[t].since .. Now :
            SameLook(call[t].ran.row, approved[k][call[t].ran.conn][call[t].tool])

\* The bound without binds under way being excused: refuted, because a bind started
\* before a review may register what it read after a later bind did.
NoOlderBindWins ==
    \A t \in Threads : Approving(t) /\ ~ call[t].skipped =>
        \E k \in call[t].since .. Now :
            SameLook(call[t].ran.row, approved[k][call[t].ran.conn][call[t].tool])

\* A connector whose approval was withdrawn before a call arrived is not the one
\* called: refuted when another connector has been given the name, because the
\* process keeps the first one's copy until it is restarted.
WithdrawnIsNotCalled ==
    \A t \in Threads : At(t, "ran") =>
        \E k \in call[t].since .. Now : call[t].tool \in Declared(call[t].ran.conn, k)

=============================================================================
