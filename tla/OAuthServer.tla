---------------------------- MODULE OAuthServer ----------------------------
(***************************************************************************)
(* The door as an OAuth server (access/oauth_server.py, consent, exchange  *)
(* and sweep, with tokens.mint and the oauth_codes, oauth_clients and      *)
(* api_tokens tables).  A person consents to a client, the client is given *)
(* a code, and the code is exchanged once for a personal token.            *)
(*                                                                         *)
(* Workers are the threads that serve requests, over all replicas.  Every  *)
(* storage call is a step of its own.  A presentation either proves itself *)
(* (its client, redirect, resource and PKCE verifier are those of the row) *)
(* or it does not.                                                         *)
(***************************************************************************)
EXTENDS Naturals, FiniteSets

CONSTANTS
    Workers,       \* threads that serve /oauth/consent and /oauth/token
    Codes,         \* authorization codes: each consent draws a fresh one
    Clients,       \* client ids: each registration draws a fresh one
    People,
    NameAttempts,  \* _NAME_ATTEMPTS: the names a token is tried with
    MaxTokens,     \* bound: tokens ever minted
    MaxTroubles    \* bound: crashes, tokens revoked, people disabled or enabled

ASSUME ServerAssumption ==
    /\ NameAttempts \in Nat \ {0} /\ MaxTokens \in Nat /\ MaxTroubles \in Nat
    /\ IsFiniteSet(Workers) /\ IsFiniteSet(Codes)

NoOne    == "no one"
NoClient == "no client"
NoCode   == "no code"
NoToken  == 0
TokenIds == 1 .. MaxTokens
Names    == 1 .. NameAttempts

ASSUME NobodyAssumption == NoOne \notin People /\ NoClient \notin Clients /\ NoCode \notin Codes

VARIABLES
    client,    \* oauth_clients: "none", "fresh", "old" (past the unused window), "gone"
    approved,  \* the clients with last_consented_at
    code,      \* oauth_codes, a row per code, with how far past its expiry it is
    token,     \* api_tokens, a row per token
    active,    \* the people whose account is active
    work,      \* what each thread holds of the request it serves
    told,      \* history: codes that went out in a redirect
    late,      \* history: codes presented again after their token was recorded
    early,     \* history: codes presented again before that
    cut,       \* history: codes whose exchange was cut short after it spent the code
    troubles

tables  == <<client, approved, code, token>>
history == <<told, late, early, cut>>
vars    == <<tables, active, work, history, troubles>>

Idle == [pc |-> "idle", code |-> NoCode, client |-> NoClient, person |-> NoOne,
         tried |-> 0, token |-> NoToken, seen |-> FALSE]

NoRow   == [at |-> "none", client |-> NoClient, owner |-> NoOne, used |-> FALSE,
            token |-> NoToken, age |-> "fresh"]
Unminted == [at |-> "none", code |-> NoCode, owner |-> NoOne, name |-> 0]

\* A token a person made on the tokens page, under the name the client would be given.
ByHand(p) == [at |-> "live", code |-> NoCode, owner |-> p, name |-> 1]

Init ==
    /\ client   = [k \in Clients |-> "none"]
    /\ approved = {}
    /\ code     = [c \in Codes |-> NoRow]
    /\ token    \in {[i \in TokenIds |-> Unminted]} \cup
                   {[i \in TokenIds |-> IF i = 1 THEN ByHand(p) ELSE Unminted] : p \in People}
    /\ active   = People
    /\ work     = [w \in Workers |-> Idle]
    /\ told = {} /\ late = {} /\ early = {} /\ cut = {}
    /\ troubles = 0

Registered(k) == client[k] \in {"fresh", "old"}
Stored(c)     == code[c].at = "stored"
Live(i)       == token[i].at = "live"

To(w, step)  == work' = [work EXCEPT ![w].pc = step]
Answer(w)    == work' = [work EXCEPT ![w] = Idle]

-----------------------------------------------------------------------------
(* Registration and consent.                                               *)

Register(k) ==
    /\ client[k] = "none"
    /\ client' = [client EXCEPT ![k] = "fresh"]
    /\ UNCHANGED <<approved, code, token, active, work, history, troubles>>

\* A person approves; the client is looked up before anything is written.
Approve(w, p, k) ==
    /\ work[w].pc = "idle"
    /\ p \in active
    /\ Registered(k)
    /\ work' = [work EXCEPT ![w] = [Idle EXCEPT !.pc = "issue", !.person = p, !.client = k]]
    /\ UNCHANGED <<tables, active, history, troubles>>

\* The code's row refers to the client's: without it the consent is refused.
Issue(w, c) ==
    /\ work[w].pc = "issue"
    /\ code[c].at = "none"
    /\ IF Registered(work[w].client)
       THEN /\ code' = [code EXCEPT ![c] =
                           [NoRow EXCEPT !.at = "stored", !.client = work[w].client,
                                         !.owner = work[w].person]]
            /\ work' = [work EXCEPT ![w].pc = "touch", ![w].code = c]
       ELSE Answer(w) /\ UNCHANGED code
    /\ UNCHANGED <<client, approved, token, active, history, troubles>>

\* The client is stamped, and the person's browser is sent on with the code.
Touch(w) ==
    /\ work[w].pc = "touch"
    /\ approved' = IF Registered(work[w].client) THEN approved \cup {work[w].client} ELSE approved
    /\ told' = told \cup {work[w].code}
    /\ Answer(w)
    /\ UNCHANGED <<client, code, token, active, late, early, cut, troubles>>

-----------------------------------------------------------------------------
(* The exchange.                                                           *)

\* What the row says of a presentation, in the order the code asks.
Spent(c)    == code[c].used
Usable(c)   == code[c].age = "fresh"

Replayed_Proved(c, proves) ==  \* mutant: a replay, too, must be one that could succeed
    Spent(c) /\ code[c].token # NoToken /\ Usable(c) /\ proves

\* A replay is one whatever it proves, and however late.
Replayed(c, proves) == Spent(c) /\ code[c].token # NoToken

\* A spent code revokes the token its first presentation minted, if the row names
\* one; a presentation that fails any check is refused and touches nothing.
Present(w, c, proves) ==
    /\ work[w].pc = "idle"
    /\ c \in told /\ Stored(c)
    /\ late'  = IF Spent(c) /\ code[c].token # NoToken THEN late \cup {c} ELSE late
    /\ early' = IF Spent(c) /\ code[c].token = NoToken THEN early \cup {c} ELSE early
    /\ work'  = [work EXCEPT ![w] =
          IF Replayed(c, proves)
          THEN [Idle EXCEPT !.pc = "revoke", !.code = c, !.token = code[c].token]
          ELSE IF ~ Spent(c) /\ Usable(c) /\ proves
          THEN [Idle EXCEPT !.pc = "person", !.code = c, !.person = code[c].owner,
                            !.seen = code[c].owner \in active]
          ELSE @]
    /\ UNCHANGED <<tables, active, told, cut, troubles>>

RevokeReplayed(w) ==
    /\ work[w].pc = "revoke"
    /\ token' = [token EXCEPT ![work[w].token].at = "revoked"]
    /\ Answer(w)
    /\ UNCHANGED <<client, approved, code, active, history, troubles>>

FindPerson_Trusted(w) ==  \* mutant: whoever consented is still there
    /\ work[w].pc = "person"
    /\ To(w, "consume")
    /\ UNCHANGED <<tables, active, history, troubles>>

FindPerson(w) ==
    /\ work[w].pc = "person"
    /\ IF work[w].person \in active THEN To(w, "consume") ELSE Answer(w)
    /\ UNCHANGED <<tables, active, history, troubles>>

Consume_Checked(w) ==  \* mutant: the row was read unused, so it is
    /\ work[w].pc = "consume"
    /\ code' = [code EXCEPT ![work[w].code].used = Stored(work[w].code)]
    /\ work' = [work EXCEPT ![w].pc = "mint", ![w].tried = 1]
    /\ UNCHANGED <<client, approved, token, active, history, troubles>>

\* The compare-and-set: of two exchanges that race, one mints.
Consume(w) ==
    /\ work[w].pc = "consume"
    /\ IF Stored(work[w].code) /\ ~ Spent(work[w].code)
       THEN /\ code' = [code EXCEPT ![work[w].code].used = TRUE]
            /\ work' = [work EXCEPT ![w].pc = "mint", ![w].tried = 1]
       ELSE Answer(w) /\ UNCHANGED code
    /\ UNCHANGED <<client, approved, token, active, history, troubles>>

Taken(p, name) == \E i \in TokenIds : Live(i) /\ token[i].owner = p /\ token[i].name = name

\* One insert; a name the person already has makes the next suffix be tried, and the
\* last one taken leaves a spent code with no token.
Mint(w) ==
    /\ work[w].pc = "mint"
    /\ IF ~ Taken(work[w].person, work[w].tried)
       THEN \E i \in TokenIds :
              /\ token[i].at = "none"
              /\ \A j \in 1 .. i - 1 : token[j].at # "none"
              /\ token' = [token EXCEPT ![i] =
                              [at |-> "live", code |-> work[w].code, owner |-> work[w].person,
                               name |-> work[w].tried]]
              /\ work' = [work EXCEPT ![w].pc = "record", ![w].token = i]
              /\ UNCHANGED cut
       ELSE IF work[w].tried < NameAttempts
       THEN /\ work' = [work EXCEPT ![w].tried = @ + 1]
            /\ UNCHANGED <<token, cut>>
       ELSE /\ Answer(w)
            /\ cut' = cut \cup {work[w].code}
            /\ UNCHANGED token
    /\ UNCHANGED <<client, approved, code, active, told, late, early, troubles>>

\* The row is told which token its code became, and the token goes out.
Record(w) ==
    /\ work[w].pc = "record"
    /\ code' = IF Stored(work[w].code)
               THEN [code EXCEPT ![work[w].code].token = work[w].token] ELSE code
    /\ Answer(w)
    /\ UNCHANGED <<client, approved, token, active, history, troubles>>

-----------------------------------------------------------------------------
(* Time, the hourly sweep, and everybody else.                             *)

\* A code is usable for five minutes and known for an hour more.
Later(age) == IF age = "fresh" THEN "expired" ELSE "due"

GrowOld(c) ==
    /\ Stored(c) /\ code[c].age # "due"
    /\ code' = [code EXCEPT ![c].age = Later(@)]
    /\ UNCHANGED <<client, approved, token, active, work, history, troubles>>

GoUnused(k) ==
    /\ client[k] = "fresh"
    /\ client' = [client EXCEPT ![k] = "old"]
    /\ UNCHANGED <<approved, code, token, active, work, history, troubles>>

Deleted(row) == [row EXCEPT !.at = "gone"]

SweepCodes ==
    /\ \E c \in Codes : Stored(c) /\ code[c].age = "due"
    /\ code' = [c \in Codes |->
                  IF Stored(c) /\ code[c].age = "due" THEN Deleted(code[c]) ELSE code[c]]
    /\ UNCHANGED <<client, approved, token, active, work, history, troubles>>

Unused == {k \in Clients : client[k] = "old" /\ k \notin approved}

\* The codes of a client go with it.
SweepClients ==
    /\ Unused # {}
    /\ client' = [k \in Clients |-> IF k \in Unused THEN "gone" ELSE client[k]]
    /\ code'   = [c \in Codes |->
                    IF Stored(c) /\ code[c].client \in Unused THEN Deleted(code[c]) ELSE code[c]]
    /\ UNCHANGED <<approved, token, active, work, history, troubles>>

Trouble == troubles < MaxTroubles /\ troubles' = troubles + 1

\* The account is disabled, or enabled again.
SetStatus(p) ==
    /\ Trouble
    /\ active' = IF p \in active THEN active \ {p} ELSE active \cup {p}
    /\ work'   = [w \in Workers |->
                    [work[w] EXCEPT !.seen = @ \/ (work[w].person = p /\ p \notin active)]]
    /\ UNCHANGED <<tables, history>>

RevokeByHand(i) ==
    /\ Trouble
    /\ Live(i)
    /\ token' = [token EXCEPT ![i].at = "revoked"]
    /\ UNCHANGED <<client, approved, code, active, work, history>>

\* A process dies, or the database fails under the request: nothing is undone.
Crash(w) ==
    /\ Trouble
    /\ work[w].pc # "idle"
    /\ cut' = IF work[w].pc \in {"mint", "record"} THEN cut \cup {work[w].code} ELSE cut
    /\ late' = IF work[w].pc = "revoke" THEN late \ {work[w].code} ELSE late
    /\ Answer(w)
    /\ UNCHANGED <<tables, active, told, early>>

-----------------------------------------------------------------------------
Serve(w) ==
    \/ \E c \in Codes : Issue(w, c)
    \/ Touch(w) \/ RevokeReplayed(w) \/ FindPerson(w) \/ Consume(w) \/ Mint(w) \/ Record(w)

Next ==
    \/ \E k \in Clients : Register(k) \/ GoUnused(k)
    \/ \E w \in Workers, p \in People, k \in Clients : Approve(w, p, k)
    \/ \E w \in Workers, c \in Codes, proves \in BOOLEAN : Present(w, c, proves)
    \/ \E w \in Workers : Serve(w) \/ Crash(w)
    \/ \E c \in Codes : GrowOld(c)
    \/ SweepCodes \/ SweepClients
    \/ \E p \in People : SetStatus(p)
    \/ \E i \in TokenIds : RevokeByHand(i)

Spec == Init /\ [][Next]_vars

-----------------------------------------------------------------------------
(* Properties.                                                             *)

Of(c) == {i \in TokenIds : token[i].at # "none" /\ token[i].code = c}

TypeOK ==
    /\ client \in [Clients -> {"none", "fresh", "old", "gone"}]
    /\ approved \subseteq Clients
    /\ code \in [Codes -> [at : {"none", "stored", "gone"}, client : Clients \cup {NoClient},
                           owner : People \cup {NoOne}, used : BOOLEAN,
                           token : TokenIds \cup {NoToken}, age : {"fresh", "expired", "due"}]]
    /\ token \in [TokenIds -> [at : {"none", "live", "revoked"}, code : Codes \cup {NoCode},
                               owner : People \cup {NoOne}, name : Names \cup {0}]]
    /\ active \subseteq People
    /\ work \in [Workers ->
                   [pc : {"idle", "issue", "touch", "revoke", "person", "consume", "mint",
                          "record"},
                    code : Codes \cup {NoCode}, client : Clients \cup {NoClient},
                    person : People \cup {NoOne}, tried : Names \cup {0},
                    token : TokenIds \cup {NoToken}, seen : BOOLEAN]]
    /\ told \subseteq Codes /\ late \subseteq Codes /\ early \subseteq Codes /\ cut \subseteq Codes
    /\ troubles \in 0 .. MaxTroubles

\* "Two exchanges racing on one code cannot both mint."  (exchange, consume_oauth_code)
OneTokenPerCode == \A c \in Codes : Cardinality(Of(c)) <= 1

\* A code presented again once its token is on the row leaves no live token behind,
\* when the presentation has been answered, and whoever makes it: another client, a
\* wrong verifier, after the code's expiry, a second replay.  (exchange)
ReplayRevokes ==
    \A c \in late : (\A w \in Workers : work[w].pc = "revoke" => work[w].code # c) =>
        \A i \in Of(c) : ~ Live(i)

\* "Minting for somebody who has been disabled since they consented is wrong": a token
\* is minted for a person who was active at some moment of the exchange.  (exchange)
MintedForTheActive ==
    \A w \in Workers : work[w].pc \in {"consume", "mint", "record"} => work[w].seen

\* A consent is not wasted: a code is spent only by an exchange that mints for it, but
\* where that exchange dies half-way or the person has every name already.  However
\* many exchanges race, they do not all lose.  (exchange)
SpentMeansMinted ==
    \A c \in Codes : Spent(c) =>
        \/ Of(c) # {}
        \/ \E w \in Workers : work[w].pc = "mint" /\ work[w].code = c
        \/ c \in cut

\* One consent is one token.  (exchange)
OneTokenPerConsent == OneTokenPerCode /\ SpentMeansMinted

\* "A second presentation revokes the token the first one minted": whenever a code was
\* presented again, and nobody is busy with it any more, its token is not live.
\* (access/oauth_server.py:39-40, exchange)
SecondPresentationRevokes ==
    \A c \in late \cup early : (\A w \in Workers : work[w].code # c) =>
        \A i \in Of(c) : ~ Live(i)

\* "A client with any approval ever is kept": a code is never deleted under a person
\* who has just approved its client.  (storage/base.py:3150-3152, sweep_oauth_clients)
ApprovedClientIsKept ==
    \A w \in Workers : work[w].pc = "touch" => Registered(work[w].client)
=============================================================================
