---------------------------- MODULE OAuthProofs -----------------------------
(***************************************************************************)
(* The safety properties of both OAuth components hold for any number of   *)
(* threads, codes, clients, people, flows, redirects, tokens and mishaps:  *)
(* OAuthServer, where Carnet gives out tokens, and OAuthConnection, where  *)
(* it renews the ones it was given.                                        *)
(*                                                                         *)
(* The argument for the server.  Who spends a code is alone with it: the   *)
(* compare-and-set finds it unspent once, so at most one thread is minting *)
(* for it, and it has no token until that thread has made one, after which *)
(* nobody mints for it any more (OneMinter, WorkerSound, CodeSound).  So a *)
(* code has one token at most, the token its row names is that one, and    *)
(* revoking it leaves nothing of the code alive.  What a thread remembers  *)
(* of the person is kept by the accounts themselves: an account that is    *)
(* enabled again is seen active by everybody who waits for its owner.      *)
(*                                                                         *)
(* The argument for a connection.  Only a thread that asks with a token    *)
(* spends it, and of two threads that hold one token one has lost its lock *)
(* (LockOK), which is written down when it happens (ReadOK).  What a       *)
(* thread is about to store, a successor or the token of a new consent,    *)
(* nobody else has (AloneOK), so it cannot have been spent.  So a spent    *)
(* token that is still to be asked with, or is still in the row, had its   *)
(* renewal cut short, or its successor is about to be stored (SpentOK);    *)
(* and a token that is no longer live was spent, or died with its grant    *)
(* (DeadOK).                                                               *)
(***************************************************************************)
EXTENDS OAuthServer, OAuthConnection, FiniteSetTheorems, TLAPS

-----------------------------------------------------------------------------
(* The server: the strengthening.                                          *)

Busy == {"touch", "revoke", "person", "consume", "mint", "record"}

\* What a thread holds is true of the tables.
WorkerSound(w) ==
    /\ work[w].pc \in Busy => /\ work[w].code \in Codes
                              /\ code[work[w].code].at # "none"
    /\ work[w].pc \in {"issue", "touch"} => work[w].client \in Clients
    /\ work[w].pc = "mint" => Spent(work[w].code) /\ Of(work[w].code) = {}
    /\ work[w].pc \in {"record", "revoke"} => work[w].token \in Of(work[w].code)
    /\ work[w].pc = "person" /\ work[w].person \in active => work[w].seen
    /\ work[w].pc \in {"consume", "mint", "record"} => work[w].seen

\* Of two threads that mint for one code, one is the other.
OneMinter ==
    \A w, v \in Workers :
        /\ work[w].pc = "mint" /\ work[v].pc = "mint"
        /\ work[w].code = work[v].code
        => w = v

Minting(c) == \E w \in Workers : work[w].pc = "mint" /\ work[w].code = c
Revoking(c) == \E w \in Workers : work[w].pc = "revoke" /\ work[w].code = c

\* The rows of a code and of its token agree.
CodeSound(c) ==
    /\ Spent(c) \/ c \in told => code[c].at # "none"
    /\ Of(c) # {} => Spent(c)
    /\ \A i, j \in Of(c) : i = j
    /\ code[c].token # NoToken => code[c].token \in Of(c)
    /\ c \in late => code[c].token # NoToken
    /\ c \in late => Revoking(c) \/ \A i \in Of(c) : ~ Live(i)
    /\ Spent(c) => Of(c) # {} \/ Minting(c) \/ c \in cut

IInv ==
    /\ TypeOK
    /\ \A w \in Workers : WorkerSound(w)
    /\ OneMinter
    /\ \A c \in Codes : CodeSound(c)

-----------------------------------------------------------------------------
(* The server: what the steps have in common.                              *)

\* Tokens are made or revoked; what there was of a code stays of it.
LEMMA SameTokens ==
    ASSUME UNCHANGED token, NEW c
    PROVE  Of(c)' = Of(c)
BY DEF Of

LEMMA RevokedTokens ==
    ASSUME TypeOK, NEW i \in TokenIds, token[i].at # "none", NEW c,
           token' = [token EXCEPT ![i].at = "revoked"]
    PROVE  /\ Of(c)' = Of(c)
           /\ ~ Live(i)'
           /\ \A j \in TokenIds : ~ Live(j) => ~ Live(j)'
           /\ token' \in [TokenIds -> [at : {"none", "live", "revoked"},
                                       code : Codes \cup {NoCode},
                                       owner : People \cup {NoOne}, name : Names \cup {0}]]
<1>1. \A j \in TokenIds : /\ token'[j].code = token[j].code
                          /\ j # i => token'[j] = token[j]
                          /\ token'[i].at = "revoked"
  BY DEF TypeOK
<1>2. \A j \in TokenIds : token'[j].at = "none" <=> token[j].at = "none"
  BY <1>1
<1>3. Of(c)' = Of(c)
  BY <1>1, <1>2 DEF Of
<1>4. ~ Live(i)' /\ \A j \in TokenIds : ~ Live(j) => ~ Live(j)'
  BY <1>1 DEF Live
<1> QED
  BY <1>3, <1>4 DEF TypeOK

\* A step that changes no code and no token, and moves no thread into or out of minting
\* and revoking, keeps what is sound of the codes.
LEMMA CodesKept ==
    ASSUME IInv, UNCHANGED <<code, token>>, told' \subseteq told \cup Codes,
           \A c \in told' : code[c].at # "none",
           late' = late, cut \subseteq cut',
           \A c \in Codes : /\ Minting(c) => Minting(c)' \/ c \in cut'
                            /\ Revoking(c) => Revoking(c)'
    PROVE  \A c \in Codes : CodeSound(c)'
<1> SUFFICES ASSUME NEW c \in Codes PROVE CodeSound(c)'
  OBVIOUS
<1>1. CodeSound(c) /\ Of(c)' = Of(c)
  BY SameTokens DEF IInv
<1> QED
  BY <1>1 DEF CodeSound, Spent, Live

\* A thread the step does not touch is as sound as it was, if the rows it relies on are.
LEMMA OthersKept ==
    ASSUME NEW v \in Workers, WorkerSound(v), work'[v] = work[v],
           active' \subseteq active,
           \A c \in Codes : /\ code[c].at # "none" => code'[c].at # "none"
                            /\ code[c].used => code'[c].used
                            /\ Of(c) \subseteq Of(c)',
           work[v].pc = "mint" => Of(work[v].code)' = Of(work[v].code)
    PROVE  WorkerSound(v)'
BY DEF WorkerSound, Spent, Busy
-----------------------------------------------------------------------------
(* The server: types.                                                      *)

CodeRows == [at : {"none", "stored", "gone"}, client : Clients \cup {NoClient},
             owner : People \cup {NoOne}, used : BOOLEAN,
             token : TokenIds \cup {NoToken}, age : {"fresh", "expired", "due"}]
TokenRows == [at : {"none", "live", "revoked"}, code : Codes \cup {NoCode},
              owner : People \cup {NoOne}, name : Names \cup {0}]
Works == [pc : {"idle", "issue", "touch", "revoke", "person", "consume", "mint", "record"},
          code : Codes \cup {NoCode}, client : Clients \cup {NoClient},
          person : People \cup {NoOne}, tried : Names \cup {0},
          token : TokenIds \cup {NoToken}, seen : BOOLEAN]

LEMMA Typed ==
    ASSUME TypeOK
    PROVE  /\ client \in [Clients -> {"none", "fresh", "old", "gone"}]
           /\ approved \subseteq Clients
           /\ code \in [Codes -> CodeRows] /\ token \in [TokenIds -> TokenRows]
           /\ active \subseteq People
           /\ work \in [Workers -> Works]
           /\ told \subseteq Codes /\ late \subseteq Codes /\ early \subseteq Codes
           /\ cut \subseteq Codes
           /\ troubles \in 0 .. MaxTroubles
BY DEF TypeOK, CodeRows, TokenRows, Works

LEMMA TypedNext ==
    ASSUME client' \in [Clients -> {"none", "fresh", "old", "gone"}],
           approved' \subseteq Clients,
           code' \in [Codes -> CodeRows], token' \in [TokenIds -> TokenRows],
           active' \subseteq People,
           work' \in [Workers -> Works],
           told' \subseteq Codes, late' \subseteq Codes, early' \subseteq Codes,
           cut' \subseteq Codes,
           troubles' \in 0 .. MaxTroubles
    PROVE  TypeOK'
BY DEF TypeOK, CodeRows, TokenRows, Works

LEMMA IdleType == Idle \in Works /\ Idle.pc = "idle"
BY DEF Idle, Works

\* A step of one thread: what it is left with, and that the others keep what they had.
LEMMA OneWorks ==
    ASSUME TypeOK, NEW w \in Workers, NEW new \in Works, work' = [work EXCEPT ![w] = new]
    PROVE  /\ work' \in [Workers -> Works]
           /\ work'[w] = new
           /\ \A v \in Workers \ {w} : work'[v] = work[v]
BY Typed

\* ... and a thread that does not mint or revoke, before or after, changes nothing that
\* the codes rely on.
LEMMA QuietStep ==
    ASSUME TypeOK, NEW w \in Workers, \A v \in Workers \ {w} : work'[v] = work[v],
           work[w].pc \notin {"mint", "revoke"}
    PROVE  \A c \in Codes : /\ Minting(c) => Minting(c)'
                            /\ Revoking(c) => Revoking(c)'
BY DEF Minting, Revoking

LEMMA MinterStays ==
    ASSUME OneMinter, NEW w \in Workers, \A v \in Workers \ {w} : work'[v] = work[v],
           work'[w].pc # "mint"
    PROVE  OneMinter'
BY DEF OneMinter

\* The tables stay: the thread that moves has only itself to answer for.
LEMMA OthersStay ==
    ASSUME IInv, NEW w \in Workers, UNCHANGED <<code, token, active>>,
           \A v \in Workers \ {w} : work'[v] = work[v],
           WorkerSound(w)'
    PROVE  \A v \in Workers : WorkerSound(v)'
<1> SUFFICES ASSUME NEW v \in Workers \ {w} PROVE WorkerSound(v)'
  OBVIOUS
<1>1. \A c \in Codes : Of(c)' = Of(c)
  BY SameTokens
<1>2. Of(work[v].code)' = Of(work[v].code)
  BY SameTokens
<1> QED
  BY <1>1, <1>2, OthersKept DEF IInv

-----------------------------------------------------------------------------
(* The server: registration and consent.                                   *)

LEMMA RegisterKeeps ==
    ASSUME IInv, NEW k \in Clients, Register(k) \/ GoUnused(k)
    PROVE  IInv'
<1>1. UNCHANGED <<approved, code, token, active, work, told, late, early, cut, troubles>>
  BY DEF Register, GoUnused, history
<1>2. TypeOK'
  BY <1>1 DEF IInv, TypeOK, Register, GoUnused
<1>3. \A w \in Workers : WorkerSound(w)'
  BY <1>1, SameTokens DEF IInv, WorkerSound, Spent
<1>4. OneMinter'
  BY <1>1 DEF IInv, OneMinter
<1>5. \A c \in Codes : /\ Minting(c)' = Minting(c)
                       /\ Revoking(c)' = Revoking(c)
  BY <1>1 DEF Minting, Revoking
<1>6. \A c \in told' : code[c].at # "none"
  BY <1>1 DEF IInv, CodeSound, TypeOK
<1>7. \A c \in Codes : CodeSound(c)'
  BY <1>1, <1>5, <1>6, CodesKept
<1> QED
  BY <1>2, <1>3, <1>4, <1>7 DEF IInv

LEMMA ApproveKeeps ==
    ASSUME IInv, NEW w \in Workers, NEW p \in People, NEW k \in Clients, Approve(w, p, k)
    PROVE  IInv'
<1> DEFINE new == [Idle EXCEPT !.pc = "issue", !.person = p, !.client = k]
<1>1. /\ UNCHANGED <<client, approved, code, token, active, told, late, early, cut, troubles>>
      /\ work[w].pc = "idle"
      /\ work' = [work EXCEPT ![w] = new]
  BY DEF Approve, tables, history
<1>2. new \in Works /\ new.pc = "issue" /\ new.client = k
  BY DEF Idle, Works
<1>3. /\ work' \in [Workers -> Works] /\ work'[w].pc = "issue" /\ work'[w].client = k
      /\ \A v \in Workers \ {w} : work'[v] = work[v]
  BY <1>1, <1>2, OneWorks DEF IInv
<1>4. TypeOK'
  BY <1>1, <1>3, Typed, TypedNext DEF IInv
<1>5. \A v \in Workers : WorkerSound(v)'
  <2>1. WorkerSound(w)'
    BY <1>3 DEF WorkerSound, Busy
  <2> QED
    BY <1>1, <1>3, <2>1, OthersStay
<1>6. \A c \in Codes : CodeSound(c)'
  <2>1. \A c \in told' : code[c].at # "none"
    BY <1>1 DEF IInv, CodeSound, TypeOK
  <2>2. \A c \in Codes : /\ Minting(c) => Minting(c)'
                         /\ Revoking(c) => Revoking(c)'
    BY <1>1, <1>3, QuietStep DEF IInv
  <2> QED
    BY <1>1, <2>1, <2>2, CodesKept
<1> QED
  BY <1>3, <1>4, <1>5, <1>6, MinterStays DEF IInv

\* A thread that moves where the tables stay, to a place that needs no more of them.
LEMMA QuietKeeps ==
    ASSUME IInv, NEW w \in Workers, NEW new \in Works, work' = [work EXCEPT ![w] = new],
           UNCHANGED <<client, code, token, active, late>>,
           approved' \subseteq Clients, early' \subseteq Codes, troubles' \in 0 .. MaxTroubles,
           told' \subseteq Codes, \A c \in told' : code[c].at # "none",
           cut \subseteq cut', cut' \subseteq Codes,
           work[w].pc = "mint" => work[w].code \in cut',
           work[w].pc # "revoke",
           new.pc # "mint", WorkerSound(w)'
    PROVE  IInv'
<1>1. /\ work' \in [Workers -> Works] /\ work'[w] = new
      /\ \A v \in Workers \ {w} : work'[v] = work[v]
  BY OneWorks DEF IInv
<1>2. TypeOK'
  BY <1>1, Typed, TypedNext DEF IInv
<1>3. \A v \in Workers : WorkerSound(v)'
  BY <1>1, OthersStay
<1>4. OneMinter'
  BY <1>1, MinterStays DEF IInv
<1>5. \A c \in Codes : /\ Minting(c) => Minting(c)' \/ c \in cut'
                       /\ Revoking(c) => Revoking(c)'
  BY <1>1 DEF Minting, Revoking
<1>6. \A c \in Codes : CodeSound(c)'
  BY <1>5, CodesKept
<1> QED
  BY <1>2, <1>3, <1>4, <1>6 DEF IInv

\* Who answers is idle, and an idle thread has nothing to be sound about.
LEMMA AnswerType ==
    ASSUME NEW w \in Workers, Answer(w), TypeOK
    PROVE  /\ work' = [work EXCEPT ![w] = Idle] /\ Idle \in Works /\ Idle.pc = "idle"
           /\ WorkerSound(w)'
<1>1. work' = [work EXCEPT ![w] = Idle] /\ Idle \in Works /\ Idle.pc = "idle"
  BY IdleType DEF Answer
<1>2. work'[w] = Idle
  BY <1>1, OneWorks
<1> QED
  BY <1>1, <1>2 DEF WorkerSound, Busy

LEMMA TouchKeeps ==
    ASSUME IInv, NEW w \in Workers, Touch(w)
    PROVE  IInv'
<1>1. /\ UNCHANGED <<client, code, token, active, late, early, cut, troubles>>
      /\ work[w].pc = "touch" /\ Answer(w)
      /\ told' = told \cup {work[w].code}
  BY DEF Touch
<1>2. work[w].code \in Codes /\ code[work[w].code].at # "none"
  BY <1>1 DEF IInv, WorkerSound, Busy
<1>3. approved' \subseteq Clients
  <2>1. work[w].client \in Clients /\ approved \subseteq Clients
    BY <1>1, Typed DEF IInv, WorkerSound
  <2> QED
    BY <2>1 DEF Touch
<1>4. told' \subseteq Codes /\ \A c \in told' : code[c].at # "none"
  BY <1>1, <1>2, Typed DEF IInv, CodeSound
<1> QED
  BY <1>1, <1>3, <1>4, AnswerType, QuietKeeps, Typed DEF IInv

\* A code that was never drawn has no token, was told to nobody and is nobody's; the row
\* it gets is unspent.
LEMMA IssueKeeps ==
    ASSUME IInv, NEW w \in Workers, NEW c \in Codes, Issue(w, c)
    PROVE  IInv'
<1> DEFINE rec == [NoRow EXCEPT !.at = "stored", !.client = work[w].client,
                                !.owner = work[w].person]
<1>1. /\ UNCHANGED <<client, approved, token, active, told, late, early, cut, troubles>>
      /\ work[w].pc = "issue" /\ code[c].at = "none"
  BY DEF Issue, history
<1>2. CASE ~ Registered(work[w].client)
  <2>1. Answer(w) /\ UNCHANGED code
    BY <1>2 DEF Issue
  <2>2. \A d \in told' : code[d].at # "none"
    BY <1>1, Typed DEF IInv, CodeSound
  <2> QED
    BY <1>1, <2>1, <2>2, AnswerType, QuietKeeps, Typed DEF IInv
<1>3. CASE Registered(work[w].client)
  <2> DEFINE new == [work[w] EXCEPT !.pc = "touch", !.code = c]
  <2>1. /\ code' = [code EXCEPT ![c] = rec]
        /\ work' = [work EXCEPT ![w].pc = "touch", ![w].code = c]
    BY <1>3 DEF Issue
  <2>2. work' = [work EXCEPT ![w] = new] /\ new \in Works
    BY <2>1, Typed DEF IInv, Works
  <2>3. /\ new.pc = "touch" /\ new.code = c /\ new.client = work[w].client
        /\ work[w].client \in Clients
    BY <1>1, Typed DEF IInv, Works, WorkerSound
  <2>4. /\ work' \in [Workers -> Works] /\ work'[w] = new
        /\ \A v \in Workers \ {w} : work'[v] = work[v]
    BY <2>2, OneWorks DEF IInv
  <2>5. rec \in CodeRows /\ rec.at = "stored" /\ rec.used = FALSE /\ rec.token = NoToken
    BY Typed DEF IInv, Works, CodeRows, NoRow
  <2>6. code' \in [Codes -> CodeRows] /\ code'[c] = rec
        /\ \A d \in Codes \ {c} : code'[d] = code[d]
    BY <2>1, <2>5, Typed DEF IInv
  <2>7. TypeOK'
    BY <1>1, <2>4, <2>6, Typed, TypedNext DEF IInv
  <2>8. /\ ~ Spent(c) /\ Of(c) = {} /\ c \notin told
        /\ code[c].token = NoToken /\ c \notin late
    BY <1>1 DEF IInv, CodeSound
  <2>9. \A v \in Workers : WorkerSound(v)'
    <3>1. WorkerSound(w)'
      BY <2>3, <2>4, <2>5, <2>6 DEF WorkerSound, Busy
    <3>2. ASSUME NEW v \in Workers \ {w} PROVE WorkerSound(v)'
      <4>1. WorkerSound(v)
        BY DEF IInv
      <4>2. \A d \in Codes : Of(d)' = Of(d)
        BY <1>1, SameTokens
      <4>3. Of(work[v].code)' = Of(work[v].code)
        BY <1>1, <2>4 DEF Of
      <4>4. \A d \in Codes : /\ code[d].at # "none" => code'[d].at # "none"
                             /\ code[d].used => code'[d].used
        BY <2>5, <2>6, <2>8 DEF Spent
      <4> QED
        BY <1>1, <2>4, <4>1, <4>2, <4>3, <4>4, OthersKept
    <3> QED
      BY <3>1, <3>2
  <2>10. OneMinter'
    BY <2>3, <2>4, MinterStays DEF IInv
  <2>11. \A d \in Codes : CodeSound(d)'
    <3>1. \A d \in Codes : /\ Minting(d) => Minting(d)'
                           /\ Revoking(d) => Revoking(d)'
      BY <1>1, <2>4, QuietStep DEF IInv
    <3>2. CodeSound(c)'
      <4>1. Of(c)' = {}
        BY <1>1, <2>8, SameTokens
      <4> QED
        BY <1>1, <2>5, <2>6, <2>8, <4>1 DEF CodeSound, Spent
    <3>3. ASSUME NEW d \in Codes \ {c} PROVE CodeSound(d)'
      <4>1. CodeSound(d) /\ Of(d)' = Of(d) /\ code'[d] = code[d]
        BY <1>1, <2>6, SameTokens DEF IInv
      <4>2. \A i \in TokenIds : Live(i)' = Live(i)
        BY <1>1 DEF Live
      <4> QED
        BY <1>1, <3>1, <4>1, <4>2 DEF CodeSound, Spent, Live
    <3> QED
      BY <3>2, <3>3
  <2> QED
    BY <2>7, <2>9, <2>10, <2>11 DEF IInv
<1> QED
  BY <1>2, <1>3

-----------------------------------------------------------------------------
(* The server: the exchange.                                               *)

\* A replay holds the token its row names, which is the code's.
LEMMA PresentKeeps ==
    ASSUME IInv, NEW w \in Workers, NEW c \in Codes, NEW proves \in BOOLEAN,
           Present(w, c, proves)
    PROVE  IInv'
<1>1. /\ UNCHANGED <<client, approved, code, token, active, told, cut, troubles>>
      /\ work[w].pc = "idle" /\ code[c].at = "stored"
      /\ early' \subseteq Codes
  BY Typed DEF Present, tables, Stored, IInv
<1>2. \A d \in told' : code[d].at # "none"
  BY <1>1, Typed DEF IInv, CodeSound
<1>3. CASE Replayed(c, proves)
  <2> DEFINE new == [Idle EXCEPT !.pc = "revoke", !.code = c, !.token = code[c].token]
  <2>1. /\ Spent(c) /\ code[c].token # NoToken
        /\ late' = late \cup {c}
        /\ work' = [work EXCEPT ![w] = new]
    BY <1>3 DEF Replayed, Present
  <2>2. new \in Works /\ new.pc = "revoke" /\ new.code = c /\ new.token = code[c].token
    BY Typed DEF IInv, Works, CodeRows, Idle
  <2>3. /\ work' \in [Workers -> Works] /\ work'[w] = new
        /\ \A v \in Workers \ {w} : work'[v] = work[v]
    BY <2>1, <2>2, OneWorks DEF IInv
  <2>4. TypeOK'
    BY <1>1, <2>1, <2>3, Typed, TypedNext DEF IInv
  <2>5. \A d \in Codes : Of(d)' = Of(d)
    BY <1>1, SameTokens
  <2>6. WorkerSound(w)'
    <3>1. code[c].token \in Of(c)
      BY <2>1 DEF IInv, CodeSound
    <3>2. work'[w].token \in Of(c)'
      BY <2>2, <2>3, <2>5, <3>1
    <3>3. work'[w].code = c /\ work'[w].pc = "revoke"
      BY <2>2, <2>3
    <3>4. (work[w].token \in Of(work[w].code))'
      BY <1>1, <3>2, <3>3 DEF Of
    <3> QED
      BY <1>1, <3>3, <3>4 DEF WorkerSound, Busy
  <2>7. \A v \in Workers : WorkerSound(v)'
    BY <1>1, <2>3, <2>6, OthersStay
  <2>8. OneMinter'
    BY <2>2, <2>3, MinterStays DEF IInv
  <2>9. \A d \in Codes : CodeSound(d)'
    <3>1. \A d \in Codes : /\ Minting(d) => Minting(d)'
                           /\ Revoking(d) => Revoking(d)'
                           /\ Revoking(c)'
      BY <1>1, <2>2, <2>3, QuietStep DEF IInv, Revoking
    <3> SUFFICES ASSUME NEW d \in Codes PROVE CodeSound(d)'
      OBVIOUS
    <3>2. CodeSound(d) /\ Of(d)' = Of(d)
      BY <2>5 DEF IInv
    <3>3. \A i \in TokenIds : Live(i)' = Live(i)
      BY <1>1 DEF Live
    <3> QED
      BY <1>1, <2>1, <3>1, <3>2, <3>3 DEF CodeSound, Spent, Live
  <2> QED
    BY <2>4, <2>7, <2>8, <2>9 DEF IInv
<1>4. CASE ~ Replayed(c, proves) /\ ~ Spent(c) /\ Usable(c) /\ proves
  <2> DEFINE new == [Idle EXCEPT !.pc = "person", !.code = c, !.person = code[c].owner,
                                 !.seen = code[c].owner \in active]
  <2>1. late' = late /\ work' = [work EXCEPT ![w] = new]
    BY <1>4 DEF Present
  <2>2. /\ new \in Works /\ new.pc = "person" /\ new.code = c
        /\ new.person \in active => new.seen
    <3> DEFINE owner == code[c].owner
               known == owner \in active
    <3>1. owner \in People \cup {NoOne} /\ known \in BOOLEAN
      BY Typed DEF IInv, CodeRows
    <3>2. new = [Idle EXCEPT !.pc = "person", !.code = c, !.person = owner, !.seen = known]
      OBVIOUS
    <3> HIDE DEF owner, known
    <3>3. new \in Works /\ new.pc = "person" /\ new.code = c
      BY <3>1, <3>2 DEF Works, Idle
    <3>4. new.person = owner /\ new.seen = known
      BY <3>2 DEF Idle
    <3> QED
      BY <3>3, <3>4 DEF known
  <2>3. work'[w] = new
    BY <2>1, <2>2, OneWorks DEF IInv
  <2>4. WorkerSound(w)'
    BY <1>1, <2>2, <2>3 DEF WorkerSound, Busy
  <2> QED
    BY <1>1, <1>2, <2>1, <2>2, <2>4, QuietKeeps, Typed DEF IInv
<1>5. CASE ~ Replayed(c, proves) /\ ~ (~ Spent(c) /\ Usable(c) /\ proves)
  <2>1. late' = late /\ work' = [work EXCEPT ![w] = work[w]]
    BY <1>5 DEF Present, Replayed
  <2>2. work[w] \in Works
    BY Typed DEF IInv
  <2>3. work'[w] = work[w]
    BY <2>1, <2>2, OneWorks DEF IInv
  <2>4. WorkerSound(w)'
    BY <1>1, <2>3 DEF WorkerSound, Busy
  <2> QED
    BY <1>1, <1>2, <2>1, <2>2, <2>4, QuietKeeps, Typed DEF IInv
<1> QED
  BY <1>3, <1>4, <1>5

LEMMA FindPersonKeeps ==
    ASSUME IInv, NEW w \in Workers, FindPerson(w)
    PROVE  IInv'
<1>1. /\ UNCHANGED <<client, approved, code, token, active, told, late, early, cut, troubles>>
      /\ work[w].pc = "person"
  BY DEF FindPerson, tables, history
<1>2. \A d \in told' : code[d].at # "none"
  BY <1>1, Typed DEF IInv, CodeSound
<1>3. CASE work[w].person \in active
  <2> DEFINE new == [work[w] EXCEPT !.pc = "consume"]
  <2>1. work' = [work EXCEPT ![w] = new]
    BY <1>3 DEF FindPerson, To
  <2>2. /\ new \in Works /\ new.pc = "consume" /\ new.code = work[w].code
        /\ new.seen = work[w].seen
    BY Typed DEF IInv, Works
  <2>3. work'[w] = new
    BY <2>1, <2>2, OneWorks DEF IInv
  <2>4. WorkerSound(w)'
    BY <1>1, <1>3, <2>2, <2>3 DEF IInv, WorkerSound, Busy
  <2> QED
    BY <1>1, <1>2, <2>1, <2>2, <2>4, QuietKeeps, Typed DEF IInv
<1>4. CASE work[w].person \notin active
  <2>1. Answer(w)
    BY <1>4 DEF FindPerson
  <2> QED
    BY <1>1, <1>2, <2>1, AnswerType, QuietKeeps, Typed DEF IInv
<1> QED
  BY <1>3, <1>4

\* The compare-and-set finds a code unspent once: nobody mints for it yet, and it has no
\* token.
LEMMA ConsumeKeeps ==
    ASSUME IInv, NEW w \in Workers, Consume(w)
    PROVE  IInv'
<1>0. PICK c \in Codes : c = work[w].code
  BY DEF Consume, IInv, WorkerSound, Busy
<1>1. /\ UNCHANGED <<client, approved, token, active, told, late, early, cut, troubles>>
      /\ work[w].pc = "consume"
      /\ code[c].at # "none"
  BY <1>0 DEF Consume, history, IInv, WorkerSound, Busy
<1>6. work[w].seen
  BY <1>1 DEF IInv, WorkerSound
<1>2. CASE ~ (Stored(c) /\ ~ Spent(c))
  <2>1. Answer(w) /\ UNCHANGED code
    BY <1>0, <1>2 DEF Consume
  <2>2. \A d \in told' : code[d].at # "none"
    BY <1>1, Typed DEF IInv, CodeSound
  <2> QED
    BY <1>1, <2>1, <2>2, AnswerType, QuietKeeps, Typed DEF IInv
<1>3. CASE Stored(c) /\ ~ Spent(c)
  <2> DEFINE new == [work[w] EXCEPT !.pc = "mint", !.tried = 1]
             rec == [code[c] EXCEPT !.used = TRUE]
  <2>1. /\ code' = [code EXCEPT ![c].used = TRUE]
        /\ work' = [work EXCEPT ![w].pc = "mint", ![w].tried = 1]
    BY <1>0, <1>3 DEF Consume
  <2>2. 1 \in Names
    BY ServerAssumption DEF Names
  <2>3. work' = [work EXCEPT ![w] = new] /\ code' = [code EXCEPT ![c] = rec]
    BY <2>1, <1>1, Typed DEF IInv, Works, CodeRows
  <2>4. /\ new \in Works /\ new.pc = "mint" /\ new.code = c /\ new.seen = work[w].seen
    BY <1>0, <2>2, Typed DEF IInv, Works
  <2>5. /\ rec \in CodeRows /\ rec.used = TRUE /\ rec.at = code[c].at
        /\ rec.token = code[c].token
    <3>1. code[c] \in CodeRows
      BY Typed DEF IInv
    <3>2. rec \in CodeRows
      BY <3>1 DEF CodeRows
    <3>3. rec.used = TRUE
      BY <3>1 DEF CodeRows
    <3>4. rec.at = code[c].at /\ rec.token = code[c].token
      BY <3>1 DEF CodeRows
    <3> QED
      BY <3>2, <3>3, <3>4
  <2> HIDE DEF new, rec
  <2>6. /\ work' \in [Workers -> Works] /\ work'[w] = new
        /\ \A v \in Workers \ {w} : work'[v] = work[v]
    BY <2>3, <2>4, OneWorks DEF IInv
  <2>7. /\ code' \in [Codes -> CodeRows] /\ code'[c] = rec
        /\ \A d \in Codes \ {c} : code'[d] = code[d]
    BY <1>1, <2>3, <2>5, Typed DEF IInv
  <2>8. TypeOK'
    BY <1>1, <2>6, <2>7, Typed, TypedNext DEF IInv
  <2>9. /\ Of(c) = {} /\ ~ Minting(c) /\ code[c].token = NoToken /\ c \notin late
    <3>1. CodeSound(c) /\ \A v \in Workers : WorkerSound(v)
      BY DEF IInv
    <3>2. ~ Minting(c)
      BY <1>3, <3>1 DEF Minting, WorkerSound
    <3> QED
      BY <1>3, <3>1, <3>2 DEF CodeSound
  <2>10. \A d \in Codes : Of(d)' = Of(d)
    BY <1>1, SameTokens
  <2>11. \A v \in Workers : WorkerSound(v)'
    <3>1. WorkerSound(w)'
      <4>1. work'[w].pc = "mint" /\ work'[w].code = c /\ work'[w].seen
        BY <1>6, <2>4, <2>6
      <4>2. Of(work[w].code)' = {}
        BY <1>1, <2>9, <4>1 DEF Of
      <4> QED
        BY <1>1, <2>5, <2>7, <4>1, <4>2 DEF WorkerSound, Busy, Spent
    <3>2. ASSUME NEW v \in Workers \ {w} PROVE WorkerSound(v)'
      <4>1. WorkerSound(v)
        BY DEF IInv
      <4>2. Of(work[v].code)' = Of(work[v].code)
        BY <1>1, <2>6 DEF Of
      <4>3. \A d \in Codes : /\ code[d].at # "none" => code'[d].at # "none"
                             /\ code[d].used => code'[d].used
        BY <2>5, <2>7
      <4> QED
        BY <1>1, <2>6, <2>10, <4>1, <4>2, <4>3, OthersKept
    <3> QED
      BY <3>1, <3>2
  <2>12. OneMinter'
    BY <2>4, <2>6, <2>9 DEF IInv, OneMinter, Minting
  <2>13. \A d \in Codes : CodeSound(d)'
    <3>1. CodeSound(c)'
      <4>1. Minting(c)'
        BY <2>4, <2>6 DEF Minting
      <4>2. Of(c)' = {}
        BY <1>1, <2>9, <2>10
      <4> QED
        BY <1>1, <2>5, <2>7, <2>9, <4>1, <4>2 DEF CodeSound, Spent
    <3>2. ASSUME NEW d \in Codes \ {c} PROVE CodeSound(d)'
      <4>1. CodeSound(d) /\ Of(d)' = Of(d) /\ code'[d] = code[d]
        BY <2>7, <2>10 DEF IInv
      <4>2. /\ Minting(d) => Minting(d)'
            /\ Revoking(d) => Revoking(d)'
        BY <1>1, <2>6, QuietStep DEF IInv
      <4>3. \A i \in TokenIds : Live(i)' = Live(i)
        BY <1>1 DEF Live
      <4> QED
        BY <1>1, <4>1, <4>2, <4>3 DEF CodeSound, Spent, Live
    <3> QED
      BY <3>1, <3>2
  <2> QED
    BY <2>8, <2>11, <2>12, <2>13 DEF IInv
<1> QED
  BY <1>2, <1>3

\* The insert: the one token of the code, by the one thread that mints for it.
LEMMA InsertKeeps ==
    ASSUME IInv, NEW w \in Workers, work[w].pc = "mint",
           NEW i \in TokenIds, token[i].at = "none",
           token' = [token EXCEPT ![i] =
                       [at |-> "live", code |-> work[w].code, owner |-> work[w].person,
                        name |-> work[w].tried]],
           work' = [work EXCEPT ![w].pc = "record", ![w].token = i],
           UNCHANGED <<client, approved, code, active, told, late, early, cut, troubles>>
    PROVE  IInv'
<1> DEFINE new == [work[w] EXCEPT !.pc = "record", !.token = i]
           rec == [at |-> "live", code |-> work[w].code, owner |-> work[w].person,
                   name |-> work[w].tried]
<1>0. PICK c \in Codes : c = work[w].code
  BY DEF IInv, WorkerSound, Busy
<1>1. code[c].at # "none" /\ Spent(c) /\ Of(c) = {} /\ work[w].seen
  BY <1>0 DEF IInv, WorkerSound, Busy
<1>2. work' = [work EXCEPT ![w] = new] /\ token' = [token EXCEPT ![i] = rec]
  BY Typed DEF IInv, Works
<1>3. /\ new \in Works /\ new.pc = "record" /\ new.code = c /\ new.seen = work[w].seen
      /\ new.token = i
  BY <1>0, Typed DEF IInv, Works
<1>4. rec \in TokenRows /\ rec.at = "live" /\ rec.code = c
  BY <1>0, Typed DEF IInv, Works, TokenRows
<1> HIDE DEF new, rec
<1>5. /\ work' \in [Workers -> Works] /\ work'[w] = new
      /\ \A v \in Workers \ {w} : work'[v] = work[v]
  BY <1>2, <1>3, OneWorks DEF IInv
<1>6. /\ token' \in [TokenIds -> TokenRows] /\ token'[i] = rec
      /\ \A j \in TokenIds \ {i} : token'[j] = token[j]
  BY <1>2, <1>4, Typed DEF IInv
<1>7. TypeOK'
  BY <1>5, <1>6, Typed, TypedNext DEF IInv
<1>8. /\ Of(c)' = {i}
      /\ \A d \in Codes \ {c} : Of(d)' = Of(d)
  BY <1>1, <1>4, <1>6 DEF Of
<1>9. \A v \in Workers \ {w} : ~ (work[v].pc = "mint" /\ work[v].code = c)
  BY <1>0 DEF IInv, OneMinter
<1>10. \A v \in Workers : WorkerSound(v)'
  <2>1. WorkerSound(w)'
    <3>1. /\ work'[w].pc = "record" /\ work'[w].code = c /\ work'[w].seen
          /\ work'[w].token = i
      BY <1>1, <1>3, <1>5
    <3>2. (work[w].token \in Of(work[w].code))'
      BY <1>4, <1>6, <3>1 DEF Of
    <3> QED
      BY <1>1, <3>1, <3>2 DEF WorkerSound, Busy
  <2>2. ASSUME NEW v \in Workers \ {w} PROVE WorkerSound(v)'
    <3>1. WorkerSound(v)
      BY DEF IInv
    <3>2. \A d \in Codes : Of(d) \subseteq Of(d)'
      BY <1>1, <1>8
    <3>3. ASSUME work[v].pc = "mint" PROVE Of(work[v].code)' = Of(work[v].code)
      <4>1. work[v].code \in Codes \ {c} /\ work'[v] = work[v]
        BY <1>5, <1>9, <3>1, <3>3 DEF WorkerSound, Busy
      <4>2. \A j \in TokenIds : /\ token'[j].at # "none" /\ token'[j].code = work[v].code
                                <=> token[j].at # "none" /\ token[j].code = work[v].code
        BY <1>4, <1>6, <4>1
      <4> QED
        BY <4>1, <4>2 DEF Of
    <3> QED
      BY <1>5, <3>1, <3>2, <3>3, OthersKept
  <2> QED
    BY <2>1, <2>2
<1>11. OneMinter'
  BY <1>3, <1>5, MinterStays DEF IInv
<1>12. \A d \in Codes : CodeSound(d)'
  <2>1. CodeSound(c)'
    <3>1. CodeSound(c) /\ code[c].token = NoToken /\ c \notin late
      BY <1>1 DEF IInv, CodeSound
    <3> QED
      BY <1>1, <1>8, <3>1 DEF CodeSound, Spent
  <2>2. ASSUME NEW d \in Codes \ {c} PROVE CodeSound(d)'
    <3>1. CodeSound(d) /\ Of(d)' = Of(d)
      BY <1>8 DEF IInv
    <3>2. /\ Minting(d) => Minting(d)'
          /\ Revoking(d) => Revoking(d)'
      BY <1>0, <1>5 DEF Minting, Revoking
    <3>3. i \notin Of(d) /\ \A j \in Of(d) : Live(j)' = Live(j)
      BY <1>6 DEF Of, Live
    <3> QED
      BY <3>1, <3>2, <3>3 DEF CodeSound, Spent, Live
  <2> QED
    BY <2>1, <2>2
<1> QED
  BY <1>7, <1>10, <1>11, <1>12 DEF IInv

LEMMA MintKeeps ==
    ASSUME IInv, NEW w \in Workers, Mint(w)
    PROVE  IInv'
<1> DEFINE c == work[w].code
<1>1. /\ UNCHANGED <<client, approved, code, active, told, late, early, troubles>>
      /\ work[w].pc = "mint"
      /\ c \in Codes /\ code[c].at # "none" /\ work[w].seen
  BY DEF Mint, IInv, WorkerSound, Busy
<1>2. \A d \in told' : code[d].at # "none"
  BY <1>1, Typed DEF IInv, CodeSound
<1>3. CASE ~ Taken(work[w].person, work[w].tried)
  BY <1>1, <1>3, InsertKeeps DEF Mint
<1>4. CASE Taken(work[w].person, work[w].tried) /\ work[w].tried < NameAttempts
  <2> DEFINE new == [work[w] EXCEPT !.tried = @ + 1]
  <2>1. work' = [work EXCEPT ![w].tried = @ + 1] /\ UNCHANGED <<token, cut>>
    BY <1>4 DEF Mint
  <2>2. work[w].tried + 1 \in Names
    BY <1>4, Typed, ServerAssumption DEF IInv, Works, Names
  <2>3. work' = [work EXCEPT ![w] = new]
    BY <2>1, Typed DEF IInv, Works
  <2>4. /\ new \in Works /\ new.pc = "mint" /\ new.code = c /\ new.seen = work[w].seen
    BY <1>1, <2>2, Typed DEF IInv, Works
  <2> HIDE DEF new
  <2>5. /\ work' \in [Workers -> Works] /\ work'[w] = new
        /\ \A v \in Workers \ {w} : work'[v] = work[v]
    BY <2>3, <2>4, OneWorks DEF IInv
  <2>6. TypeOK'
    BY <1>1, <2>1, <2>5, Typed, TypedNext DEF IInv
  <2>7. WorkerSound(w)'
    <3>1. /\ work'[w].pc = "mint" /\ work'[w].code = c /\ work'[w].seen
      BY <1>1, <2>4, <2>5
    <3>2. Of(c) = {} /\ Spent(c)
      BY <1>1 DEF IInv, WorkerSound
    <3>3. (Of(work[w].code) = {})'
      BY <2>1, <3>1, <3>2 DEF Of
    <3> QED
      BY <1>1, <3>1, <3>2, <3>3 DEF WorkerSound, Busy, Spent
  <2>8. \A v \in Workers : WorkerSound(v)'
    BY <1>1, <2>1, <2>5, <2>7, OthersStay
  <2>9. /\ OneMinter'
        /\ \A d \in Codes : /\ Minting(d) => Minting(d)'
                            /\ Revoking(d) => Revoking(d)'
    BY <1>1, <2>4, <2>5 DEF IInv, OneMinter, Minting, Revoking
  <2>10. \A d \in Codes : CodeSound(d)'
    BY <1>1, <1>2, <2>1, <2>9, CodesKept
  <2> QED
    BY <2>6, <2>8, <2>9, <2>10 DEF IInv
<1>5. CASE Taken(work[w].person, work[w].tried) /\ ~ (work[w].tried < NameAttempts)
  <2>1. Answer(w) /\ cut' = cut \cup {c} /\ UNCHANGED token
    BY <1>5 DEF Mint
  <2> QED
    BY <1>1, <1>2, <2>1, AnswerType, QuietKeeps, Typed DEF IInv
<1> QED
  BY <1>3, <1>4, <1>5

\* Rows that age, go, or are told of their token: what is sound of a code stays so.
LEMMA RowsKept ==
    ASSUME IInv, UNCHANGED <<token, told, late, cut>>,
           \A d \in Codes :
              /\ code'[d].used = code[d].used
              /\ code'[d].at = "none" <=> code[d].at = "none"
              /\ code[d].token # NoToken => code'[d].token # NoToken
              /\ code'[d].token # NoToken => code'[d].token \in Of(d)
              /\ Minting(d) => Minting(d)'
              /\ Revoking(d) => Revoking(d)'
    PROVE  \A d \in Codes : CodeSound(d)'
<1> SUFFICES ASSUME NEW d \in Codes PROVE CodeSound(d)'
  OBVIOUS
<1>1. CodeSound(d) /\ Of(d)' = Of(d)
  BY SameTokens DEF IInv
<1>2. \A i \in TokenIds : Live(i)' = Live(i)
  BY DEF Live
<1> QED
  BY <1>1, <1>2 DEF CodeSound, Spent, Live

\* The token a thread records is the code's.
LEMMA RecordKeeps ==
    ASSUME IInv, NEW w \in Workers, Record(w)
    PROVE  IInv'
<1>0. PICK c \in Codes : c = work[w].code
  BY DEF Record, IInv, WorkerSound, Busy
<1>1. /\ UNCHANGED <<client, approved, token, active, told, late, early, cut, troubles>>
      /\ work[w].pc = "record" /\ Answer(w)
      /\ code' = IF Stored(c) THEN [code EXCEPT ![c].token = work[w].token] ELSE code
  BY <1>0 DEF Record, history
<1>2. work[w].token \in Of(c) /\ work[w].token \in TokenIds /\ work[w].token # NoToken
  BY <1>0, <1>1 DEF IInv, WorkerSound, Of, TokenIds, NoToken
<1>3. /\ code' \in [Codes -> CodeRows]
      /\ \A d \in Codes :
            /\ code'[d].used = code[d].used
            /\ code'[d].at = code[d].at
            /\ code'[d].token = code[d].token \/ (d = c /\ code'[d].token = work[w].token)
  <2>1. CASE ~ Stored(c)
    BY <1>1, <2>1, Typed DEF IInv
  <2>2. CASE Stored(c)
    <3> DEFINE rec == [code[c] EXCEPT !.token = work[w].token]
    <3>1. code[c] \in CodeRows
      BY Typed DEF IInv
    <3>2. rec \in CodeRows
      BY <1>2, <3>1 DEF CodeRows
    <3>3. rec.used = code[c].used /\ rec.at = code[c].at
      BY <3>1 DEF CodeRows
    <3>4. rec.token = work[w].token
      BY <3>1 DEF CodeRows
    <3>5. code' = [code EXCEPT ![c] = rec]
      BY <1>1, <2>2
    <3> HIDE DEF rec
    <3>6. code'[c] = rec /\ \A d \in Codes \ {c} : code'[d] = code[d]
      BY <3>5, Typed DEF IInv
    <3>7. code' \in [Codes -> CodeRows]
      BY <3>2, <3>5, Typed DEF IInv
    <3> QED
      BY <3>3, <3>4, <3>6, <3>7
  <2> QED
    BY <2>1, <2>2
<1>4. /\ work' \in [Workers -> Works] /\ work'[w] = Idle
      /\ \A v \in Workers \ {w} : work'[v] = work[v]
  BY <1>1, AnswerType, OneWorks DEF IInv
<1>5. TypeOK'
  BY <1>1, <1>3, <1>4, Typed, TypedNext DEF IInv
<1>6. \A v \in Workers : WorkerSound(v)'
  <2>1. WorkerSound(w)'
    BY <1>1, AnswerType DEF IInv
  <2>2. ASSUME NEW v \in Workers \ {w} PROVE WorkerSound(v)'
    <3>1. WorkerSound(v) /\ \A d \in Codes : Of(d)' = Of(d)
      BY <1>1, SameTokens DEF IInv
    <3>2. Of(work[v].code)' = Of(work[v].code)
      BY <1>1, <1>4 DEF Of
    <3> QED
      BY <1>1, <1>3, <1>4, <3>1, <3>2, OthersKept
  <2> QED
    BY <2>1, <2>2
<1>7. OneMinter'
  BY <1>4, IdleType, MinterStays DEF IInv
<1>8. \A d \in Codes : CodeSound(d)'
  <2>1. \A d \in Codes : /\ Minting(d) => Minting(d)'
                         /\ Revoking(d) => Revoking(d)'
    BY <1>1, <1>4, QuietStep DEF IInv
  <2>2. \A d \in Codes : /\ code[d].token # NoToken => code'[d].token # NoToken
                         /\ code'[d].token # NoToken => code'[d].token \in Of(d)
    BY <1>2, <1>3 DEF IInv, CodeSound
  <2> QED
    BY <1>1, <1>3, <2>1, <2>2, RowsKept
<1> QED
  BY <1>5, <1>6, <1>7, <1>8 DEF IInv

\* The one token of the code is revoked.
LEMMA RevokeReplayedKeeps ==
    ASSUME IInv, NEW w \in Workers, RevokeReplayed(w)
    PROVE  IInv'
<1>0. PICK c \in Codes : c = work[w].code
  BY DEF RevokeReplayed, IInv, WorkerSound, Busy
<1>1. /\ UNCHANGED <<client, approved, code, active, told, late, early, cut, troubles>>
      /\ work[w].pc = "revoke" /\ Answer(w)
  BY DEF RevokeReplayed, history
<1>2. PICK i \in TokenIds : i = work[w].token /\ i \in Of(c) /\ token[i].at # "none"
  BY <1>0, <1>1 DEF IInv, WorkerSound, Of
<1>3. token' = [token EXCEPT ![i].at = "revoked"]
  BY <1>2 DEF RevokeReplayed
<1>4. /\ \A d \in Codes : Of(d)' = Of(d)
      /\ ~ Live(i)' /\ \A j \in TokenIds : ~ Live(j) => ~ Live(j)'
      /\ token' \in [TokenIds -> TokenRows]
  BY <1>2, <1>3, RevokedTokens DEF IInv, TokenRows
<1>5. /\ work' \in [Workers -> Works] /\ work'[w] = Idle
      /\ \A v \in Workers \ {w} : work'[v] = work[v]
  BY <1>1, AnswerType, OneWorks DEF IInv
<1>6. TypeOK'
  BY <1>1, <1>4, <1>5, Typed, TypedNext DEF IInv
<1>7. \A v \in Workers : WorkerSound(v)'
  <2>1. WorkerSound(w)'
    BY <1>1, AnswerType DEF IInv
  <2>2. ASSUME NEW v \in Workers \ {w} PROVE WorkerSound(v)'
    <3>1. WorkerSound(v)
      BY DEF IInv
    <3>2. ASSUME work[v].pc = "mint" PROVE Of(work[v].code)' = Of(work[v].code)
      <4>1. PICK d \in Codes : d = work[v].code
        BY <3>1, <3>2 DEF WorkerSound, Busy
      <4>2. work'[v].code = d
        BY <1>5, <4>1
      <4> QED
        BY <1>4, <4>1, <4>2 DEF Of
    <3> QED
      BY <1>1, <1>4, <1>5, <3>1, <3>2, OthersKept
  <2> QED
    BY <2>1, <2>2
<1>8. OneMinter'
  BY <1>5, IdleType, MinterStays DEF IInv
<1>9. \A d \in Codes : CodeSound(d)'
  <2>1. ASSUME NEW d \in Codes PROVE CodeSound(d)'
    <3>1. CodeSound(d) /\ Of(d)' = Of(d)
      BY <1>4 DEF IInv
    <3>2. /\ Minting(d) => Minting(d)'
          /\ Revoking(d) /\ d # c => Revoking(d)'
      BY <1>0, <1>1, <1>5 DEF Minting, Revoking
    <3>3. d = c => \A j \in Of(d) : ~ Live(j)'
      BY <1>2, <1>4, <3>1 DEF CodeSound
    <3>4. \A j \in Of(d) : ~ Live(j) => ~ Live(j)'
      BY <1>4 DEF Of
    <3> QED
      BY <1>1, <3>1, <3>2, <3>3, <3>4 DEF CodeSound, Spent, Live
  <2> QED
    BY <2>1
<1> QED
  BY <1>6, <1>7, <1>8, <1>9 DEF IInv

-----------------------------------------------------------------------------
(* The server: time, the sweep, and everybody else.                        *)

\* Rows that age or go keep what was spent, recorded and drawn.
LEMMA AgingKeeps ==
    ASSUME IInv, client' \in [Clients -> {"none", "fresh", "old", "gone"}],
           code' \in [Codes -> CodeRows],
           \A d \in Codes :
              /\ code'[d].used = code[d].used
              /\ code'[d].at = "none" <=> code[d].at = "none"
              /\ code'[d].token = code[d].token,
           UNCHANGED <<approved, token, active, work, told, late, early, cut, troubles>>
    PROVE  IInv'
<1>1. TypeOK'
  BY Typed, TypedNext DEF IInv
<1>2. ASSUME NEW v \in Workers PROVE WorkerSound(v)'
  <2>1. WorkerSound(v) /\ \A d \in Codes : Of(d)' = Of(d)
    BY SameTokens DEF IInv
  <2>2. Of(work[v].code)' = Of(work[v].code)
    BY DEF Of
  <2> QED
    BY <2>1, <2>2, OthersKept
<1>3. OneMinter'
  BY DEF IInv, OneMinter
<1>4. \A d \in Codes : CodeSound(d)'
  <2>1. \A d \in Codes : /\ Minting(d) => Minting(d)'
                         /\ Revoking(d) => Revoking(d)'
    BY DEF Minting, Revoking
  <2>2. \A d \in Codes : code'[d].token # NoToken => code'[d].token \in Of(d)
    BY DEF IInv, CodeSound
  <2> QED
    BY <2>1, <2>2, RowsKept
<1> QED
  BY <1>1, <1>2, <1>3, <1>4 DEF IInv

LEMMA GrowOldKeeps ==
    ASSUME IInv, NEW c \in Codes, GrowOld(c)
    PROVE  IInv'
<1> DEFINE rec == [code[c] EXCEPT !.age = Later(@)]
<1>1. code[c] \in CodeRows /\ code' = [code EXCEPT ![c] = rec]
  BY Typed DEF IInv, GrowOld, CodeRows
<1>2. /\ rec \in CodeRows /\ rec.at = code[c].at /\ rec.token = code[c].token
  BY <1>1 DEF CodeRows, Later
<1>3. rec.used = code[c].used
  BY <1>1 DEF CodeRows
<1> HIDE DEF rec
<1>4. /\ code' \in [Codes -> CodeRows] /\ code'[c] = rec
      /\ \A d \in Codes \ {c} : code'[d] = code[d]
  BY <1>1, <1>2, Typed DEF IInv
<1>5. \A d \in Codes : /\ code'[d].used = code[d].used
                       /\ code'[d].at = "none" <=> code[d].at = "none"
                       /\ code'[d].token = code[d].token
  BY <1>2, <1>3, <1>4
<1> QED
  BY <1>4, <1>5, AgingKeeps, Typed DEF GrowOld, history, IInv

LEMMA DeletedRow ==
    ASSUME NEW rec \in CodeRows
    PROVE  /\ Deleted(rec) \in CodeRows
           /\ Deleted(rec).used = rec.used /\ Deleted(rec).at = "gone"
           /\ Deleted(rec).token = rec.token
<1>1. Deleted(rec) \in CodeRows /\ Deleted(rec).at = "gone" /\ Deleted(rec).token = rec.token
  BY DEF Deleted, CodeRows
<1>2. Deleted(rec).used = rec.used
  BY DEF Deleted, CodeRows
<1> QED
  BY <1>1, <1>2

\* Either sweep deletes rows that are stored.
LEMMA SweepKeeps ==
    ASSUME IInv, SweepCodes \/ SweepClients
    PROVE  IInv'
<1>1. UNCHANGED <<approved, token, active, work, told, late, early, cut, troubles>>
  BY DEF SweepCodes, SweepClients, history
<1>2. client' \in [Clients -> {"none", "fresh", "old", "gone"}]
  BY Typed DEF SweepCodes, SweepClients, IInv
<1>3. PICK G : code' = [d \in Codes |-> IF Stored(d) /\ d \in G THEN Deleted(code[d])
                                        ELSE code[d]]
  <2>1. CASE SweepCodes
    <3> DEFINE G == {d \in Codes : code[d].age = "due"}
    <3>1. code' = [d \in Codes |-> IF Stored(d) /\ d \in G THEN Deleted(code[d])
                                   ELSE code[d]]
      BY <2>1 DEF SweepCodes
    <3> QED
      BY <3>1
  <2>2. CASE SweepClients
    <3> DEFINE G == {d \in Codes : code[d].client \in Unused}
    <3>1. code' = [d \in Codes |-> IF Stored(d) /\ d \in G THEN Deleted(code[d])
                                   ELSE code[d]]
      BY <2>2 DEF SweepClients
    <3> QED
      BY <3>1
  <2> QED
    BY <2>1, <2>2
<1>4. ASSUME NEW d \in Codes
      PROVE  /\ code'[d] \in CodeRows
             /\ code'[d].used = code[d].used
             /\ code'[d].at = "none" <=> code[d].at = "none"
             /\ code'[d].token = code[d].token
  <2>1. code[d] \in CodeRows /\ (code'[d] = code[d] \/ (Stored(d) /\ code'[d] = Deleted(code[d])))
    BY <1>3, Typed DEF IInv
  <2> QED
    BY <2>1, DeletedRow DEF Stored
<1>5. code' \in [Codes -> CodeRows]
  BY <1>3, <1>4
<1> QED
  BY <1>1, <1>2, <1>4, <1>5, AgingKeeps

\* An account that is enabled is seen so by everybody who waits for its owner.
LEMMA SetStatusKeeps ==
    ASSUME IInv, NEW p \in People, SetStatus(p)
    PROVE  IInv'
<1> DEFINE enabled(w) == work[w].person = p /\ p \notin active
           known(w) == work[w].seen \/ enabled(w)
<1>1. /\ UNCHANGED <<client, approved, code, token, told, late, early, cut>>
      /\ active' = IF p \in active THEN active \ {p} ELSE active \cup {p}
      /\ work' = [w \in Workers |-> [work[w] EXCEPT !.seen = known(w)]]
      /\ troubles < MaxTroubles /\ troubles' = troubles + 1
  BY DEF SetStatus, Trouble, tables, history
<1>2. ASSUME NEW w \in Workers
      PROVE  /\ work'[w] \in Works
             /\ work'[w].pc = work[w].pc /\ work'[w].code = work[w].code
             /\ work'[w].token = work[w].token /\ work'[w].person = work[w].person
             /\ work'[w].client = work[w].client
             /\ work'[w].seen = known(w)
  <2>1. work[w] \in Works /\ known(w) \in BOOLEAN
    BY Typed DEF IInv, Works
  <2>2. work'[w] = [work[w] EXCEPT !.seen = known(w)]
    BY <1>1
  <2> HIDE DEF known
  <2>3. /\ work'[w].pc = work[w].pc /\ work'[w].code = work[w].code
        /\ work'[w].token = work[w].token /\ work'[w].person = work[w].person
        /\ work'[w].client = work[w].client
    BY <2>1, <2>2 DEF Works
  <2>4. work'[w].seen = known(w)
    BY <2>1, <2>2 DEF Works
  <2>5. work'[w] \in Works
    BY <2>1, <2>2 DEF Works
  <2> QED
    BY <2>3, <2>4, <2>5
<1>3. work' \in [Workers -> Works]
  BY <1>1, <1>2
<1>4. TypeOK'
  <2>1. active' \subseteq People /\ troubles' \in 0 .. MaxTroubles
    BY <1>1, Typed, ServerAssumption DEF IInv
  <2> QED
    BY <1>1, <1>3, <2>1, Typed, TypedNext DEF IInv
<1>5. ASSUME NEW w \in Workers PROVE WorkerSound(w)'
  <2>1. WorkerSound(w)
    BY DEF IInv
  <2>2. Of(work[w].code)' = Of(work[w].code)
    BY <1>1, <1>2 DEF Of
  <2>3. (work[w].token \in Of(work[w].code))' <=> work[w].token \in Of(work[w].code)
    BY <1>2, <2>2
  <2>4. work'[w].person \in active' /\ work'[w].pc = "person" => work'[w].seen
    <3>1. work'[w].person \in active' => work[w].person \in active \/ enabled(w)
      BY <1>1, <1>2
    <3>2. work[w].person \in active /\ work[w].pc = "person" => work[w].seen
      BY <2>1 DEF WorkerSound
    <3>3. work'[w].seen = known(w) /\ work'[w].pc = work[w].pc
      BY <1>2
    <3> QED
      BY <3>1, <3>2, <3>3, Zenon
  <2> QED
    BY <1>1, <1>2, <2>1, <2>2, <2>3, <2>4 DEF WorkerSound, Spent, Busy
<1>6. OneMinter'
  BY <1>2 DEF IInv, OneMinter
<1>7. \A d \in Codes : CodeSound(d)'
  <2>1. \A d \in Codes : /\ Minting(d) => Minting(d)'
                         /\ Revoking(d) => Revoking(d)'
    BY <1>2 DEF Minting, Revoking
  <2>2. \A d \in told' : code[d].at # "none"
    BY <1>1, Typed DEF IInv, CodeSound
  <2> QED
    BY <1>1, <2>1, <2>2, CodesKept
<1> QED
  BY <1>4, <1>5, <1>6, <1>7 DEF IInv

LEMMA RevokeByHandKeeps ==
    ASSUME IInv, NEW i \in TokenIds, RevokeByHand(i)
    PROVE  IInv'
<1>1. /\ UNCHANGED <<client, approved, code, active, work, told, late, early, cut>>
      /\ troubles < MaxTroubles /\ troubles' = troubles + 1
      /\ token[i].at # "none" /\ token' = [token EXCEPT ![i].at = "revoked"]
  BY DEF RevokeByHand, Trouble, Live, history
<1>2. /\ \A d \in Codes : Of(d)' = Of(d)
      /\ \A j \in TokenIds : ~ Live(j) => ~ Live(j)'
      /\ token' \in [TokenIds -> TokenRows]
  BY <1>1, RevokedTokens DEF IInv, TokenRows
<1>3. TypeOK'
  <2>1. troubles' \in 0 .. MaxTroubles
    BY <1>1, Typed, ServerAssumption DEF IInv
  <2> QED
    BY <1>1, <1>2, <2>1, Typed, TypedNext DEF IInv
<1>4. ASSUME NEW v \in Workers PROVE WorkerSound(v)'
  <2>1. WorkerSound(v)
    BY DEF IInv
  <2>2. ASSUME work[v].pc = "mint" PROVE Of(work[v].code)' = Of(work[v].code)
    <3>1. PICK d \in Codes : d = work[v].code
      BY <2>1, <2>2 DEF WorkerSound, Busy
    <3>2. work'[v].code = d
      BY <1>1, <3>1
    <3> QED
      BY <1>2, <3>1, <3>2 DEF Of
  <2> QED
    BY <1>1, <1>2, <2>1, <2>2, OthersKept
<1>5. OneMinter'
  BY <1>1 DEF IInv, OneMinter
<1>6. ASSUME NEW d \in Codes PROVE CodeSound(d)'
  <2>1. CodeSound(d) /\ Of(d)' = Of(d) /\ Minting(d)' = Minting(d) /\ Revoking(d)' = Revoking(d)
    BY <1>1, <1>2 DEF IInv, Minting, Revoking
  <2>2. \A j \in Of(d) : ~ Live(j) => ~ Live(j)'
    BY <1>2 DEF Of
  <2> QED
    BY <1>1, <2>1, <2>2 DEF CodeSound, Spent, Live
<1> QED
  BY <1>3, <1>4, <1>5, <1>6 DEF IInv

\* A request that dies takes back nothing it wrote, and is not counted as an answer.
LEMMA CrashKeeps ==
    ASSUME IInv, NEW w \in Workers, Crash(w)
    PROVE  IInv'
<1>1. /\ UNCHANGED <<client, approved, code, token, active, told, early>>
      /\ troubles < MaxTroubles /\ troubles' = troubles + 1
      /\ work[w].pc # "idle" /\ Answer(w)
  BY DEF Crash, Trouble, tables
<1>2. troubles' \in 0 .. MaxTroubles
  BY <1>1, Typed, ServerAssumption DEF IInv
<1>3. \A d \in told' : code[d].at # "none"
  BY <1>1, Typed DEF IInv, CodeSound
<1>4. CASE work[w].pc # "revoke"
  <2>1. late' = late
    BY <1>4 DEF Crash
  <2>2. /\ cut \subseteq cut' /\ cut' \subseteq Codes
        /\ work[w].pc = "mint" => work[w].code \in cut'
    <3>1. work[w].pc \in {"mint", "record"} => work[w].code \in Codes
      BY DEF IInv, WorkerSound, Busy
    <3>2. cut \subseteq Codes
      BY Typed DEF IInv
    <3> QED
      BY <3>1, <3>2 DEF Crash
  <2> QED
    BY <1>1, <1>2, <1>3, <1>4, <2>1, <2>2, AnswerType, QuietKeeps, Typed DEF IInv
<1>5. CASE work[w].pc = "revoke"
  <2>0. PICK c \in Codes : c = work[w].code
    BY <1>5 DEF IInv, WorkerSound, Busy
  <2>1. late' = late \ {c} /\ cut' = cut
    BY <1>5, <2>0 DEF Crash
  <2>2. /\ work' \in [Workers -> Works] /\ work'[w] = Idle
        /\ \A v \in Workers \ {w} : work'[v] = work[v]
    BY <1>1, AnswerType, OneWorks DEF IInv
  <2>3. TypeOK'
    BY <1>1, <1>2, <2>1, <2>2, Typed, TypedNext DEF IInv
  <2>4. \A v \in Workers : WorkerSound(v)'
    <3>1. WorkerSound(w)'
      BY <1>1, AnswerType DEF IInv
    <3> QED
      BY <1>1, <2>2, <3>1, OthersStay
  <2>5. OneMinter'
    BY <2>2, IdleType, MinterStays DEF IInv
  <2>6. ASSUME NEW d \in Codes PROVE CodeSound(d)'
    <3>1. CodeSound(d) /\ Of(d)' = Of(d)
      BY <1>1, SameTokens DEF IInv
    <3>2. /\ Minting(d) => Minting(d)'
          /\ Revoking(d) /\ d # c => Revoking(d)'
      BY <1>5, <2>0, <2>2 DEF Minting, Revoking
    <3>3. \A i \in TokenIds : Live(i)' = Live(i)
      BY <1>1 DEF Live
    <3> QED
      BY <1>1, <2>1, <3>1, <3>2, <3>3 DEF CodeSound, Spent, Live
  <2> QED
    BY <2>3, <2>4, <2>5, <2>6 DEF IInv
<1> QED
  BY <1>4, <1>5

-----------------------------------------------------------------------------
LEMMA Start == Init => IInv
<1> SUFFICES ASSUME Init PROVE IInv
  OBVIOUS
<1>1. /\ client = [k \in Clients |-> "none"] /\ approved = {}
      /\ code = [c \in Codes |-> NoRow]
      /\ active = People /\ work = [w \in Workers |-> Idle]
      /\ told = {} /\ late = {} /\ early = {} /\ cut = {} /\ troubles = 0
  BY DEF Init
<1>2. /\ NoRow \in CodeRows /\ NoRow.at = "none" /\ NoRow.token = NoToken
  BY DEF NoRow, CodeRows
<1>3. NoRow.used = FALSE
  BY DEF NoRow
<1>4. token \in [TokenIds -> TokenRows] /\ \A i \in TokenIds : token[i].code = NoCode
  <2>1. Unminted \in TokenRows /\ Unminted.code = NoCode
    BY DEF Unminted, TokenRows
  <2>2. \A p \in People : ByHand(p) \in TokenRows /\ ByHand(p).code = NoCode
    <3>1. 1 \in Names
      BY ServerAssumption DEF Names
    <3> QED
      BY <3>1 DEF ByHand, TokenRows
  <2>3. CASE token = [i \in TokenIds |-> Unminted]
    BY <2>1, <2>3
  <2>4. ASSUME NEW p \in People,
               token = [i \in TokenIds |-> IF i = 1 THEN ByHand(p) ELSE Unminted]
        PROVE  token \in [TokenIds -> TokenRows] /\ \A i \in TokenIds : token[i].code = NoCode
    BY <2>1, <2>2, <2>4
  <2> QED
    BY <2>3, <2>4 DEF Init
<1>5. \A c \in Codes : Of(c) = {}
  BY <1>4, NobodyAssumption DEF Of
<1>6. TypeOK
  <2>1. 0 \in 0 .. MaxTroubles
    BY ServerAssumption
  <2>2. /\ client \in [Clients -> {"none", "fresh", "old", "gone"}]
        /\ code \in [Codes -> CodeRows] /\ work \in [Workers -> Works]
    BY <1>1, <1>2, IdleType
  <2> QED
    BY <1>1, <1>4, <2>1, <2>2 DEF TypeOK, CodeRows, TokenRows, Works
<1>7. \A w \in Workers : WorkerSound(w)
  BY <1>1, IdleType DEF WorkerSound, Busy
<1>8. OneMinter
  BY <1>1, IdleType DEF OneMinter
<1>9. \A c \in Codes : CodeSound(c)
  BY <1>1, <1>2, <1>3, <1>5 DEF CodeSound, Spent
<1> QED
  BY <1>6, <1>7, <1>8, <1>9 DEF IInv

LEMMA Step == IInv /\ [Next]_vars => IInv'
<1> SUFFICES ASSUME IInv, [Next]_vars PROVE IInv'
  OBVIOUS
<1>1. ASSUME NEW w \in Workers, Serve(w) PROVE IInv'
  BY <1>1, IssueKeeps, TouchKeeps, RevokeReplayedKeeps, FindPersonKeeps, ConsumeKeeps,
     MintKeeps, RecordKeeps DEF Serve
<1>2. CASE Next
  BY <1>1, <1>2, RegisterKeeps, ApproveKeeps, PresentKeeps, CrashKeeps, GrowOldKeeps,
     SweepKeeps, SetStatusKeeps, RevokeByHandKeeps DEF Next
<1>3. CASE UNCHANGED vars
  <2>1. /\ UNCHANGED <<client, approved, code, token, active, work, told, late, early, cut,
                       troubles>>
    BY <1>3 DEF vars, tables, history
  <2> QED
    BY <2>1, AgingKeeps, Typed DEF IInv
<1> QED
  BY <1>2, <1>3

\* The strengthening is an invariant of the server, for every value of its constants.
THEOREM Invariance == Spec => []IInv
BY Start, Step, PTL DEF Spec

\* Every row, and everything a thread holds, keeps its type.  (exchange, consent, sweep)
THEOREM TypeCorrect == Spec => []TypeOK
<1>1. IInv => TypeOK
  BY DEF IInv
<1> QED
  BY Invariance, <1>1, PTL

\* One consent is one token, however many threads exchange its code at once, on however
\* many replicas, and whichever of them die.  (exchange, consume_oauth_code)
THEOREM OneTokenPerConsentHolds == Spec => []OneTokenPerConsent
<1>1. IInv => OneTokenPerConsent
  <2> SUFFICES ASSUME IInv PROVE OneTokenPerConsent
    OBVIOUS
  <2>1. ASSUME NEW c \in Codes PROVE Cardinality(Of(c)) <= 1
    <3>1. \A i, j \in Of(c) : i = j
      BY DEF IInv, CodeSound
    <3>2. CASE Of(c) = {}
      BY <3>2, FS_EmptySet
    <3>3. CASE Of(c) # {}
      <4>1. PICK i : Of(c) = {i}
        BY <3>1, <3>3
      <4> QED
        BY <4>1, FS_Singleton
    <3> QED
      BY <3>2, <3>3
  <2>2. SpentMeansMinted
    BY DEF IInv, CodeSound, SpentMeansMinted, Minting
  <2> QED
    BY <2>1, <2>2 DEF OneTokenPerConsent, OneTokenPerCode
<1> QED
  BY Invariance, <1>1, PTL

\* A replay that has been answered leaves no live token of its code.  (exchange)
THEOREM ReplayRevokesHolds == Spec => []ReplayRevokes
<1>1. IInv => ReplayRevokes
  BY Typed DEF IInv, CodeSound, Revoking, ReplayRevokes
<1> QED
  BY Invariance, <1>1, PTL

\* Nobody is minted for who was not active at some moment of the exchange.  (exchange)
THEOREM MintedForTheActiveHolds == Spec => []MintedForTheActive
<1>1. IInv => MintedForTheActive
  BY DEF IInv, WorkerSound, MintedForTheActive
<1> QED
  BY Invariance, <1>1, PTL

-----------------------------------------------------------------------------
(* A connection: the strengthening.                                        *)

Asking == {"ask", "store", "mark"}

\* The lock is held by the thread that is in the with block, unless it was lost under it.
LockOK ==
  \A w \in Threads :
    /\ lock = w <=> worker[w].pc \in Critical /\ ~worker[w].strayed
    /\ worker[w].pc \notin Critical => ~worker[w].strayed

\* Whatever token is anywhere has been issued; a successor is of the same consent.
IssuedOK ==
  /\ row.token \in 0..issued /\ leaving.token \in 0..issued
  /\ rotated \subseteq 1..issued /\ live \intersect rotated = {}
  /\ \A c \in Callbacks : callback[c].token \in 0..issued
  /\ \A w \in Threads :
       /\ worker[w].token \in 0..issued /\ worker[w].next \in 0..issued
       /\ worker[w].pc \notin Asking => worker[w].token = 0
       /\ worker[w].pc \in {"ask", "store"} => worker[w].token # 0
       /\ IF worker[w].pc = "store"
          THEN worker[w].next # 0 /\ grant[worker[w].next] = grant[worker[w].token]
          ELSE worker[w].next = 0

\* A token nobody has stored or read.
Unread(t) == t \notin rotated \union {row.token} /\ \A w \in Threads : worker[w].token # t

\* What a thread is about to store, a successor or the token of a new consent, it has alone.
AloneOK ==
  /\ \A w \in Threads : worker[w].next # worker[w].token /\ worker[w].next # 0 =>
       /\ Unread(worker[w].next)
       /\ \A v \in Threads \ {w} : worker[v].next # worker[w].next
       /\ \A c \in Callbacks : callback[c].token # worker[w].next
  /\ \A c \in Callbacks : callback[c].token # 0 =>
       /\ Unread(callback[c].token)
       /\ \A d \in Callbacks \ {c} : callback[d].token # callback[c].token

\* A thread whose read of the row still stands, one whose read does not, and one that
\* goes on without the lock.
ReadOK ==
  \A w \in Threads :
    LET t == worker[w].token IN
    /\ worker[w].same => worker[w].pc \in Asking /\ Renewable /\ row.token = t
    /\ t # 0 /\ ~worker[w].same /\ row.kind = "oauth" /\ ~row.flagged /\ row.token = t =>
         t \in torn
    /\ worker[w].strayed /\ t # 0 => t \in torn

\* A spent token that is still to be asked with, or to be stored again, or is in the
\* row, had its renewal cut short; or its successor is about to be stored.
Storing(t) == \E w \in Threads : worker[w].pc = "store" /\ worker[w].same /\ worker[w].token = t

SpentOK ==
  /\ \A w \in Threads :
       /\ worker[w].pc = "ask" \/ (worker[w].pc = "store" /\ worker[w].next = worker[w].token)
       /\ worker[w].token \in rotated
       => worker[w].token \in torn
  /\ row.kind = "oauth" /\ ~row.flagged /\ row.token \in rotated \ torn => Storing(row.token)

\* A token dies by being spent, or with its grant.
DeadOK == \A t \in (1..issued) \ (live \union rotated) : grant[t] \in ended

PostedOK ==
  /\ \A f \in Flows : f \notin begun \/ f \in pending => posted[f] = 0
  /\ OneExchangePerCode

ConnInv ==
  /\ ConnTypeOK /\ LockOK /\ IssuedOK /\ AloneOK /\ ReadOK /\ SpentOK /\ DeadOK /\ PostedOK
  /\ ReuseOnlyAfterTrouble

\* Of two threads that hold one token, one has lost its lock.
LEMMA TwoAsking ==
  ASSUME ConnInv, NEW w \in Threads, NEW v \in Threads, w # v, worker[w].token = worker[v].token,
         worker[w].token # 0
  PROVE  worker[w].token \in torn
<1>1. worker[w].pc \in Critical /\ worker[v].pc \in Critical
  BY DEF ConnInv, IssuedOK, Asking, Critical
<1>2. worker[w].strayed \/ worker[v].strayed
  BY <1>1 DEF ConnInv, LockOK, ConnTypeOK, WorkerStates
<1> QED
  BY <1>2 DEF ConnInv, ReadOK

\* Tokens that were issued fit the bound.
LEMMA Room ==
  ASSUME ConnInv
  PROVE  /\ issued \in Nat /\ issued <= MaxIssued
         /\ 1..issued \subseteq Tokens /\ 0..issued \subseteq Held
         /\ {grant[t] : t \in 1..issued} \subseteq Tokens
<1>1. issued \in Nat /\ issued <= MaxIssued
  BY BoundsAssumption DEF ConnInv, ConnTypeOK
<1>2. 1..issued \subseteq Tokens /\ 0..issued \subseteq Held
  BY <1>1, BoundsAssumption DEF Tokens, Held
<1> QED
  BY <1>1, <1>2 DEF ConnInv, ConnTypeOK

\* The states of a thread that has returned, and of one whose read no longer stands.
LEMMA WorkersType ==
  ASSUME ConnInv
  PROVE  /\ Resting \in WorkerStates
         /\ \A w \in Threads : /\ worker[w] \in WorkerStates
                               /\ [worker[w] EXCEPT !.same = FALSE] \in WorkerStates
<1>1. 0 \in Held
  BY BoundsAssumption DEF Held
<1>2. Resting \in WorkerStates
  BY <1>1 DEF Resting, WorkerStates
<1>3. ASSUME NEW w \in Threads
      PROVE  worker[w] \in WorkerStates /\ [worker[w] EXCEPT !.same = FALSE] \in WorkerStates
  BY DEF ConnInv, ConnTypeOK, WorkerStates
<1> QED
  BY <1>2, <1>3

\* A thread that has its answer.
LEMMA StoringType ==
  ASSUME NEW x \in WorkerStates, NEW n \in Held
  PROVE  [x EXCEPT !.pc = "store", !.next = n] \in WorkerStates
BY DEF WorkerStates, Critical

\* A renewal at the provider.
LEMMA Renewal ==
  ASSUME ConnInv, NEW t \in 1..issued, NEW given \in Held, Renew(t, given), UNCHANGED ended
  PROVE  /\ live' \subseteq 1..issued' /\ issued' \in 0..MaxIssued
         /\ grant' \in [Tokens -> Tokens]
         /\ issued <= issued' /\ \A u \in 1..issued : grant'[u] = grant[u]
         /\ rotated' \subseteq 1..issued' /\ live' \intersect rotated' = {}
         /\ t \notin rotated /\ rotated' \subseteq rotated \union {t}
         /\ IF given = 0 THEN rotated' = rotated /\ issued' = issued
            ELSE given = issued + 1 /\ issued' = given /\ grant'[given] = grant[t]
         /\ DeadOK'
<1> USE DEF Renew, ConnInv, IssuedOK, ConnTypeOK, provider
<1>1. issued \in Nat /\ 1..issued \subseteq Tokens /\ t \in live /\ live \subseteq 1..issued
      /\ t \notin rotated
  BY Room
<1>2. CASE given = 0 /\ UNCHANGED <<provider, rotated>>
  BY <1>1, <1>2 DEF DeadOK
<1>3. CASE /\ issued < MaxIssued /\ given = issued + 1
           /\ issued' = given
           /\ live' = (live \ {t}) \union {given}
           /\ grant' = [grant EXCEPT ![given] = grant[t]]
           /\ rotated' = rotated \union {t}
  <2>1. given \in Tokens /\ given \notin 1..issued /\ given # 0 /\ issued' \in 0..MaxIssued
    BY <1>1, <1>3, BoundsAssumption DEF Tokens
  <2>2. 1..issued' = 1..issued \union {given} /\ issued <= issued'
    BY <1>1, <1>3
  <2>3. /\ grant' \in [Tokens -> Tokens]
        /\ \A u \in 1..issued : grant'[u] = grant[u]
        /\ grant'[given] = grant[t]
    BY <1>1, <1>3, <2>1
  <2>4. /\ live' \subseteq 1..issued' /\ rotated' \subseteq 1..issued'
        /\ live' \intersect rotated' = {}
    BY <1>1, <1>3, <2>1, <2>2
  <2>5. DeadOK'
    BY <1>1, <1>3, <2>2, <2>3 DEF DeadOK
  <2> QED
    BY <1>1, <1>3, <2>1, <2>2, <2>3, <2>4, <2>5
<1> QED
  BY <1>1, <1>2, <1>3

\* Who ends a grant ends all of its tokens.
LEMMA Ending ==
  ASSUME ConnInv, NEW t \in 1..issued, live' = live \ Family(t),
         ended' = ended \union {grant[t]}, UNCHANGED <<grant, issued, rotated>>
  PROVE  live' \subseteq 1..issued' /\ ended' \subseteq Tokens /\ DeadOK'
<1>1. ended' \subseteq Tokens
  BY Room DEF ConnInv, ConnTypeOK
<1> QED
  BY <1>1 DEF ConnInv, ConnTypeOK, DeadOK, Family

\* What a write of the row puts there.
LEMMA Written ==
  ASSUME NEW t \in Held
  PROVE  /\ OAuthRow(t) \in Rows
         /\ OAuthRow(t).kind = "oauth" /\ OAuthRow(t).token = t
         /\ OAuthRow(t).fresh /\ ~OAuthRow(t).flagged
BY DEF OAuthRow, Rows

\* Every read of the row is over once the row is written.
LEMMA Rewritten ==
  ASSUME ConnInv, NEW r, Rewrite(r)
  PROVE  /\ row' = r
         /\ worker' \in [Threads -> WorkerStates]
         /\ \A w \in Threads :
               /\ worker'[w].pc = worker[w].pc /\ worker'[w].token = worker[w].token
               /\ worker'[w].next = worker[w].next /\ worker'[w].strayed = worker[w].strayed
               /\ ~worker'[w].same
BY WorkersType DEF Rewrite, ConnInv, ConnTypeOK, WorkerStates

-----------------------------------------------------------------------------
(* A connection: a renewal, step by step.                                  *)

LEMMA BeginKeeps ==
    ASSUME ConnInv, NEW w \in Threads, Begin(w)
    PROVE  ConnInv'
<1> USE DEF ConnInv, Begin, ours, flows, provider, connHistory
<1>1. ConnTypeOK'
  <2>1. worker' \in [Threads -> WorkerStates]
    BY BoundsAssumption DEF ConnTypeOK, WorkerStates, Critical, Held
  <2> QED
    BY <2>1, BoundsAssumption DEF ConnTypeOK
<1>2. LockOK'
  BY ThreadsAssumption DEF LockOK, Critical, ConnTypeOK, WorkerStates
<1>3. IssuedOK'
  BY DEF IssuedOK, Asking, ConnTypeOK, WorkerStates
<1>4. AloneOK'
  BY DEF AloneOK, Unread, ConnTypeOK, WorkerStates
<1>5. ReadOK'
  BY DEF ReadOK, Asking, Renewable, ConnTypeOK, WorkerStates
<1>6. SpentOK'
  BY DEF SpentOK, Storing, ConnTypeOK, WorkerStates
<1>7. DeadOK'
  BY DEF DeadOK, ConnTypeOK
<1>8. PostedOK'
  BY DEF PostedOK, OneExchangePerCode, ConnTypeOK
<1>9. ReuseOnlyAfterTrouble'
  BY DEF ReuseOnlyAfterTrouble, ConnTypeOK, WorkerStates
<1> QED
  BY <1>1, <1>2, <1>3, <1>4, <1>5, <1>6, <1>7, <1>8, <1>9

LEMMA TryLockKeeps ==
    ASSUME ConnInv, NEW w \in Threads, TryLock(w)
    PROVE  ConnInv'
<1> USE DEF ConnInv, TryLock, flows, provider, counters, connHistory
<1>1. ConnTypeOK'
  <2>1. worker' \in [Threads -> WorkerStates]
    BY BoundsAssumption DEF ConnTypeOK, WorkerStates, Critical, Held
  <2>2. lock' \in Threads \union {Nobody}
    BY BoundsAssumption DEF ConnTypeOK
  <2> QED
    BY <2>1, <2>2 DEF ConnTypeOK
<1>2. LockOK'
  BY ThreadsAssumption DEF LockOK, Critical, ConnTypeOK, WorkerStates
<1>3. IssuedOK'
  BY DEF IssuedOK, Asking, ConnTypeOK, WorkerStates
<1>4. AloneOK'
  BY DEF AloneOK, Unread, ConnTypeOK, WorkerStates
<1>5. ReadOK'
  BY DEF ReadOK, Asking, Renewable, ConnTypeOK, WorkerStates
<1>6. SpentOK'
  BY DEF SpentOK, Storing, ConnTypeOK, WorkerStates
<1>7. DeadOK'
  BY DEF DeadOK, ConnTypeOK
<1>8. PostedOK'
  BY DEF PostedOK, OneExchangePerCode, ConnTypeOK
<1>9. ReuseOnlyAfterTrouble'
  BY DEF ReuseOnlyAfterTrouble, ConnTypeOK, WorkerStates
<1> QED
  BY <1>1, <1>2, <1>3, <1>4, <1>5, <1>6, <1>7, <1>8, <1>9

LEMMA WaitKeeps ==
    ASSUME ConnInv, NEW w \in Threads, Wait(w)
    PROVE  ConnInv'
<1> USE DEF ConnInv, Wait, Resting, ours, flows, provider, counters, connHistory
<1>1. ConnTypeOK'
  <2>1. worker' \in [Threads -> WorkerStates]
    BY BoundsAssumption DEF ConnTypeOK, WorkerStates, Critical, Held
  <2> QED
    BY <2>1 DEF ConnTypeOK
<1>2. LockOK'
  BY ThreadsAssumption DEF LockOK, Critical, ConnTypeOK, WorkerStates
<1>3. IssuedOK'
  BY DEF IssuedOK, Asking, ConnTypeOK, WorkerStates
<1>4. AloneOK'
  BY DEF AloneOK, Unread, ConnTypeOK, WorkerStates
<1>5. ReadOK'
  BY DEF ReadOK, Asking, Renewable, ConnTypeOK, WorkerStates
<1>6. SpentOK'
  BY DEF SpentOK, Storing, ConnTypeOK, WorkerStates
<1>7. DeadOK'
  BY DEF DeadOK, ConnTypeOK
<1>8. PostedOK'
  BY DEF PostedOK, OneExchangePerCode, ConnTypeOK
<1>9. ReuseOnlyAfterTrouble'
  BY DEF ReuseOnlyAfterTrouble, ConnTypeOK, WorkerStates
<1> QED
  BY <1>1, <1>2, <1>3, <1>4, <1>5, <1>6, <1>7, <1>8, <1>9

LEMMA ReadKeeps ==
    ASSUME ConnInv, NEW w \in Threads, Read(w)
    PROVE  ConnInv'
<1> USE DEF ConnInv, Read, Done, Unlock, Resting, Renewable, flows, provider, counters
<1>1. ConnTypeOK'
  <2>1. worker' \in [Threads -> WorkerStates]
    <3>1. row.token \in Held
      BY DEF ConnTypeOK, Rows
    <3>2. CASE ~Renewable /\ Done(w)
      BY <3>2, WorkersType DEF ConnTypeOK
    <3>3. CASE Renewable /\ ~Done(w)
      BY <3>1, <3>3, WorkersType DEF ConnTypeOK, WorkerStates, Critical
    <3> QED
      BY <3>1, <3>2, <3>3, WorkersType DEF ConnTypeOK, WorkerStates, Critical
  <2>2. /\ rotated' \subseteq Tokens /\ reused' \subseteq Tokens
        /\ torn' \subseteq Tokens /\ ended' \subseteq Tokens
    <3>1. {row.token} \ {0} \subseteq Tokens
      BY Room DEF IssuedOK
    <3> QED
      BY <3>1 DEF ConnTypeOK
  <2>3. lock' \in Threads \union {Nobody}
    BY BoundsAssumption DEF ConnTypeOK
  <2> QED
    BY <2>1, <2>2, <2>3 DEF ConnTypeOK
<1>2. LockOK'
  BY ThreadsAssumption DEF LockOK, Critical, ConnTypeOK, WorkerStates
<1>3. IssuedOK'
  BY DEF IssuedOK, Asking, ConnTypeOK, WorkerStates
<1>4. AloneOK'
  BY DEF AloneOK, Unread, ConnTypeOK, WorkerStates
<1>5. ReadOK'
  BY DEF ReadOK, Asking, ConnTypeOK, WorkerStates
<1>6. SpentOK'
  BY TwoAsking DEF SpentOK, Storing, ConnTypeOK, WorkerStates
<1>7. DeadOK'
  BY DEF DeadOK, ConnTypeOK
<1>8. PostedOK'
  BY DEF PostedOK, OneExchangePerCode, ConnTypeOK
<1>9. ReuseOnlyAfterTrouble'
  BY DEF ReuseOnlyAfterTrouble, ConnTypeOK, WorkerStates
<1> QED
  BY <1>1, <1>2, <1>3, <1>4, <1>5, <1>6, <1>7, <1>8, <1>9

\* What a renewal leaves true of the tokens, from what it does to one thread: t is spent
\* for next, or kept.
LEMMA RenewedSound ==
    ASSUME ConnInv, NEW w \in Threads, worker[w].pc = "ask",
           NEW t \in 1..issued, worker[w].token = t,
           NEW next, issued \in Nat, issued' \in Nat, issued <= issued',
           \A u \in 1..issued : grant'[u] = grant[u],
           rotated' \subseteq 1..issued', live' \intersect rotated' = {},
           t \notin rotated, rotated' \subseteq rotated \union {t},
           next \in 1..issued', grant'[next] = grant[t],
           next = t => rotated' = rotated, next # t => next = issued + 1,
           worker'[w].pc = "store", worker'[w].next = next, worker'[w].token = t,
           worker'[w].same = worker[w].same, worker'[w].strayed = worker[w].strayed,
           \A v \in Threads \ {w} : worker'[v] = worker[v],
           UNCHANGED <<row, leaving, callback, torn>>
    PROVE  IssuedOK' /\ AloneOK' /\ ReadOK' /\ SpentOK'
<1>1. IssuedOK'
  <2>1. 0..issued \subseteq 0..issued' /\ 1..issued \subseteq 1..issued'
    OBVIOUS
  <2>2. ASSUME NEW v \in Threads \ {w}
        PROVE  /\ worker[v].token \in 0..issued' /\ worker[v].next \in 0..issued'
               /\ worker[v].pc \notin Asking => worker[v].token = 0
               /\ worker[v].pc \in {"ask", "store"} => worker[v].token # 0
               /\ IF worker[v].pc = "store"
                  THEN worker[v].next # 0 /\ grant'[worker[v].next] = grant'[worker[v].token]
                  ELSE worker[v].next = 0
    BY <2>1 DEF ConnInv, IssuedOK
  <2>3. /\ t \in 0..issued' /\ next \in 0..issued' /\ t # 0 /\ next # 0
        /\ grant'[next] = grant'[t]
    BY <2>1
  <2>4. row.token \in 0..issued' /\ leaving.token \in 0..issued'
        /\ \A c \in Callbacks : callback[c].token \in 0..issued'
    BY <2>1 DEF ConnInv, IssuedOK
  <2> QED
    BY <2>2, <2>3, <2>4 DEF IssuedOK, Asking
<1>2. AloneOK'
  <2>1. next # t => /\ next \notin rotated' \union {row.token}
                    /\ \A v \in Threads : worker[v].token # next /\ worker[v].next # next
                    /\ \A c \in Callbacks : callback[c].token # next
    BY DEF ConnInv, IssuedOK
  <2>2. \A v \in Threads : worker'[v].token = worker[v].token
    OBVIOUS
  <2>3. ASSUME NEW u, Unread(u) PROVE Unread(u)'
    BY <2>2, <2>3 DEF Unread
  <2>4. next # t => Unread(next)'
    BY <2>1, <2>2 DEF Unread
  <2>5. ASSUME NEW v \in Threads \ {w}, worker[v].next # worker[v].token, worker[v].next # 0
        PROVE  /\ Unread(worker[v].next)'
               /\ \A x \in Threads \ {v} : worker'[x].next # worker[v].next
               /\ \A c \in Callbacks : callback[c].token # worker[v].next
    BY <2>1, <2>3, <2>5 DEF ConnInv, AloneOK, Unread
  <2>6. ASSUME NEW c \in Callbacks, callback[c].token # 0
        PROVE  /\ Unread(callback[c].token)'
               /\ \A d \in Callbacks \ {c} : callback[d].token # callback[c].token
    BY <2>3, <2>6 DEF ConnInv, AloneOK
  <2>7. next # t => /\ \A v \in Threads \ {w} : worker'[v].next # next
                    /\ \A c \in Callbacks : callback'[c].token # next
    BY <2>1
  <2> QED
    BY <2>4, <2>5, <2>6, <2>7 DEF AloneOK
<1>3. ReadOK'
  BY DEF ConnInv, ReadOK, Asking, Renewable
<1>4. SpentOK'
  <2>1. ASSUME NEW v \in Threads \ {w}, worker[v].token = t PROVE t \in torn
    BY <2>1, TwoAsking
  <2>2. row.kind = "oauth" /\ ~row.flagged /\ row.token = t => t \in torn \/ worker[w].same
    BY DEF ConnInv, ReadOK
  <2>3. row.kind = "oauth" /\ ~row.flagged /\ row.token \in rotated \ torn => Storing(row.token)'
    BY DEF ConnInv, SpentOK, Storing
  <2>4. row.kind = "oauth" /\ ~row.flagged /\ row.token \in rotated' \ torn => Storing(row.token)'
    BY <2>2, <2>3 DEF Storing
  <2>5. ASSUME NEW v \in Threads,
               \/ worker'[v].pc = "ask"
               \/ worker'[v].pc = "store" /\ worker'[v].next = worker'[v].token,
               worker'[v].token \in rotated'
        PROVE  worker'[v].token \in torn
    <3>1. v # w /\ worker'[v] = worker[v]
      BY <2>5
    <3>2. worker[v].token \in rotated => worker[v].token \in torn
      BY <2>5, <3>1 DEF ConnInv, SpentOK
    <3>3. worker[v].token = t => t \in torn
      BY <2>1, <3>1
    <3>4. worker[v].token \in rotated \union {t}
      BY <2>5, <3>1
    <3> QED
      BY <3>1, <3>2, <3>3, <3>4
  <2> QED
    BY <2>4, <2>5 DEF SpentOK, Storing
<1> QED
  BY <1>1, <1>2, <1>3, <1>4

\* The provider renews: the successor, if there is one, is nobody else's.
LEMMA RenewedKeeps ==
    ASSUME ConnInv, NEW w \in Threads, NEW given \in Held, worker[w].pc = "ask",
           Renew(worker[w].token, given),
           worker' = [worker EXCEPT ![w].pc = "store", ![w].next = Keep(worker[w].token, given)],
           UNCHANGED <<ours, flows, leaving, counters, reused, ended, torn>>
    PROVE  ConnInv'
<1> DEFINE t    == worker[w].token
           next == Keep(t, given)
<1> USE DEF ConnInv, ours, flows, counters
<1>0. t \in 1..issued /\ issued \in Nat
  BY Room DEF IssuedOK
<1>1. /\ live' \subseteq 1..issued' /\ issued' \in 0..MaxIssued
      /\ grant' \in [Tokens -> Tokens]
      /\ issued <= issued' /\ \A u \in 1..issued : grant'[u] = grant[u]
      /\ rotated' \subseteq 1..issued' /\ live' \intersect rotated' = {}
      /\ t \notin rotated /\ rotated' \subseteq rotated \union {t}
      /\ IF given = 0 THEN rotated' = rotated /\ issued' = issued
         ELSE given = issued + 1 /\ issued' = given /\ grant'[given] = grant[t]
      /\ DeadOK'
  BY <1>0, Renewal
<1>2. /\ next \in 1..issued' /\ grant'[next] = grant[t] /\ grant'[t] = grant[t]
      /\ next = t => rotated' = rotated
      /\ next # t => next = issued + 1
  BY <1>0, <1>1 DEF Keep
<1>3. /\ worker'[w].pc = "store" /\ worker'[w].next = next
      /\ worker'[w].token = t /\ worker'[w].same = worker[w].same
      /\ worker'[w].strayed = worker[w].strayed
      /\ \A v \in Threads \ {w} : worker'[v] = worker[v]
  BY DEF ConnTypeOK, WorkerStates
<1> HIDE DEF next, t
<1>4. ConnTypeOK'
  <2>1. 1..issued' \subseteq Tokens /\ next \in Held
    BY <1>0, <1>1, <1>2, BoundsAssumption DEF Tokens, Held
  <2>2. worker' \in [Threads -> WorkerStates]
    <3>0. worker[w] \in WorkerStates
      BY DEF ConnTypeOK
    <3>1. worker' = [worker EXCEPT ![w] = [worker[w] EXCEPT !.pc = "store", !.next = next]]
      BY DEF next, t
    <3>2. [worker[w] EXCEPT !.pc = "store", !.next = next] \in WorkerStates
      BY <2>1, <3>0, StoringType
    <3> QED
      BY <3>1, <3>2 DEF ConnTypeOK
  <2> QED
    BY <1>1, <2>1, <2>2 DEF ConnTypeOK
<1>5. LockOK'
  BY <1>3 DEF LockOK, Critical
<1>6. /\ UNCHANGED <<row, leaving, callback, torn>> /\ worker[w].token = t
      /\ issued' \in Nat /\ t \in 1..issued
      /\ issued <= issued' /\ \A u \in 1..issued : grant'[u] = grant[u]
      /\ rotated' \subseteq 1..issued' /\ live' \intersect rotated' = {}
      /\ t \notin rotated /\ rotated' \subseteq rotated \union {t}
  BY <1>0, <1>1 DEF t
<1>7. IssuedOK' /\ AloneOK' /\ ReadOK' /\ SpentOK'
  BY <1>0, <1>2, <1>3, <1>6, RenewedSound
<1>8. PostedOK'
  BY DEF PostedOK, OneExchangePerCode
<1>9. ReuseOnlyAfterTrouble'
  BY DEF ReuseOnlyAfterTrouble
<1> QED
  BY <1>1, <1>4, <1>5, <1>7, <1>8, <1>9

\* The provider refuses: a spent token is only presented when its renewal was cut short.
LEMMA RefusedKeeps ==
    ASSUME ConnInv, NEW w \in Threads, worker[w].pc = "ask", Refuse(worker[w].token),
           worker' = [worker EXCEPT ![w].pc = "mark"],
           UNCHANGED <<ours, flows, leaving, counters, rotated, torn>>
    PROVE  ConnInv'
<1> USE DEF ConnInv, ours, flows, counters, Refuse
<1>0. /\ worker[w].token \in 1..issued /\ 1..issued \subseteq Tokens
      /\ {grant[u] : u \in 1..issued} \subseteq Tokens
  BY Room DEF IssuedOK
<1>1. live' \subseteq live /\ DeadOK' /\ ended' \subseteq Tokens
  BY <1>0, Ending DEF ConnTypeOK, DeadOK
<1>2. ConnTypeOK'
  BY <1>0, <1>1 DEF ConnTypeOK, WorkerStates, Critical
<1>3. LockOK'
  BY DEF LockOK, Critical, ConnTypeOK, WorkerStates
<1>4. IssuedOK'
  BY <1>1 DEF IssuedOK, Asking, ConnTypeOK, WorkerStates
<1>5. AloneOK'
  BY DEF AloneOK, Unread, ConnTypeOK, WorkerStates
<1>6. ReadOK'
  BY DEF ReadOK, Asking, Renewable, ConnTypeOK, WorkerStates
<1>7. SpentOK'
  BY DEF SpentOK, Storing, ConnTypeOK, WorkerStates
<1>8. PostedOK'
  BY DEF PostedOK, OneExchangePerCode
<1>9. ReuseOnlyAfterTrouble'
  BY DEF ReuseOnlyAfterTrouble, SpentOK
<1> QED
  BY <1>1, <1>2, <1>3, <1>4, <1>5, <1>6, <1>7, <1>8, <1>9

LEMMA AnsweredKeeps ==
    ASSUME ConnInv, NEW w \in Threads, Answered(w)
    PROVE  ConnInv'
<1>1. CASE \E given \in Held :
             /\ Renew(worker[w].token, given)
             /\ worker' = [worker EXCEPT ![w].pc = "store",
                                         ![w].next = Keep(worker[w].token, given)]
             /\ UNCHANGED <<reused, ended>>
  BY <1>1, RenewedKeeps DEF Answered
<1>2. CASE Refuse(worker[w].token) /\ worker' = [worker EXCEPT ![w].pc = "mark"]
           /\ UNCHANGED rotated
  BY <1>2, RefusedKeeps DEF Answered
<1> QED
  BY <1>1, <1>2 DEF Answered

LEMMA UnaskedKeeps ==
    ASSUME ConnInv, NEW w \in Threads, Unasked(w)
    PROVE  ConnInv'
<1> USE DEF ConnInv, Unasked, Done, Unlock, Resting, flows, provider, counters, connHistory
<1>1. ConnTypeOK'
  <2>1. worker' \in [Threads -> WorkerStates]
    BY BoundsAssumption DEF ConnTypeOK, WorkerStates, Critical, Held
  <2>2. lock' \in Threads \union {Nobody}
    BY BoundsAssumption DEF ConnTypeOK
  <2> QED
    BY <2>1, <2>2 DEF ConnTypeOK
<1>2. LockOK'
  BY ThreadsAssumption DEF LockOK, Critical, ConnTypeOK, WorkerStates
<1>3. IssuedOK'
  BY DEF IssuedOK, Asking, ConnTypeOK, WorkerStates
<1>4. AloneOK'
  BY DEF AloneOK, Unread, ConnTypeOK, WorkerStates
<1>5. ReadOK'
  BY DEF ReadOK, Asking, Renewable, ConnTypeOK, WorkerStates
<1>6. SpentOK'
  BY DEF SpentOK, Storing, ConnTypeOK, WorkerStates
<1>7. DeadOK'
  BY DEF DeadOK, ConnTypeOK
<1>8. PostedOK'
  BY DEF PostedOK, OneExchangePerCode, ConnTypeOK
<1>9. ReuseOnlyAfterTrouble'
  BY DEF ReuseOnlyAfterTrouble, ConnTypeOK, WorkerStates
<1> QED
  BY <1>1, <1>2, <1>3, <1>4, <1>5, <1>6, <1>7, <1>8, <1>9

LEMMA AnswerLostKeeps ==
    ASSUME ConnInv, NEW w \in Threads, AnswerLost(w)
    PROVE  ConnInv'
<1> USE DEF ConnInv, AnswerLost, Renew, Done, Unlock, Resting, flows, provider
<1>0. PICK given \in Held : Renew(worker[w].token, given)
  OBVIOUS
<1> DEFINE t == worker[w].token
<1>00. t \in 1..issued /\ UNCHANGED ended
  BY Room DEF IssuedOK, ConnTypeOK
<1>000. /\ live' \subseteq 1..issued' /\ issued' \in 0..MaxIssued
        /\ grant' \in [Tokens -> Tokens]
        /\ issued <= issued' /\ \A u \in 1..issued : grant'[u] = grant[u]
        /\ rotated' \subseteq 1..issued' /\ live' \intersect rotated' = {}
        /\ t \notin rotated /\ rotated' \subseteq rotated \union {t}
        /\ DeadOK'
  BY <1>0, <1>00, Renewal
<1>1. ConnTypeOK'
  <2>1. worker' \in [Threads -> WorkerStates]
    BY BoundsAssumption DEF ConnTypeOK, WorkerStates, Critical, Held
  <2>2. live' \subseteq 1..issued' /\ issued' \in 0..MaxIssued /\ grant' \in [Tokens -> Tokens]
    BY <1>000
  <2>3. /\ rotated' \subseteq Tokens /\ reused' \subseteq Tokens
        /\ torn' \subseteq Tokens /\ ended' \subseteq Tokens
    <3>1. 1..issued' \subseteq Tokens /\ 1..issued \subseteq Tokens
      BY <1>000, Room DEF Tokens
    <3> QED
      BY <1>00, <1>000, <3>1 DEF ConnTypeOK
  <2>4. lock' \in Threads \union {Nobody}
    BY BoundsAssumption DEF ConnTypeOK
  <2> QED
    BY <2>1, <2>2, <2>3, <2>4, BoundsAssumption DEF ConnTypeOK
<1>2. LockOK'
  BY ThreadsAssumption DEF LockOK, Critical, ConnTypeOK, WorkerStates
<1>3. IssuedOK'
  <2>1. worker' = [worker EXCEPT ![w] = Resting] /\ UNCHANGED <<row, leaving, callback>>
    OBVIOUS
  <2>2. 0..issued \subseteq 0..issued'
    BY <1>000, Room
  <2> QED
    BY <1>000, <2>1, <2>2, Room DEF IssuedOK, Asking, ConnTypeOK, WorkerStates
<1>4. AloneOK'
  BY DEF AloneOK, Unread, ConnTypeOK, WorkerStates
<1>5. ReadOK'
  BY DEF ReadOK, Asking, Renewable, ConnTypeOK, WorkerStates
<1>6. SpentOK'
  BY DEF SpentOK, Storing, ConnTypeOK, WorkerStates
<1>7. DeadOK'
  BY <1>000
<1>8. PostedOK'
  BY DEF PostedOK, OneExchangePerCode, ConnTypeOK
<1>9. ReuseOnlyAfterTrouble'
  BY DEF ReuseOnlyAfterTrouble, ConnTypeOK, WorkerStates
<1> QED
  BY <1>1, <1>2, <1>3, <1>4, <1>5, <1>6, <1>7, <1>8, <1>9

\* What a write back leaves true of the tokens, from what it does to the row and the threads.
LEMMA StoredSound ==
    ASSUME ConnInv, NEW w \in Threads, worker[w].pc = "store",
           UNCHANGED <<flows, leaving, provider, connHistory>>,
           IF worker[w].same THEN row' = OAuthRow(worker[w].next) /\ row'.token = worker[w].next
                             ELSE row' = row,
           worker'[w] = Resting,
           \A v \in Threads \ {w} :
              /\ worker'[v].pc = worker[v].pc /\ worker'[v].token = worker[v].token
              /\ worker'[v].next = worker[v].next /\ worker'[v].strayed = worker[v].strayed
              /\ worker'[v].same <=> worker[v].same /\ ~worker[w].same
    PROVE  IssuedOK' /\ AloneOK' /\ ReadOK' /\ SpentOK'
<1> USE DEF flows, provider, connHistory
<1>1. /\ worker'[w].pc = "idle" /\ worker'[w].token = 0 /\ worker'[w].next = 0
      /\ worker'[w].same = FALSE /\ worker'[w].strayed = FALSE
  BY DEF Resting
<1>2. IssuedOK'
  <2>1. row'.token \in 0..issued
    BY DEF ConnInv, IssuedOK
  <2> QED
    <3>1. UNCHANGED <<leaving, callback, rotated, live, issued, grant>>
      OBVIOUS
    <3>2. ASSUME NEW v \in Threads \ {w}
          PROVE  /\ worker'[v].token \in 0..issued /\ worker'[v].next \in 0..issued
                 /\ worker'[v].pc \notin Asking => worker'[v].token = 0
                 /\ worker'[v].pc \in {"ask", "store"} => worker'[v].token # 0
                 /\ IF worker'[v].pc = "store"
                    THEN worker'[v].next # 0 /\ grant[worker'[v].next] = grant[worker'[v].token]
                    ELSE worker'[v].next = 0
      BY DEF ConnInv, IssuedOK
    <3>3. 0 \in 0..issued
      BY Room
    <3> QED
      BY <1>1, <2>1, <3>1, <3>2, <3>3 DEF ConnInv, IssuedOK
<1>3. AloneOK'
  <2>1. ASSUME NEW u, Unread(u), u # worker[w].next, u # 0 PROVE Unread(u)'
    BY <1>1, <2>1 DEF Unread
  <2>2. ASSUME NEW v \in Threads \ {w}, worker[v].next # worker[v].token, worker[v].next # 0
        PROVE  /\ Unread(worker[v].next)'
               /\ \A x \in Threads \ {v} : worker'[x].next # worker[v].next
               /\ \A c \in Callbacks : callback[c].token # worker[v].next
    BY <1>1, <2>1, <2>2 DEF ConnInv, AloneOK
  <2>3. ASSUME NEW c \in Callbacks, callback[c].token # 0
        PROVE  /\ Unread(callback[c].token)'
               /\ \A d \in Callbacks \ {c} : callback[d].token # callback[c].token
    BY <2>1, <2>3 DEF ConnInv, AloneOK, Unread, IssuedOK
  <2> QED
    BY <1>1, <2>2, <2>3 DEF AloneOK
<1>4. ReadOK'
  <2>1. ASSUME NEW v \in Threads \ {w}, worker[w].same, worker[v].token = worker[w].next,
               worker[v].token # 0
        PROVE  worker[v].token \in torn
    BY <2>1, TwoAsking DEF ConnInv, AloneOK, Unread
  <2> QED
    BY <1>1, <2>1 DEF ConnInv, ReadOK, Asking, Renewable
<1>5. SpentOK'
  <2>1. worker[w].next \in rotated => worker[w].next \in torn
    BY DEF ConnInv, AloneOK, Unread, SpentOK, IssuedOK
  <2>2. worker[w].same => row'.token \notin rotated \ torn
    BY <2>1
  <2>3. ~worker[w].same /\ Storing(row.token) => Storing(row.token)'
    BY <1>1 DEF Storing
  <2> QED
    BY <1>1, <2>2, <2>3 DEF ConnInv, SpentOK
<1> QED
  BY <1>2, <1>3, <1>4, <1>5

LEMMA StoreKeeps ==
    ASSUME ConnInv, NEW w \in Threads, Store(w)
    PROVE  ConnInv'
<1> USE DEF ConnInv, Store, Unlock, Resting, flows, provider, counters, connHistory
<1>a. IF worker[w].same THEN row' = OAuthRow(worker[w].next) /\ row'.token = worker[w].next
                        ELSE row' = row
  BY Written DEF ConnTypeOK, WorkerStates
<1>b. /\ worker'[w] = Resting
       /\ \A v \in Threads \ {w} :
            /\ worker'[v].pc = worker[v].pc /\ worker'[v].token = worker[v].token
            /\ worker'[v].next = worker[v].next /\ worker'[v].strayed = worker[v].strayed
            /\ worker'[v].same <=> worker[v].same /\ ~worker[w].same
  <2>1. CASE worker[w].same
    BY <2>1 DEF ConnTypeOK, WorkerStates
  <2>2. CASE ~worker[w].same
    BY <2>2 DEF ConnTypeOK, WorkerStates
  <2> QED
    BY <2>1, <2>2
<1>c. worker[w].pc = "store" /\ UNCHANGED <<flows, leaving, provider, connHistory>>
  OBVIOUS
<1>1. ConnTypeOK'
  <2>1. worker' \in [Threads -> WorkerStates]
    BY WorkersType DEF ConnTypeOK
  <2>2. row' \in Rows /\ (row'.kind = "none" => row' = NotConnected)
    BY Written DEF ConnTypeOK, WorkerStates
  <2>3. lock' \in Threads \union {Nobody}
    BY BoundsAssumption DEF ConnTypeOK
  <2> QED
    BY <2>1, <2>2, <2>3 DEF ConnTypeOK
<1>2. LockOK'
  BY ThreadsAssumption, <1>a, <1>b DEF LockOK, Critical, ConnTypeOK, WorkerStates
<1> HIDE DEF Store, Unlock
<1>3. IssuedOK'
  BY <1>a, <1>b, <1>c, StoredSound
<1>4. AloneOK'
  BY <1>a, <1>b, <1>c, StoredSound
<1>5. ReadOK'
  BY <1>a, <1>b, <1>c, StoredSound
<1>6. SpentOK'
  BY <1>a, <1>b, <1>c, StoredSound
<1>7. DeadOK'
  BY <1>c DEF DeadOK
<1>8. PostedOK'
  BY <1>c DEF PostedOK, OneExchangePerCode
<1>9. ReuseOnlyAfterTrouble'
  BY <1>c DEF ReuseOnlyAfterTrouble
<1> QED
  BY <1>1, <1>2, <1>3, <1>4, <1>5, <1>6, <1>7, <1>8, <1>9

LEMMA MarkKeeps ==
    ASSUME ConnInv, NEW w \in Threads, Mark(w)
    PROVE  ConnInv'
<1> USE DEF ConnInv, Mark, Unlock, Resting, flows, provider, counters, connHistory
<1>a. /\ row'.token = row.token /\ row'.kind = row.kind /\ row'.fresh = row.fresh
      /\ row'.kind = "oauth" => row'.flagged
  BY DEF ConnTypeOK, Rows, NotConnected
<1>b. /\ worker'[w] = Resting
       /\ \A v \in Threads \ {w} :
            /\ worker'[v].pc = worker[v].pc /\ worker'[v].token = worker[v].token
            /\ worker'[v].next = worker[v].next /\ worker'[v].strayed = worker[v].strayed
            /\ worker'[v].same => worker[v].same /\ row' = row
  <2>1. CASE row.kind # "none"
    BY <2>1 DEF ConnTypeOK, WorkerStates
  <2>2. CASE row.kind = "none"
    BY <2>2 DEF ConnTypeOK, WorkerStates
  <2> QED
    BY <2>1, <2>2
<1>1. ConnTypeOK'
  <2>1. worker' \in [Threads -> WorkerStates]
    BY WorkersType DEF ConnTypeOK
  <2>2. row' \in Rows /\ (row'.kind = "none" => row' = NotConnected)
    BY BoundsAssumption DEF ConnTypeOK, Rows, Held, NotConnected
  <2>3. lock' \in Threads \union {Nobody}
    BY BoundsAssumption DEF ConnTypeOK
  <2> QED
    BY <2>1, <2>2, <2>3 DEF ConnTypeOK
<1>2. LockOK'
  BY ThreadsAssumption, <1>a, <1>b DEF LockOK, Critical, ConnTypeOK, WorkerStates
<1>3. IssuedOK'
  BY <1>a, <1>b DEF IssuedOK, Asking
<1>4. AloneOK'
  BY <1>a, <1>b DEF AloneOK, Unread
<1>5. ReadOK'
  BY <1>a, <1>b DEF ReadOK, Asking, Renewable
<1>6. SpentOK'
  BY <1>a, <1>b DEF SpentOK, Storing
<1>7. DeadOK'
  BY DEF DeadOK, ConnTypeOK
<1>8. PostedOK'
  BY DEF PostedOK, OneExchangePerCode, ConnTypeOK
<1>9. ReuseOnlyAfterTrouble'
  BY DEF ReuseOnlyAfterTrouble, ConnTypeOK, WorkerStates
<1> QED
  BY <1>1, <1>2, <1>3, <1>4, <1>5, <1>6, <1>7, <1>8, <1>9

LEMMA WorkerDiesKeeps ==
    ASSUME ConnInv, NEW w \in Threads, WorkerDies(w)
    PROVE  ConnInv'
<1> USE DEF ConnInv, WorkerDies, Resting, flows, provider
<1>1. ConnTypeOK'
  <2>1. worker' \in [Threads -> WorkerStates]
    BY BoundsAssumption DEF ConnTypeOK, WorkerStates, Critical, Held
  <2>2. /\ rotated' \subseteq Tokens /\ reused' \subseteq Tokens
        /\ torn' \subseteq Tokens /\ ended' \subseteq Tokens
    <3>1. worker[w].pc = "store" => worker[w].token \in Tokens
      BY Room DEF IssuedOK
    <3> QED
      BY <3>1 DEF ConnTypeOK
  <2>3. lock' \in Threads \union {Nobody}
    BY BoundsAssumption DEF ConnTypeOK
  <2> QED
    BY <2>1, <2>2, <2>3, BoundsAssumption DEF ConnTypeOK
<1>2. LockOK'
  BY ThreadsAssumption DEF LockOK, Critical, ConnTypeOK, WorkerStates
<1>3. IssuedOK'
  BY DEF IssuedOK, Asking, ConnTypeOK, WorkerStates
<1>4. AloneOK'
  BY DEF AloneOK, Unread, ConnTypeOK, WorkerStates
<1>5. ReadOK'
  BY DEF ReadOK, Asking, Renewable, ConnTypeOK, WorkerStates
<1>6. SpentOK'
  BY DEF SpentOK, Storing, ConnTypeOK, WorkerStates
<1>7. DeadOK'
  BY DEF DeadOK, ConnTypeOK
<1>8. PostedOK'
  BY DEF PostedOK, OneExchangePerCode, ConnTypeOK
<1>9. ReuseOnlyAfterTrouble'
  BY DEF ReuseOnlyAfterTrouble, ConnTypeOK, WorkerStates
<1> QED
  BY <1>1, <1>2, <1>3, <1>4, <1>5, <1>6, <1>7, <1>8, <1>9

-----------------------------------------------------------------------------
(* A connection: the consent of a person, and its end.                     *)

LEMMA BeginConsentKeeps ==
    ASSUME ConnInv, NEW f \in Flows, BeginConsent(f)
    PROVE  ConnInv'
<1> USE DEF ConnInv, BeginConsent, ours, provider, counters, connHistory
<1>1. ConnTypeOK'
  BY DEF ConnTypeOK
<1>2. LockOK'
  BY ThreadsAssumption DEF LockOK, Critical, ConnTypeOK, WorkerStates
<1>3. IssuedOK'
  BY DEF IssuedOK, Asking, ConnTypeOK, WorkerStates
<1>4. AloneOK'
  BY DEF AloneOK, Unread, ConnTypeOK, WorkerStates
<1>5. ReadOK'
  BY DEF ReadOK, Asking, Renewable, ConnTypeOK, WorkerStates
<1>6. SpentOK'
  BY DEF SpentOK, Storing, ConnTypeOK, WorkerStates
<1>7. DeadOK'
  BY DEF DeadOK, ConnTypeOK
<1>8. PostedOK'
  BY DEF PostedOK, OneExchangePerCode, ConnTypeOK
<1>9. ReuseOnlyAfterTrouble'
  BY DEF ReuseOnlyAfterTrouble, ConnTypeOK, WorkerStates
<1> QED
  BY <1>1, <1>2, <1>3, <1>4, <1>5, <1>6, <1>7, <1>8, <1>9

LEMMA GrowLateKeeps ==
    ASSUME ConnInv, NEW f \in Flows, GrowLate(f)
    PROVE  ConnInv'
<1> USE DEF ConnInv, GrowLate, ours, provider, counters, connHistory
<1>1. ConnTypeOK'
  BY DEF ConnTypeOK
<1>2. LockOK'
  BY ThreadsAssumption DEF LockOK, Critical, ConnTypeOK, WorkerStates
<1>3. IssuedOK'
  BY DEF IssuedOK, Asking, ConnTypeOK, WorkerStates
<1>4. AloneOK'
  BY DEF AloneOK, Unread, ConnTypeOK, WorkerStates
<1>5. ReadOK'
  BY DEF ReadOK, Asking, Renewable, ConnTypeOK, WorkerStates
<1>6. SpentOK'
  BY DEF SpentOK, Storing, ConnTypeOK, WorkerStates
<1>7. DeadOK'
  BY DEF DeadOK, ConnTypeOK
<1>8. PostedOK'
  BY DEF PostedOK, OneExchangePerCode, ConnTypeOK
<1>9. ReuseOnlyAfterTrouble'
  BY DEF ReuseOnlyAfterTrouble, ConnTypeOK, WorkerStates
<1> QED
  BY <1>1, <1>2, <1>3, <1>4, <1>5, <1>6, <1>7, <1>8, <1>9

LEMMA SweepPendingKeeps ==
    ASSUME ConnInv, Sweep
    PROVE  ConnInv'
<1> USE DEF ConnInv, Sweep, ours, provider, counters, connHistory
<1>1. ConnTypeOK'
  BY DEF ConnTypeOK
<1>2. LockOK'
  BY ThreadsAssumption DEF LockOK, Critical, ConnTypeOK, WorkerStates
<1>3. IssuedOK'
  BY DEF IssuedOK, Asking, ConnTypeOK, WorkerStates
<1>4. AloneOK'
  BY DEF AloneOK, Unread, ConnTypeOK, WorkerStates
<1>5. ReadOK'
  BY DEF ReadOK, Asking, Renewable, ConnTypeOK, WorkerStates
<1>6. SpentOK'
  BY DEF SpentOK, Storing, ConnTypeOK, WorkerStates
<1>7. DeadOK'
  BY DEF DeadOK, ConnTypeOK
<1>8. PostedOK'
  BY DEF PostedOK, OneExchangePerCode, ConnTypeOK
<1>9. ReuseOnlyAfterTrouble'
  BY DEF ReuseOnlyAfterTrouble, ConnTypeOK, WorkerStates
<1> QED
  BY <1>1, <1>2, <1>3, <1>4, <1>5, <1>6, <1>7, <1>8, <1>9

LEMMA RedirectKeeps ==
    ASSUME ConnInv, NEW c \in Callbacks, NEW f \in Flows, Redirect(c, f)
    PROVE  ConnInv'
<1> USE DEF ConnInv, Redirect, ConsumePending, ours, provider, counters, connHistory
<1>1. ConnTypeOK'
  <2>1. callback' \in [Callbacks -> CallbackStates]
    BY BoundsAssumption DEF ConnTypeOK, CallbackStates, Held
  <2> QED
    BY <2>1 DEF ConnTypeOK
<1>2. LockOK'
  BY ThreadsAssumption DEF LockOK, Critical, ConnTypeOK, WorkerStates
<1>3. IssuedOK'
  <2>1. \A d \in Callbacks : callback'[d].token = callback[d].token
    BY DEF ConnTypeOK, CallbackStates
  <2> QED
    BY <2>1 DEF IssuedOK
<1>4. AloneOK'
  <2>1. \A d \in Callbacks : callback'[d].token = callback[d].token
    BY DEF ConnTypeOK, CallbackStates
  <2> QED
    BY <2>1 DEF AloneOK, Unread
<1>5. ReadOK'
  BY DEF ReadOK, Asking, Renewable, ConnTypeOK, WorkerStates
<1>6. SpentOK'
  BY DEF SpentOK, Storing, ConnTypeOK, WorkerStates
<1>7. DeadOK'
  BY DEF DeadOK, ConnTypeOK
<1>8. PostedOK'
  BY DEF PostedOK, OneExchangePerCode, ConnTypeOK
<1>9. ReuseOnlyAfterTrouble'
  BY DEF ReuseOnlyAfterTrouble, ConnTypeOK, WorkerStates
<1> QED
  BY <1>1, <1>2, <1>3, <1>4, <1>5, <1>6, <1>7, <1>8, <1>9

LEMMA ExchangeCodeKeeps ==
    ASSUME ConnInv, NEW c \in Callbacks, ExchangeCode(c)
    PROVE  ConnInv'
<1> USE DEF ConnInv, ExchangeCode, ours, provider, counters
<1>0. /\ issued \in Nat /\ issued <= issued' /\ issued' <= MaxIssued
      /\ callback'[c].token \in {0, issued + 1} /\ callback'[c].token <= issued'
  <2>1. issued \in Nat /\ issued <= MaxIssued /\ MaxIssued \in Nat
    BY Room, BoundsAssumption
  <2>2. CASE callback' = [callback EXCEPT ![c] = [pc |-> "save", token |-> 0]] /\ UNCHANGED issued
    BY <2>1, <2>2 DEF ConnTypeOK
  <2>3. CASE /\ issued < MaxIssued /\ issued' = issued + 1
             /\ callback' = [callback EXCEPT ![c] = [pc |-> "save", token |-> issued + 1]]
    BY <2>1, <2>3 DEF ConnTypeOK
  <2> QED
    BY <2>2, <2>3
<1>00. \A d \in Callbacks \ {c} : callback'[d] = callback[d]
  BY DEF ConnTypeOK
<1>000. {grant[t] : t \in 1..issued} \subseteq Tokens /\ 1..issued \subseteq Tokens
  BY Room
<1>1. ConnTypeOK'
  <2>1. callback' \in [Callbacks -> CallbackStates]
    BY BoundsAssumption DEF ConnTypeOK, CallbackStates, Held
  <2>2. live' \subseteq 1..issued' /\ issued' \in 0..MaxIssued /\ grant' \in [Tokens -> Tokens]
    BY <1>0, BoundsAssumption DEF ConnTypeOK
  <2>3. /\ rotated' \subseteq Tokens /\ reused' \subseteq Tokens
        /\ torn' \subseteq Tokens /\ ended' \subseteq Tokens
    BY <1>000 DEF ConnTypeOK
  <2> QED
    BY <2>1, <2>2, <2>3 DEF ConnTypeOK
<1>2. LockOK'
  BY ThreadsAssumption DEF LockOK, Critical, ConnTypeOK, WorkerStates
<1>3. IssuedOK'
  <2>1. issued + 1 \notin rotated /\ live' \subseteq live \union {issued + 1}
    BY <1>0 DEF IssuedOK
  <2>2. live' \intersect rotated' = {} /\ rotated' \subseteq 1..issued'
    BY <1>0, <2>1 DEF IssuedOK
  <2>3. \A d \in Callbacks : callback'[d].token \in 0..issued'
    BY <1>0, <1>00 DEF IssuedOK
  <2> QED
    BY <1>0, <2>2, <2>3 DEF IssuedOK
<1>4. AloneOK'
  <2>1. /\ Unread(issued + 1)
        /\ \A v \in Threads : worker[v].next # issued + 1
        /\ \A d \in Callbacks : callback[d].token # issued + 1
    BY <1>0 DEF Unread, IssuedOK
  <2> QED
    BY <1>0, <1>00, <2>1 DEF AloneOK, Unread
<1>5. ReadOK'
  BY DEF ReadOK, Asking, Renewable, ConnTypeOK, WorkerStates
<1>6. SpentOK'
  BY DEF SpentOK, Storing, ConnTypeOK, WorkerStates
<1>7. DeadOK'
  BY DEF DeadOK, ConnTypeOK
<1>8. PostedOK'
  BY DEF PostedOK, OneExchangePerCode, ConnTypeOK
<1>9. ReuseOnlyAfterTrouble'
  BY DEF ReuseOnlyAfterTrouble, ConnTypeOK, WorkerStates
<1> QED
  BY <1>1, <1>2, <1>3, <1>4, <1>5, <1>6, <1>7, <1>8, <1>9

LEMMA ExchangeFailedKeeps ==
    ASSUME ConnInv, NEW c \in Callbacks, ExchangeFailed(c)
    PROVE  ConnInv'
<1> USE DEF ConnInv, ExchangeFailed, NoCallback, ours, provider, counters, connHistory
<1>1. ConnTypeOK'
  <2>1. callback' \in [Callbacks -> CallbackStates]
    BY BoundsAssumption DEF ConnTypeOK, CallbackStates, Held
  <2> QED
    BY <2>1 DEF ConnTypeOK
<1>2. LockOK'
  BY ThreadsAssumption DEF LockOK, Critical, ConnTypeOK, WorkerStates
<1>3. IssuedOK'
  BY DEF IssuedOK, Asking, ConnTypeOK, WorkerStates
<1>4. AloneOK'
  BY DEF AloneOK, Unread, ConnTypeOK, WorkerStates
<1>5. ReadOK'
  BY DEF ReadOK, Asking, Renewable, ConnTypeOK, WorkerStates
<1>6. SpentOK'
  BY DEF SpentOK, Storing, ConnTypeOK, WorkerStates
<1>7. DeadOK'
  BY DEF DeadOK, ConnTypeOK
<1>8. PostedOK'
  BY DEF PostedOK, OneExchangePerCode, ConnTypeOK
<1>9. ReuseOnlyAfterTrouble'
  BY DEF ReuseOnlyAfterTrouble, ConnTypeOK, WorkerStates
<1> QED
  BY <1>1, <1>2, <1>3, <1>4, <1>5, <1>6, <1>7, <1>8, <1>9

LEMMA SaveKeeps ==
    ASSUME ConnInv, NEW c \in Callbacks, Save(c)
    PROVE  ConnInv'
<1> USE DEF ConnInv, Save, NoCallback, provider, counters, connHistory
<1>0. /\ row' = OAuthRow(callback[c].token)
      /\ worker' \in [Threads -> WorkerStates]
      /\ \A v \in Threads :
            /\ worker'[v].pc = worker[v].pc /\ worker'[v].token = worker[v].token
            /\ worker'[v].next = worker[v].next /\ worker'[v].strayed = worker[v].strayed
            /\ ~worker'[v].same
  BY Rewritten
<1>00. row'.token = callback[c].token
  BY <1>0, Written DEF ConnTypeOK, CallbackStates
<1>1. ConnTypeOK'
  <2>1. worker' \in [Threads -> WorkerStates]
    BY <1>0
  <2>2. row' \in Rows /\ (row'.kind = "none" => row' = NotConnected)
    BY <1>0, Written DEF ConnTypeOK, CallbackStates
  <2>3. callback' \in [Callbacks -> CallbackStates]
    BY BoundsAssumption DEF ConnTypeOK, CallbackStates, Held
  <2> QED
    BY <2>1, <2>2, <2>3 DEF ConnTypeOK
<1>2. LockOK'
  BY <1>0, <1>00 DEF LockOK
<1>3. IssuedOK'
  BY <1>0, <1>00 DEF IssuedOK, ConnTypeOK
<1>4. AloneOK'
  <2>1. \A d \in Callbacks \ {c} : callback'[d] = callback[d]
    BY DEF ConnTypeOK
  <2>2. callback'[c].token = 0
    BY DEF ConnTypeOK
  <2> QED
    BY <1>0, <1>00, <2>1, <2>2 DEF AloneOK, Unread
<1>5. ReadOK'
  <2>1. \A v \in Threads : worker[v].token # 0 => row'.token # worker[v].token
    BY <1>00 DEF AloneOK, Unread
  <2> QED
    BY <1>0, <2>1 DEF ReadOK
<1>6. SpentOK'
  <2>1. row'.token \notin rotated
    BY <1>00 DEF AloneOK, Unread, IssuedOK
  <2> QED
    BY <1>0, <2>1 DEF SpentOK
<1>7. DeadOK'
  BY DEF DeadOK, ConnTypeOK
<1>8. PostedOK'
  BY DEF PostedOK, OneExchangePerCode, ConnTypeOK
<1>9. ReuseOnlyAfterTrouble'
  BY DEF ReuseOnlyAfterTrouble, ConnTypeOK, WorkerStates
<1> QED
  BY <1>1, <1>2, <1>3, <1>4, <1>5, <1>6, <1>7, <1>8, <1>9

LEMMA FindToRevokeKeeps ==
    ASSUME ConnInv, FindToRevoke
    PROVE  ConnInv'
<1> USE DEF ConnInv, FindToRevoke, ours, flows, provider, counters, connHistory
<1>1. ConnTypeOK'
  <2>1. leaving' \in [pc : {"no", "revoke", "delete", "done"}, token : Held]
    BY BoundsAssumption DEF ConnTypeOK, Rows, Held
  <2> QED
    BY <2>1 DEF ConnTypeOK
<1>2. LockOK'
  BY ThreadsAssumption DEF LockOK, Critical, ConnTypeOK, WorkerStates
<1>3. IssuedOK'
  BY DEF IssuedOK, Asking, ConnTypeOK, WorkerStates
<1>4. AloneOK'
  BY DEF AloneOK, Unread, ConnTypeOK, WorkerStates
<1>5. ReadOK'
  BY DEF ReadOK, Asking, Renewable, ConnTypeOK, WorkerStates
<1>6. SpentOK'
  BY DEF SpentOK, Storing, ConnTypeOK, WorkerStates
<1>7. DeadOK'
  BY DEF DeadOK, ConnTypeOK
<1>8. PostedOK'
  BY DEF PostedOK, OneExchangePerCode, ConnTypeOK
<1>9. ReuseOnlyAfterTrouble'
  BY DEF ReuseOnlyAfterTrouble, ConnTypeOK, WorkerStates
<1> QED
  BY <1>1, <1>2, <1>3, <1>4, <1>5, <1>6, <1>7, <1>8, <1>9

LEMMA RevokeKeeps ==
    ASSUME ConnInv, Revoke
    PROVE  ConnInv'
<1> USE DEF ConnInv, Revoke, Family, ours, flows, counters
<1>1. ConnTypeOK'
  <2>1. live' \subseteq 1..issued' /\ issued' \in 0..MaxIssued /\ grant' \in [Tokens -> Tokens]
    BY BoundsAssumption DEF ConnTypeOK, Tokens, Held
  <2>2. /\ rotated' \subseteq Tokens /\ reused' \subseteq Tokens
        /\ torn' \subseteq Tokens /\ ended' \subseteq Tokens
    BY BoundsAssumption DEF ConnTypeOK, Tokens, Held, WorkerStates
  <2>3. leaving' \in [pc : {"no", "revoke", "delete", "done"}, token : Held]
    BY BoundsAssumption DEF ConnTypeOK, Rows, Held
  <2> QED
    BY <2>1, <2>2, <2>3 DEF ConnTypeOK
<1>2. LockOK'
  BY ThreadsAssumption DEF LockOK, Critical, ConnTypeOK, WorkerStates
<1>3. IssuedOK'
  BY DEF IssuedOK, Asking, ConnTypeOK, WorkerStates
<1>4. AloneOK'
  BY DEF AloneOK, Unread, ConnTypeOK, WorkerStates
<1>5. ReadOK'
  BY DEF ReadOK, Asking, Renewable, ConnTypeOK, WorkerStates
<1>6. SpentOK'
  BY DEF SpentOK, Storing, ConnTypeOK, WorkerStates
<1>7. DeadOK'
  BY DEF DeadOK, ConnTypeOK
<1>8. PostedOK'
  BY DEF PostedOK, OneExchangePerCode, ConnTypeOK
<1>9. ReuseOnlyAfterTrouble'
  BY DEF ReuseOnlyAfterTrouble, ConnTypeOK, WorkerStates
<1> QED
  BY <1>1, <1>2, <1>3, <1>4, <1>5, <1>6, <1>7, <1>8, <1>9

LEMMA DeleteKeeps ==
    ASSUME ConnInv, Delete
    PROVE  ConnInv'
<1> USE DEF ConnInv, Delete, NotConnected, flows, provider, counters, connHistory
<1>0. /\ row' = NotConnected
      /\ worker' \in [Threads -> WorkerStates]
      /\ \A v \in Threads :
            /\ worker'[v].pc = worker[v].pc /\ worker'[v].token = worker[v].token
            /\ worker'[v].next = worker[v].next /\ worker'[v].strayed = worker[v].strayed
            /\ ~worker'[v].same
  BY Rewritten
<1>00. row'.token = 0 /\ row'.kind # "oauth"
  BY <1>0
<1>1. ConnTypeOK'
  <2>1. worker' \in [Threads -> WorkerStates]
    BY <1>0
  <2>2. row' \in Rows /\ (row'.kind = "none" => row' = NotConnected)
    BY <1>0, BoundsAssumption DEF Rows, Held
  <2>3. leaving' \in [pc : {"no", "revoke", "delete", "done"}, token : Held]
    BY BoundsAssumption DEF ConnTypeOK, Rows, Held
  <2> QED
    BY <2>1, <2>2, <2>3 DEF ConnTypeOK
<1>2. LockOK'
  BY <1>0, <1>00 DEF LockOK
<1>3. IssuedOK'
  BY <1>0, <1>00, Room DEF IssuedOK
<1>4. AloneOK'
  BY <1>0, <1>00 DEF AloneOK, Unread
<1>5. ReadOK'
  BY <1>0, <1>00 DEF ReadOK
<1>6. SpentOK'
  BY <1>0, <1>00 DEF SpentOK
<1>7. DeadOK'
  BY DEF DeadOK, ConnTypeOK
<1>8. PostedOK'
  BY DEF PostedOK, OneExchangePerCode, ConnTypeOK
<1>9. ReuseOnlyAfterTrouble'
  BY DEF ReuseOnlyAfterTrouble, ConnTypeOK, WorkerStates
<1> QED
  BY <1>1, <1>2, <1>3, <1>4, <1>5, <1>6, <1>7, <1>8, <1>9

-----------------------------------------------------------------------------
(* A connection: what happens to it.                                       *)

LEMMA TokenAgesKeeps ==
    ASSUME ConnInv, TokenAges
    PROVE  ConnInv'
<1> USE DEF ConnInv, TokenAges, flows, provider, connHistory
<1>1. ConnTypeOK'
  <2>1. row' \in Rows /\ (row'.kind = "none" => row' = NotConnected)
    BY BoundsAssumption DEF ConnTypeOK, Rows, Held, NotConnected
  <2> QED
    BY <2>1, BoundsAssumption DEF ConnTypeOK
<1>2. LockOK'
  BY ThreadsAssumption DEF LockOK, Critical, ConnTypeOK, WorkerStates
<1>3. IssuedOK'
  BY DEF IssuedOK, Asking, ConnTypeOK, WorkerStates
<1>4. AloneOK'
  BY DEF AloneOK, Unread, ConnTypeOK, WorkerStates
<1>5. ReadOK'
  BY DEF ReadOK, Asking, Renewable, ConnTypeOK, WorkerStates
<1>6. SpentOK'
  BY DEF SpentOK, Storing, ConnTypeOK, WorkerStates
<1>7. DeadOK'
  BY DEF DeadOK, ConnTypeOK
<1>8. PostedOK'
  BY DEF PostedOK, OneExchangePerCode, ConnTypeOK
<1>9. ReuseOnlyAfterTrouble'
  BY DEF ReuseOnlyAfterTrouble, ConnTypeOK, WorkerStates
<1> QED
  BY <1>1, <1>2, <1>3, <1>4, <1>5, <1>6, <1>7, <1>8, <1>9

LEMMA LoseLockKeeps ==
    ASSUME ConnInv, LoseLock
    PROVE  ConnInv'
<1> USE DEF ConnInv, LoseLock, flows, provider
<1>1. ConnTypeOK'
  <2>1. worker' \in [Threads -> WorkerStates]
    BY WorkersType, ThreadsAssumption DEF ConnTypeOK, WorkerStates
  <2>2. /\ rotated' \subseteq Tokens /\ reused' \subseteq Tokens
        /\ torn' \subseteq Tokens /\ ended' \subseteq Tokens
    BY BoundsAssumption DEF ConnTypeOK, Tokens, Held, WorkerStates
  <2>3. lock' \in Threads \union {Nobody}
    BY BoundsAssumption DEF ConnTypeOK
  <2> QED
    BY <2>1, <2>2, <2>3, BoundsAssumption DEF ConnTypeOK
<1>2. LockOK'
  BY ThreadsAssumption DEF LockOK, Critical, ConnTypeOK, WorkerStates
<1>3. IssuedOK'
  BY DEF IssuedOK, Asking, ConnTypeOK, WorkerStates
<1>4. AloneOK'
  BY DEF AloneOK, Unread, ConnTypeOK, WorkerStates
<1>5. ReadOK'
  BY DEF ReadOK, Asking, Renewable, ConnTypeOK, WorkerStates
<1>6. SpentOK'
  BY DEF SpentOK, Storing, ConnTypeOK, WorkerStates
<1>7. DeadOK'
  BY DEF DeadOK, ConnTypeOK
<1>8. PostedOK'
  BY DEF PostedOK, OneExchangePerCode, ConnTypeOK
<1>9. ReuseOnlyAfterTrouble'
  BY DEF ReuseOnlyAfterTrouble, ConnTypeOK, WorkerStates
<1> QED
  BY <1>1, <1>2, <1>3, <1>4, <1>5, <1>6, <1>7, <1>8, <1>9

LEMMA WithdrawKeeps ==
    ASSUME ConnInv, Withdraw
    PROVE  ConnInv'
<1> USE DEF ConnInv, Withdraw, Family, ours, flows
<1>1. ConnTypeOK'
  <2>1. live' \subseteq 1..issued' /\ issued' \in 0..MaxIssued /\ grant' \in [Tokens -> Tokens]
    BY BoundsAssumption DEF ConnTypeOK, Tokens, Held
  <2>2. /\ rotated' \subseteq Tokens /\ reused' \subseteq Tokens
        /\ torn' \subseteq Tokens /\ ended' \subseteq Tokens
    BY Room DEF ConnTypeOK
  <2> QED
    BY <2>1, <2>2, BoundsAssumption DEF ConnTypeOK
<1>2. LockOK'
  BY ThreadsAssumption DEF LockOK, Critical, ConnTypeOK, WorkerStates
<1>3. IssuedOK'
  BY DEF IssuedOK, Asking, ConnTypeOK, WorkerStates
<1>4. AloneOK'
  BY DEF AloneOK, Unread, ConnTypeOK, WorkerStates
<1>5. ReadOK'
  BY DEF ReadOK, Asking, Renewable, ConnTypeOK, WorkerStates
<1>6. SpentOK'
  BY DEF SpentOK, Storing, ConnTypeOK, WorkerStates
<1>7. DeadOK'
  BY DEF DeadOK, ConnTypeOK
<1>8. PostedOK'
  BY DEF PostedOK, OneExchangePerCode, ConnTypeOK
<1>9. ReuseOnlyAfterTrouble'
  BY DEF ReuseOnlyAfterTrouble, ConnTypeOK, WorkerStates
<1> QED
  BY <1>1, <1>2, <1>3, <1>4, <1>5, <1>6, <1>7, <1>8, <1>9

LEMMA PasteKeeps ==
    ASSUME ConnInv, Paste
    PROVE  ConnInv'
<1> USE DEF ConnInv, Paste, NotConnected, flows, provider, connHistory
<1>0. /\ row' = [NotConnected EXCEPT !.kind = "static"]
      /\ worker' \in [Threads -> WorkerStates]
      /\ \A v \in Threads :
            /\ worker'[v].pc = worker[v].pc /\ worker'[v].token = worker[v].token
            /\ worker'[v].next = worker[v].next /\ worker'[v].strayed = worker[v].strayed
            /\ ~worker'[v].same
  BY Rewritten
<1>00. row'.token = 0 /\ row'.kind # "oauth"
  BY <1>0
<1>1. ConnTypeOK'
  <2>1. worker' \in [Threads -> WorkerStates]
    BY <1>0
  <2>2. row' \in Rows /\ (row'.kind = "none" => row' = NotConnected)
    <3>1. row' = [kind |-> "static", token |-> 0, fresh |-> TRUE, flagged |-> FALSE]
      BY <1>0
    <3>2. 0 \in Held
      BY BoundsAssumption DEF Held
    <3> QED
      BY <3>1, <3>2 DEF Rows
  <2> QED
    BY <2>1, <2>2, BoundsAssumption DEF ConnTypeOK
<1>2. LockOK'
  BY <1>0, <1>00 DEF LockOK
<1>3. IssuedOK'
  BY <1>0, <1>00, Room DEF IssuedOK
<1>4. AloneOK'
  BY <1>0, <1>00 DEF AloneOK, Unread
<1>5. ReadOK'
  BY <1>0, <1>00 DEF ReadOK
<1>6. SpentOK'
  BY <1>0, <1>00 DEF SpentOK
<1>7. DeadOK'
  BY DEF DeadOK, ConnTypeOK
<1>8. PostedOK'
  BY DEF PostedOK, OneExchangePerCode, ConnTypeOK
<1>9. ReuseOnlyAfterTrouble'
  BY DEF ReuseOnlyAfterTrouble, ConnTypeOK, WorkerStates
<1> QED
  BY <1>1, <1>2, <1>3, <1>4, <1>5, <1>6, <1>7, <1>8, <1>9

-----------------------------------------------------------------------------
(* A connection: together.                                                 *)

LEMMA ConnInitHolds == ConnInit => ConnInv
<1> SUFFICES ASSUME ConnInit PROVE ConnInv
  OBVIOUS
<1> USE DEF ConnInit, Resting, NoCallback
<1>1. issued \in {0, 1} /\ rotated = {} /\ row.token \in {0, issued} /\ live = 1..issued
  <2>1. 1..0 = {} /\ 1..1 = {1}
    OBVIOUS
  <2>2. CASE row = NotConnected /\ issued = 0 /\ live = {}
    BY <2>1, <2>2 DEF NotConnected
  <2>3. CASE row = OAuthRow(1) /\ issued = 1 /\ live = {1}
    BY <2>1, <2>3 DEF OAuthRow
  <2> QED
    BY <2>2, <2>3
<1>2. issued \in 0..MaxIssued /\ 0 \in Held /\ 1..issued \subseteq Tokens /\ row.token \in Held
  BY <1>1, BoundsAssumption DEF Held, Tokens
<1>3. ConnTypeOK
  <2>1. row \in Rows /\ (row.kind = "none" => row = NotConnected)
    <3>1. NotConnected \in Rows
      BY <1>2 DEF Rows, NotConnected
    <3>2. issued = 1 => 1 \in Held
      BY <1>2 DEF Held
    <3> QED
      BY <3>1, <3>2, Written
  <2>2. worker \in [Threads -> WorkerStates] /\ callback \in [Callbacks -> CallbackStates]
    BY <1>2 DEF WorkerStates, CallbackStates
  <2> QED
    BY <1>1, <1>2, <2>1, <2>2, BoundsAssumption DEF ConnTypeOK
<1>4. LockOK /\ IssuedOK /\ AloneOK
  BY <1>1, ThreadsAssumption DEF LockOK, Critical, IssuedOK, AloneOK
<1>5. ReadOK /\ SpentOK /\ DeadOK
  BY <1>1 DEF ReadOK, SpentOK, DeadOK
<1>6. PostedOK /\ ReuseOnlyAfterTrouble
  BY DEF PostedOK, OneExchangePerCode, ReuseOnlyAfterTrouble
<1> QED
  BY <1>3, <1>4, <1>5, <1>6 DEF ConnInv

\* Every step keeps the invariant.
LEMMA ConnNextKeeps == ConnInv /\ [ConnNext]_connVars => ConnInv'
<1> SUFFICES ASSUME ConnInv, [ConnNext]_connVars PROVE ConnInv'
  OBVIOUS
<1>1. ASSUME NEW w \in Threads, Begin(w) \/ Proceed(w) \/ AnswerLost(w) \/ WorkerDies(w)
      PROVE  ConnInv'
  BY <1>1, BeginKeeps, TryLockKeeps, WaitKeeps, ReadKeeps, AnsweredKeeps, UnaskedKeeps, StoreKeeps,
     MarkKeeps, AnswerLostKeeps, WorkerDiesKeeps DEF Proceed
<1>2. CASE Consent
  BY <1>2, BeginConsentKeeps, GrowLateKeeps, RedirectKeeps, ExchangeCodeKeeps, ExchangeFailedKeeps,
     SaveKeeps, SweepPendingKeeps DEF Consent
<1>3. CASE UNCHANGED connVars
  <2> USE <1>3 DEF ConnInv, connVars, ours, flows, provider, counters, connHistory
  <2>1. ConnTypeOK' /\ LockOK' /\ IssuedOK'
    BY DEF ConnTypeOK, LockOK, IssuedOK
  <2>2. AloneOK' /\ ReadOK' /\ SpentOK'
    BY DEF AloneOK, Unread, ReadOK, Renewable, SpentOK, Storing
  <2>3. DeadOK' /\ PostedOK' /\ ReuseOnlyAfterTrouble'
    BY DEF DeadOK, PostedOK, OneExchangePerCode, ReuseOnlyAfterTrouble
  <2> QED
    BY <2>1, <2>2, <2>3
<1> QED
  BY <1>1, <1>2, <1>3, FindToRevokeKeeps, RevokeKeeps, DeleteKeeps, TokenAgesKeeps, LoseLockKeeps,
     WithdrawKeeps, PasteKeeps DEF ConnNext

LEMMA ConnInvariance == ConnSpec => []ConnInv
BY ConnInitHolds, ConnNextKeeps, PTL DEF ConnSpec

\* Every variable keeps its type.
THEOREM ConnTypeCorrect == ConnSpec => []ConnTypeOK
<1>1. ConnInv => ConnTypeOK
  BY DEF ConnInv
<1> QED
  BY <1>1, ConnInvariance, PTL

\* No spent refresh token is presented again, unless the renewal that spent it was cut short.
\* (refresh_connection)
THEOREM ReuseOnlyAfterTroubleHolds == ConnSpec => []ReuseOnlyAfterTrouble
<1>1. ConnInv => ReuseOnlyAfterTrouble
  BY DEF ConnInv
<1> QED
  BY <1>1, ConnInvariance, PTL

\* An unmarked row does not hold a dead refresh token, with the exceptions the property names.
\* (refresh_connection, mark_connection_reconsent, update_connection_credential)
THEOREM NoSilentBreakHolds == ConnSpec => []NoSilentBreak
<1>1. ConnInv => NoSilentBreak
  <2> SUFFICES ASSUME ConnInv, row.kind = "oauth", ~row.flagged, row.token \notin live \union {0}
               PROVE  \/ row.token \in torn \/ grant[row.token] \in ended
                      \/ Storing(row.token)
    BY DEF NoSilentBreak, Storing
  <2>1. row.token \in 1..issued
    BY Room DEF ConnInv, IssuedOK
  <2>2. CASE row.token \in rotated
    BY <2>2 DEF ConnInv, SpentOK
  <2>3. CASE row.token \notin rotated
    BY <2>1, <2>3 DEF ConnInv, DeadOK
  <2> QED
    BY <2>2, <2>3
<1> QED
  BY <1>1, ConnInvariance, PTL

\* One state, one exchange of its code.  (complete, consume_pending_authorization)
THEOREM OneExchangePerCodeHolds == ConnSpec => []OneExchangePerCode
<1>1. ConnInv => OneExchangePerCode
  BY DEF ConnInv, PostedOK
<1> QED
  BY <1>1, ConnInvariance, PTL

\* A renewal changes the credential of the consent it read, and nothing else.
\* (update_connection_credential)
THEOREM RefreshStaysInGrantHolds == ConnSpec => RefreshStaysInGrant
<1>1. ConnInv /\ [ConnNext]_connVars =>
        [\A w \in Threads : Store(w) /\ row' # row =>
           /\ row.kind = "oauth"
           /\ row.token # 0 /\ grant'[row'.token] = grant[row.token]]_connVars
  <2> SUFFICES ASSUME ConnInv, NEW w \in Threads, Store(w), row' # row
               PROVE  /\ row.kind = "oauth"
                      /\ row.token # 0 /\ grant'[row'.token] = grant[row.token]
    OBVIOUS
  <2>1. /\ worker[w].pc = "store" /\ worker[w].same
        /\ row' = OAuthRow(worker[w].next) /\ grant' = grant
    BY DEF Store, provider
  <2>2. row'.token = worker[w].next
    BY <2>1, Written DEF ConnInv, ConnTypeOK, WorkerStates
  <2>3. row.kind = "oauth" /\ row.token = worker[w].token
    BY <2>1 DEF ConnInv, ReadOK, Renewable
  <2> QED
    BY <2>1, <2>2, <2>3 DEF ConnInv, IssuedOK
<1> QED
  BY <1>1, ConnInvariance, PTL DEF ConnSpec, RefreshStaysInGrant
=============================================================================
