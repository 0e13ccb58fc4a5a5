---------------------------- MODULE AgentSharing ----------------------------
(***************************************************************************)
(* Who may reach an agent (access/grants.py), and how a person becomes     *)
(* somebody it can be shared with (access/users.py), over the users,       *)
(* agent_grants and pending_grants tables.                                 *)
(*                                                                         *)
(* Every HTTP request signs its caller in first: the row of their subject  *)
(* is read, or made at a first login; the address their token carries is   *)
(* recorded; what was waiting for a new address is claimed.  Then it does  *)
(* what it came for.  Each statement or transaction is a step of its own,  *)
(* so other requests run between any two of them, and a request may die    *)
(* between any two of them.                                                *)
(*                                                                         *)
(* One customer, whose providers vouch for every address here; groups and  *)
(* machines hold no grants.                                                *)
(***************************************************************************)
EXTENDS Naturals

CONSTANTS
    People,         \* subjects at their identity provider
    TokensOf,       \* the addresses each person's tokens may carry
    UserIds,        \* new_user_id: never drawn twice
    Agents,
    Addresses,
    Calls,          \* requests in flight at once
    MaxOps,         \* bound: requests that share or unshare
    MaxTroubles     \* bound: requests that die, accounts disabled or let back in

ASSUME SharingAssumption ==
    /\ TokensOf \in [People -> SUBSET Addresses]
    /\ UserIds \cap Addresses = {}
    /\ "none" \notin People \cup UserIds \cup Addresses
    /\ MaxOps \in Nat /\ MaxTroubles \in Nat

\* AGENT_ROLES, as levels; no grant at all is below them.
None == 0
User == 1
Editor == 2
Owner == 3
Levels == None .. Owner

VARIABLES
    users,      \* the row of each user id
    grants,     \* agent_grants: a level and who granted it
    pending,    \* pending_grants, by address
    call,       \* the requests in flight
    asked, troubles,
    ever,       \* history: the highest level each user has held on each agent
    excused     \* history: addresses whose share overlapped a sign-in, or a sign-in died

history     == <<ever, excused>>
sharingVars == <<users, grants, pending, call, asked, troubles, history>>

NoUser  == [subject |-> "none", mail |-> "none", active |-> FALSE]
NoGrant == [role |-> None, by |-> "none"]
NoOp    == [do |-> "none", agent |-> "none", who |-> "none", role |-> None]
NoCall  == [at |-> "idle", person |-> "none", mail |-> "none", user |-> "none",
            moved |-> FALSE, op |-> NoOp]

Accounts == {u \in UserIds : users[u] # NoUser}

\* What a request may come for, by user id or by address.  A share at the level of an
\* owner is a transfer.
Ops == [do : {"share"}, agent : Agents, who : Accounts \cup Addresses, role : User .. Owner]
       \cup [do : {"unshare"}, agent : Agents, who : Accounts \cup Addresses, role : {None}]

\* Somebody who made the agents, and nobody else yet.
SharingInit ==
    /\ \E u \in UserIds, p \in People : \E a \in TokensOf[p] :
          /\ users = [v \in UserIds |-> IF v = u
                                        THEN [subject |-> p, mail |-> a, active |-> TRUE]
                                        ELSE NoUser]
          /\ grants = [g \in Agents |-> [v \in UserIds |->
                          IF v = u THEN [role |-> Owner, by |-> u] ELSE NoGrant]]
          /\ ever = [g \in Agents |-> [v \in UserIds |-> IF v = u THEN Owner ELSE None]]
    /\ pending = [g \in Agents |-> [a \in Addresses |-> NoGrant]]
    /\ call = [r \in Calls |-> NoCall]
    /\ asked = 0 /\ troubles = 0
    /\ excused = {}

-----------------------------------------------------------------------------
(* Shorthands.                                                             *)

Moves(r, place) == call' = [call EXCEPT ![r].at = place]
Done(r)         == call' = [call EXCEPT ![r] = NoCall]

SubjectRows(p) == {u \in Accounts : users[u].subject = p}
MailRows(a)    == {u \in Accounts : users[u].mail = a}

\* grants.require: the level this request's caller holds now.
Holds(r, g, level) == grants[g][call[r].user].role >= level

\* A write to agent_grants, and what it adds to the history.
Grants(new) ==
    /\ grants' = new
    /\ ever' = [g \in Agents |-> [u \in UserIds |->
                   IF new[g][u].role > ever[g][u] THEN new[g][u].role ELSE ever[g][u]]]

Untouched == UNCHANGED <<users, grants, pending, asked, troubles, history>>

\* The caller is known; the token has done its work.
SignedIn(r) == [NoCall EXCEPT !.at = "signed in", !.user = call[r].user]

\* A sign-in that will still claim what waits for the address.
WillClaim(r, a) ==
    /\ call[r].mail = a
    /\ call[r].at = "claim" \/ (call[r].at = "stamp" /\ call[r].moved)

-----------------------------------------------------------------------------
(* Signing in.                                                             *)

\* find_user.  A row that is not active ends the request.
Arrive(r, p, a) ==
    /\ call[r] = NoCall
    /\ a \in TokensOf[p]
    /\ LET found == SubjectRows(p)
       IN IF found = {}
          THEN call' = [call EXCEPT ![r] =
                        [NoCall EXCEPT !.at = "create", !.person = p, !.mail = a]]
          ELSE \E u \in found :
                  /\ users[u].active
                  /\ call' = [call EXCEPT ![r] =
                        [NoCall EXCEPT !.at = "stamp", !.user = u, !.mail = a,
                                     !.moved = users[u].mail # a]]
    /\ Untouched

\* Mutant: no unique key on (issuer, subject).
FirstTime_Twice(r) ==
    /\ call[r].at = "create"
    /\ \E u \in UserIds \ Accounts :
          /\ users' = [users EXCEPT ![u] = [subject |-> call[r].person, mail |-> call[r].mail,
                                            active |-> TRUE]]
          /\ call' = [call EXCEPT ![r].at = "stamp", ![r].person = "none", ![r].user = u,
                                  ![r].moved = TRUE]
    /\ UNCHANGED <<grants, pending, asked, troubles, history>>

\* A first login inserts the row.  Who finds that another request has just inserted it
\* reads that one and goes on as somebody returning.
FirstTime(r) ==
    /\ call[r].at = "create"
    /\ LET found == SubjectRows(call[r].person)
       IN IF found = {}
          THEN \E u \in UserIds \ Accounts :
                  /\ users' = [users EXCEPT ![u] = [subject |-> call[r].person,
                                                    mail |-> call[r].mail, active |-> TRUE]]
                  /\ call' = [call EXCEPT ![r].at = "stamp", ![r].person = "none",
                                          ![r].user = u, ![r].moved = TRUE]
          ELSE \E u \in found :
                  /\ IF users[u].active
                     THEN call' = [call EXCEPT ![r].at = "stamp", ![r].person = "none",
                                             ![r].user = u,
                                             ![r].moved = users[u].mail # call[r].mail]
                     ELSE Done(r)
                  /\ UNCHANGED users
    /\ UNCHANGED <<grants, pending, asked, troubles, history>>

\* Mutant: what waits for a new address of somebody who is known is never claimed.
Stamp_NoClaim(r) ==
    /\ call[r].at = "stamp"
    /\ users' = [users EXCEPT ![call[r].user].mail = call[r].mail]
    /\ call' = [call EXCEPT ![r] = IF call[r].moved /\ users[call[r].user].mail = call[r].mail
                                  THEN [@ EXCEPT !.at = "claim"] ELSE SignedIn(r)]
    /\ excused' = IF ~call[r].moved /\ users[call[r].user].mail # call[r].mail
                  THEN excused \cup {call[r].mail} ELSE excused
    /\ UNCHANGED <<grants, pending, asked, troubles, ever>>

\* record_user_login: the address of the token, whatever the row holds by now.  Only the
\* row as it was read says whether the address is new.
Stamp(r) ==
    /\ call[r].at = "stamp"
    /\ users' = [users EXCEPT ![call[r].user].mail = call[r].mail]
    /\ call' = [call EXCEPT ![r] =
                   IF call[r].moved THEN [@ EXCEPT !.at = "claim"] ELSE SignedIn(r)]
    /\ excused' = IF ~call[r].moved /\ users[call[r].user].mail # call[r].mail
                  THEN excused \cup {call[r].mail} ELSE excused
    /\ UNCHANGED <<grants, pending, asked, troubles, ever>>

\* Mutant: the claim is an ordinary share.
Claim_Overwrites(r) ==
    /\ call[r].at = "claim"
    /\ Grants([g \in Agents |->
          [grants[g] EXCEPT ![call[r].user] =
              IF pending[g][call[r].mail] # NoGrant THEN pending[g][call[r].mail] ELSE @]])
    /\ pending' = [g \in Agents |-> [pending[g] EXCEPT ![call[r].mail] = NoGrant]]
    /\ call' = [call EXCEPT ![r] = SignedIn(r)]
    /\ UNCHANGED <<users, asked, troubles, excused>>

\* claim_pending_grants: one transaction takes every row that waits for the address, and
\* none of them lowers a level.
Claim(r) ==
    /\ call[r].at = "claim"
    /\ Grants([g \in Agents |->
          [grants[g] EXCEPT ![call[r].user] =
              IF pending[g][call[r].mail].role > @.role THEN pending[g][call[r].mail] ELSE @]])
    /\ pending' = [g \in Agents |-> [pending[g] EXCEPT ![call[r].mail] = NoGrant]]
    /\ call' = [call EXCEPT ![r] = SignedIn(r)]
    /\ UNCHANGED <<users, asked, troubles, excused>>

-----------------------------------------------------------------------------
(* Sharing and taking away.                                                *)

Leave(r) ==
    /\ call[r].at = "signed in"
    /\ Done(r)
    /\ Untouched

\* Mutant: anybody who can reach the agent may share it.
Allowed_AnyLevel(r, op) ==
    Holds(r, op.agent, IF op.do = "share" /\ op.role = Owner THEN Owner ELSE User)

\* An editor shares and unshares; the owner hands over.  An address is looked up for an
\* editor, whatever the level.
Allowed(r, op) ==
    Holds(r, op.agent, IF op.do = "share" /\ op.role = Owner /\ op.who \in UserIds
                       THEN Owner ELSE Editor)

\* share, share_by_email, unshare and unshare_email, up to their first write or the lookup
\* of the address.  unshare reads the row it is about to delete: it is not the owner's.
Require(r, op) ==
    /\ \/ call[r].at = "signed in" /\ op \in Ops /\ asked < MaxOps /\ asked' = asked + 1
       \/ call[r].at = "found" /\ op = call[r].op /\ UNCHANGED asked
    /\ IF /\ Allowed(r, op)
          /\ op.do = "unshare" /\ op.who \in UserIds => grants[op.agent][op.who].role # Owner
       THEN call' = [call EXCEPT ![r].at = IF op.who \in Addresses THEN "find" ELSE op.do,
                               ![r].op = op]
       ELSE Done(r)
    /\ UNCHANGED <<users, grants, pending, troubles, history>>

\* find_user_by_email.  Somebody who is here is dealt with by their id, and ownership waits
\* for nobody.  An unshare keeps the address, for the row that may be pending too.
Find(r) ==
    /\ call[r].at = "find"
    /\ LET op == call[r].op
           kept == IF op.do = "unshare" THEN op.who ELSE "none"
       IN IF MailRows(op.who) # {}
          THEN \E u \in MailRows(op.who) :
                  call' = [call EXCEPT ![r].at = "found", ![r].op.who = u, ![r].mail = kept]
          ELSE IF op.role = Owner THEN Done(r)
          ELSE call' = [call EXCEPT ![r].at = IF op.do = "share" THEN "add" ELSE "forget",
                                  ![r].mail = kept]
    /\ Untouched

\* transfer_agent_ownership, in one transaction: the owner steps down to editor, and the
\* successor steps up.
Transferred(g, u, by) ==
    [grants EXCEPT ![g] = [v \in UserIds |->
        IF v = u THEN [role |-> Owner, by |-> by]
        ELSE IF grants[g][v].role = Owner THEN [grants[g][v] EXCEPT !.role = Editor]
        ELSE grants[g][v]]]

\* grant_agent: the row is replaced, whatever level it held.
Share(r) ==
    /\ call[r].at = "share"
    /\ LET op == call[r].op
       IN Grants(IF op.role = Owner
                 THEN Transferred(op.agent, op.who, call[r].user)
                 ELSE [grants EXCEPT ![op.agent][op.who] =
                          [role |-> op.role, by |-> call[r].user]])
    /\ Done(r)
    /\ UNCHANGED <<users, pending, asked, troubles, excused>>

\* add_pending_grant, for an address nobody had when it was looked up.
AddPending(r) ==
    /\ call[r].at = "add"
    /\ LET op == call[r].op
       IN /\ pending' = [pending EXCEPT ![op.agent][op.who] =
                            [role |-> op.role, by |-> call[r].user]]
          /\ excused' = IF MailRows(op.who) # {} THEN excused \cup {op.who} ELSE excused
    /\ Done(r)
    /\ UNCHANGED <<users, grants, asked, troubles, ever>>

\* revoke_agent: the row is deleted, whatever level it holds by now.
Unshare(r) ==
    /\ call[r].at = "unshare"
    /\ Grants([grants EXCEPT ![call[r].op.agent][call[r].op.who] = NoGrant])
    /\ IF call[r].mail \in Addresses THEN Moves(r, "forget") ELSE Done(r)
    /\ UNCHANGED <<users, pending, asked, troubles, excused>>

\* delete_pending_grant.
Forget(r) ==
    /\ call[r].at = "forget"
    /\ pending' = [pending EXCEPT ![call[r].op.agent][call[r].mail] = NoGrant]
    /\ Done(r)
    /\ UNCHANGED <<users, grants, asked, troubles, history>>

-----------------------------------------------------------------------------
(* An administrator, and what goes wrong.                                  *)

SetActive(u) ==
    /\ u \in Accounts /\ troubles < MaxTroubles
    /\ troubles' = troubles + 1
    /\ users' = [users EXCEPT ![u].active = ~@]
    /\ UNCHANGED <<grants, pending, call, asked, history>>

\* A statement fails, or the process is killed: what was written stays.
Die(r) ==
    /\ call[r] # NoCall /\ troubles < MaxTroubles
    /\ troubles' = troubles + 1
    /\ Done(r)
    /\ excused' = excused \cup {a \in Addresses : WillClaim(r, a)}
    /\ UNCHANGED <<users, grants, pending, asked, ever>>

SharingNext ==
    \/ \E r \in Calls :
          \/ \E p \in People : \E a \in TokensOf[p] : Arrive(r, p, a)
          \/ \E op \in Ops \cup {call[r].op} : Require(r, op)
          \/ FirstTime(r) \/ Stamp(r) \/ Claim(r) \/ Leave(r)
          \/ Find(r) \/ Share(r) \/ AddPending(r) \/ Unshare(r) \/ Forget(r) \/ Die(r)
    \/ \E u \in UserIds : SetActive(u)

SharingSpec == SharingInit /\ [][SharingNext]_sharingVars

-----------------------------------------------------------------------------
(* Properties.                                                             *)

GrantType == [role : Levels, by : UserIds \cup {"none"}]

SharingTypeOK ==
    /\ users \in [UserIds -> [subject : People \cup {"none"}, mail : Addresses \cup {"none"},
                              active : BOOLEAN]]
    /\ grants \in [Agents -> [UserIds -> GrantType]]
    /\ pending \in [Agents -> [Addresses -> GrantType]]
    /\ call \in [Calls ->
          [at : {"idle", "create", "stamp", "claim", "signed in", "find", "found", "share",
                 "unshare", "add", "forget"},
           person : People \cup {"none"}, mail : Addresses \cup {"none"},
           user : UserIds \cup {"none"}, moved : BOOLEAN,
           op : [do : {"none", "share", "unshare"}, agent : Agents \cup {"none"},
                 who : UserIds \cup Addresses \cup {"none"}, role : Levels]]]
    /\ asked \in 0 .. MaxOps /\ troubles \in 0 .. MaxTroubles
    /\ ever \in [Agents -> [UserIds -> Levels]]
    /\ excused \subseteq Addresses

\* Twelve first requests of one person at once make one account, and every one of them is
\* served as that account.  (_first_time, the unique key on issuer and subject)
OneAccount ==
    /\ \A u, v \in Accounts : users[u].subject = users[v].subject => u = v
    /\ \A r \in Calls : call[r].user # "none" => call[r].user \in Accounts

\* Access fans out only from those who hold it: whoever is named as the giver of a grant,
\* or of one that waits, has been an editor of that agent, and the giver of an ownership
\* has been its owner.  Claims and demotions keep the giver's name.  (require, granted_by)
GivenByTheEntitled ==
    \A g \in Agents :
        /\ \A u \in UserIds : grants[g][u] # NoGrant =>
              ever[g][grants[g][u].by] >= (IF grants[g][u].role = Owner THEN Owner ELSE Editor)
        /\ \A a \in Addresses : pending[g][a] # NoGrant => ever[g][pending[g][a].by] >= Editor
        /\ \A u, v \in UserIds : grants[g][u].role = Owner /\ grants[g][v].role = Owner => u = v

\* "Pending, until they do": what was shared with an address waits only while nobody has
\* it, or while the sign-in that will claim it is under way.  The exceptions are an address
\* whose share overlapped a sign-in, and a sign-in that died.  (claim_for, share_by_email)
NothingLeftWaiting ==
    \A g \in Agents, a \in Addresses :
        pending[g][a] # NoGrant /\ MailRows(a) # {} /\ a \notin excused =>
            \E r \in Calls : WillClaim(r, a)

\* Signing in never takes anything away, from the person or from anybody else: a pending
\* grant does not demote.  (claim_pending_grants)
SignInTakesNothing ==
    [][\A r \in Calls :
          call[r].at \in {"idle", "create", "stamp", "claim"} /\ call'[r] # call[r] =>
              \A g \in Agents, u \in UserIds : grants'[g][u].role >= grants[g][u].role
      ]_sharingVars

\* "Nobody may unshare the owner.  [...] Revoking the owner leaves the agent orphaned, and
\* an editor who may orphan an agent may take it from the person who made it": whoever owns
\* an agent stops owning it by a request of their own.  (unshare)
OwnerIsNotUnseated ==
    [][\A g \in Agents, u \in UserIds :
          grants[g][u].role = Owner /\ grants'[g][u].role # Owner =>
              \E r \in Calls : call[r].user = u /\ call'[r] # call[r]]_sharingVars
=============================================================================
