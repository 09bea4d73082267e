------------------------------- MODULE Accounts -------------------------------
(***************************************************************************)
(* How offices and their members come to exist: registration confirmed by  *)
(* a mailed code (api/auth.py), invitations (api/onboarding.py) and the    *)
(* owner's member administration (api/office.py), with any number of web   *)
(* workers in between each other's reads and commits.                      *)
(*                                                                         *)
(* The code is in Redis, which is up (OtpCache models its outages); users  *)
(* have a unique e-mail column and MemberInvite rows a unique token.       *)
(***************************************************************************)
EXTENDS Naturals, FiniteSets

CONSTANTS Workers, Emails,
          Offices,   \* office ids
          Users,     \* user ids
          Tokens,    \* invitation tokens
          Roles      \* roles in use; "owner" among them

ASSUME RolesAssumption == "owner" \in Roles
ASSUME TokensAssumption == "registration" \notin Tokens

VARIABLES offices,   \* committed office rows
          users,     \* committed user rows, by id
          invites,   \* committed invitations, by token
          cached,    \* e-mails with a registration code in Redis
          web        \* the request each worker serves

vars == <<offices, users, invites, cached, web>>

Idle == [op |-> "idle"]
Registration == "registration"

\* origin (not a column): what created the row.
User == [email : Emails, office : Offices, role : Roles, active : BOOLEAN,
         origin : Tokens \cup {Registration}]
Invite == [email : Emails, office : Offices, role : Roles, accepted : BOOLEAN, expired : BOOLEAN]
Request == [op : {"validate", "found"}, email : Emails]
             \cup [op : {"accept"}, token : Tokens]
             \cup [op : {"invite"}, office : Offices, email : Emails, role : Roles]
             \cup [op : {"role"}, user : Users, role : Roles]
             \cup [op : {"deactivate"}, user : Users]

TypeOK ==
  /\ offices \subseteq Offices
  /\ DOMAIN users \subseteq Users /\ users \in [DOMAIN users -> User]
  /\ DOMAIN invites \subseteq Tokens /\ invites \in [DOMAIN invites -> Invite]
  /\ cached \subseteq Emails
  /\ web \in [Workers -> Request \cup {Idle}]

Init ==
  /\ offices = {} /\ users = <<>> /\ invites = <<>> /\ cached = {}
  /\ web = [w \in Workers |-> Idle]

With(f, x, v) == [y \in DOMAIN f \cup {x} |-> IF y = x THEN v ELSE f[y]]
Start(w, q) == web[w] = Idle /\ web' = [web EXCEPT ![w] = q]
Finish(w) == web' = [web EXCEPT ![w] = Idle]

\* Mutants: the column is not unique; only active members count.
NobodyHas(e) == FALSE
EmailActive(e) == \E u \in DOMAIN users : users[u].email = e /\ users[u].active

(* The unique index on users.email, and the check each handler makes.      *)
EmailTaken(e) == \E u \in DOMAIN users : users[u].email = e

-----------------------------------------------------------------------------
(* register: the code is cached under the e-mail, replacing an older one.  *)
register(e) ==
  /\ ~EmailTaken(e)
  /\ cached' = cached \cup {e}
  /\ UNCHANGED <<offices, users, invites, web>>

CodeExpires(e) ==
  /\ e \in cached
  /\ cached' = cached \ {e}
  /\ UNCHANGED <<offices, users, invites, web>>

(* verify_otp: the code is read and compared ...                           *)
verify_otp(w, e) ==
  /\ e \in cached
  /\ Start(w, [op |-> "validate", email |-> e])
  /\ UNCHANGED <<offices, users, invites, cached>>

(* ... deleted, and the e-mail checked ...                                 *)
ConsumeCode(w) ==
  /\ web[w].op = "validate"
  /\ cached' = cached \ {web[w].email}
  /\ web' = [web EXCEPT ![w] = IF EmailTaken(@.email) THEN Idle ELSE [@ EXCEPT !.op = "found"]]
  /\ UNCHANGED <<offices, users, invites>>

\* Mutant: the office is committed before its owner is inserted.
FoundOfficeFirst(w, o, u) ==
  /\ web[w].op = "found" /\ o \notin offices /\ u \notin DOMAIN users
  /\ offices' = offices \cup {o}
  /\ IF EmailTaken(web[w].email) THEN UNCHANGED users
     ELSE users' = With(users, u, [email |-> web[w].email, office |-> o, role |-> "owner",
                                   active |-> TRUE, origin |-> Registration])
  /\ Finish(w)
  /\ UNCHANGED <<invites, cached>>

\* Mutant: the owner's role is left unset.
FoundOfficeNoRole(w, o, u) ==
  /\ web[w].op = "found" /\ o \notin offices /\ u \notin DOMAIN users
  /\ IF EmailTaken(web[w].email) THEN UNCHANGED <<offices, users>>
     ELSE /\ offices' = offices \cup {o}
          /\ users' = With(users, u, [email |-> web[w].email, office |-> o, role |-> "none",
                                      active |-> TRUE, origin |-> Registration])
  /\ Finish(w)
  /\ UNCHANGED <<invites, cached>>

(* ... then office and owner are inserted in one transaction, which the    *)
(* unique e-mail may still refuse as a whole (409).                        *)
FoundOffice(w, o, u) ==
  /\ web[w].op = "found" /\ o \notin offices /\ u \notin DOMAIN users
  /\ IF EmailTaken(web[w].email) THEN UNCHANGED <<offices, users>>
     ELSE /\ offices' = offices \cup {o}
          /\ users' = With(users, u, [email |-> web[w].email, office |-> o, role |-> "owner",
                                      active |-> TRUE, origin |-> Registration])
  /\ Finish(w)
  /\ UNCHANGED <<invites, cached>>

-----------------------------------------------------------------------------
(* invite_member: an active owner or partner, any e-mail, any role.        *)
invite_member(w, u, e, r) ==
  /\ users[u].active /\ users[u].role \in {"owner", "partner"}
  /\ Start(w, [op |-> "invite", office |-> users[u].office, email |-> e, role |-> r])
  /\ UNCHANGED <<offices, users, invites, cached>>

InsertInvite(w, t) ==
  /\ web[w].op = "invite" /\ t \notin DOMAIN invites
  /\ invites' = With(invites, t, [email |-> web[w].email, office |-> web[w].office,
                                  role |-> web[w].role, accepted |-> FALSE, expired |-> FALSE])
  /\ Finish(w)
  /\ UNCHANGED <<offices, users, cached>>

(* expires_at, three days later.                                           *)
InviteExpires(t) ==
  /\ ~invites[t].expired
  /\ invites' = [invites EXCEPT ![t].expired = TRUE]
  /\ UNCHANGED <<offices, users, cached, web>>

(* accept_invite: an open invitation to an unused e-mail is loaded ...     *)
accept_invite(w, t) ==
  /\ ~invites[t].accepted /\ ~invites[t].expired
  /\ ~EmailTaken(invites[t].email)
  /\ Start(w, [op |-> "accept", token |-> t])
  /\ UNCHANGED <<offices, users, invites, cached>>

\* Mutant: the member is inserted, the invitation stays open.
InsertMemberOnly(w, u) ==
  /\ web[w].op = "accept" /\ u \notin DOMAIN users
  /\ LET t == web[w].token IN
       IF EmailTaken(invites[t].email) THEN UNCHANGED users
       ELSE users' = With(users, u, [email |-> invites[t].email, office |-> invites[t].office,
                                     role |-> invites[t].role, active |-> TRUE, origin |-> t])
  /\ Finish(w)
  /\ UNCHANGED <<offices, invites, cached>>

(* ... and one transaction inserts the member and marks it accepted.       *)
InsertMember(w, u) ==
  /\ web[w].op = "accept" /\ u \notin DOMAIN users
  /\ LET t == web[w].token IN
       IF EmailTaken(invites[t].email) THEN UNCHANGED <<users, invites>>
       ELSE /\ users' = With(users, u, [email |-> invites[t].email, office |-> invites[t].office,
                                        role |-> invites[t].role, active |-> TRUE, origin |-> t])
            /\ invites' = [invites EXCEPT ![t].accepted = TRUE]
  /\ Finish(w)
  /\ UNCHANGED <<offices, cached>>

-----------------------------------------------------------------------------
(* The owner changes a member's role or deactivates a member of the same   *)
(* office, himself included.                                               *)
MayAdminister(u, m) ==
  /\ users[u].active /\ users[u].role = "owner"
  /\ users[m].active /\ users[m].office = users[u].office

update_member(w, u, m, r) ==
  /\ MayAdminister(u, m)
  /\ Start(w, [op |-> "role", user |-> m, role |-> r])
  /\ UNCHANGED <<offices, users, invites, cached>>

deactivate_member(w, u, m) ==
  /\ MayAdminister(u, m)
  /\ Start(w, [op |-> "deactivate", user |-> m])
  /\ UNCHANGED <<offices, users, invites, cached>>

CommitMember(w) ==
  /\ \/ /\ web[w].op = "role"
        /\ users' = [users EXCEPT ![web[w].user].role = web[w].role]
     \/ /\ web[w].op = "deactivate"
        /\ users' = [users EXCEPT ![web[w].user].active = FALSE]
  /\ Finish(w)
  /\ UNCHANGED <<offices, invites, cached>>

(* The worker dies between two of its steps.                               *)
Abandon(w) ==
  /\ web[w] # Idle
  /\ Finish(w)
  /\ UNCHANGED <<offices, users, invites, cached>>

Next ==
  \/ \E e \in Emails : register(e) \/ CodeExpires(e)
  \/ \E t \in DOMAIN invites : InviteExpires(t)
  \/ \E w \in Workers :
       \/ \E e \in Emails : verify_otp(w, e)
       \/ ConsumeCode(w)
       \/ \E o \in Offices, u \in Users : FoundOffice(w, o, u)
       \/ \E u \in DOMAIN users, e \in Emails, r \in Roles : invite_member(w, u, e, r)
       \/ \E t \in Tokens : InsertInvite(w, t)
       \/ \E t \in DOMAIN invites : accept_invite(w, t)
       \/ \E u \in Users : InsertMember(w, u)
       \/ \E u, m \in DOMAIN users :
            deactivate_member(w, u, m) \/ \E r \in Roles : update_member(w, u, m, r)
       \/ CommitMember(w)
       \/ Abandon(w)

Spec == Init /\ [][Next]_vars

-----------------------------------------------------------------------------
(* One account per e-mail, however registrations and invitations race, and *)
(* even after the account is deactivated.                                  *)
OneAccountPerEmail ==
  \A u, v \in DOMAIN users : users[u].email = users[v].email => u = v

(* Every office was founded by exactly one registration: verifying a code  *)
(* twice, or losing the race for the e-mail, leaves no ownerless office.   *)
FoundersOf(o) ==
  {u \in DOMAIN users : users[u].office = o /\ users[u].origin = Registration}
OfficeHasFounder == \A o \in offices : \E u \in DOMAIN users : FoundersOf(o) = {u}

(* An invitation is marked accepted exactly when it created one member, of *)
(* the inviting office and under the invited e-mail; none creates two.     *)
AcceptedMadeOneMember ==
  \A t \in DOMAIN invites :
    LET made == {u \in DOMAIN users : users[u].origin = t} IN
    IF ~invites[t].accepted THEN made = {}
    ELSE \E u \in DOMAIN users :
           /\ made = {u}
           /\ users[u].office = invites[t].office
           /\ users[u].email = invites[t].email
=============================================================================
