---------------------------- MODULE Accounts_proofs ----------------------------
(***************************************************************************)
(* Accounts, for any number of workers, e-mails, offices and invitations:  *)
(* one account per e-mail, one founder per office, one member per accepted *)
(* invitation.                                                             *)
(***************************************************************************)
EXTENDS Accounts, TLAPS

-----------------------------------------------------------------------------
(* What a request knows still exists when it commits: no office, account or*)
(* invitation is ever removed.                                             *)
RequestKnown(q) ==
  /\ q.op = "accept" => q.token \in DOMAIN invites
  /\ q.op = "invite" => q.office \in offices
  /\ q.op \in {"role", "deactivate"} => q.user \in DOMAIN users

Known ==
  /\ \A u \in DOMAIN users :
       /\ users[u].office \in offices
       /\ users[u].origin = Registration \/ users[u].origin \in DOMAIN invites
  /\ \A t \in DOMAIN invites : invites[t].office \in offices
  /\ \A w \in Workers : RequestKnown(web[w])

(* The founder, without the set of founders.                               *)
Founded ==
  \A o \in offices : \E u \in DOMAIN users :
    /\ users[u].office = o /\ users[u].origin = Registration
    /\ \A v \in DOMAIN users : users[v].office = o /\ users[v].origin = Registration => v = u

(* An invitation and the member it made.                                   *)
Made(t, u) ==
  /\ users[u].origin = t
  /\ users[u].office = invites[t].office /\ users[u].email = invites[t].email
  /\ \A v \in DOMAIN users : users[v].origin = t => v = u
Accepted ==
  \A t \in DOMAIN invites :
    IF invites[t].accepted THEN \E u \in DOMAIN users : Made(t, u)
    ELSE \A v \in DOMAIN users : users[v].origin # t

IInv == TypeOK /\ Known /\ OneAccountPerEmail /\ Founded /\ Accepted

-----------------------------------------------------------------------------
(* What a request carries, by its kind.                                    *)
LEMMA RequestFields ==
  ASSUME TypeOK, NEW w \in Workers
  PROVE  /\ web[w].op \in {"validate", "found"} => web[w].email \in Emails
         /\ web[w].op = "accept" => web[w].token \in Tokens
         /\ web[w].op = "invite" =>
              web[w].office \in Offices /\ web[w].email \in Emails /\ web[w].role \in Roles
         /\ web[w].op = "role" => web[w].user \in Users /\ web[w].role \in Roles
         /\ web[w].op = "deactivate" => web[w].user \in Users
<1>1. web[w] \in Request \cup {Idle}
  BY DEF TypeOK
<1>2. CASE web[w] = Idle
  BY <1>2 DEF Idle
<1>3. CASE web[w] \in Request
  BY <1>3 DEF Request
<1> QED BY <1>1, <1>2, <1>3

(* Starting, ending or advancing one request keeps the others as they are. *)
LEMMA OneWorker ==
  ASSUME TypeOK, NEW w \in Workers, NEW q, web' = [web EXCEPT ![w] = q],
         q \in Request \cup {Idle}
  PROVE  /\ web' \in [Workers -> Request \cup {Idle}]
         /\ \A v \in Workers : web'[v] = IF v = w THEN q ELSE web[v]
BY DEF TypeOK

(* The rows stay: only a request moves, to one that knows what it names.   *)
LEMMA RequestMoves ==
  ASSUME IInv, NEW w \in Workers, NEW q \in Request \cup {Idle}, RequestKnown(q),
         web' = [web EXCEPT ![w] = q], cached' \subseteq Emails,
         UNCHANGED <<offices, users, invites>>
  PROVE  IInv'
<1>1. TypeOK'
  BY OneWorker DEF IInv, TypeOK
<1>2. \A v \in Workers : web'[v] = IF v = w THEN q ELSE web[v]
  BY OneWorker DEF IInv
<1>3. \A v \in Workers : RequestKnown(web[v])'
  BY <1>2 DEF IInv, Known, RequestKnown
<1>4. Known'
  BY <1>3 DEF IInv, Known
<1>5. OneAccountPerEmail' /\ Founded' /\ Accepted'
  BY DEF IInv, OneAccountPerEmail, Founded, Accepted, Made
<1> QED BY <1>1, <1>4, <1>5 DEF IInv

(* A request that ends.                                                    *)
LEMMA IdleKnown == RequestKnown(Idle) /\ Idle \in Request \cup {Idle}
BY DEF RequestKnown, Idle

-----------------------------------------------------------------------------
(* At first there is nothing.                                              *)
LEMMA InitIInv == Init => IInv
<1> SUFFICES ASSUME Init PROVE IInv
  OBVIOUS
<1>1. DOMAIN users = {} /\ DOMAIN invites = {}
  BY DEF Init
<1>2. TypeOK
  BY <1>1 DEF Init, TypeOK, Idle
<1>3. Known
  BY <1>1, IdleKnown DEF Init, Known
<1> QED BY <1>1, <1>2, <1>3 DEF IInv, OneAccountPerEmail, Founded, Accepted, Init

(* A registration founds an office no user belongs to yet, for an e-mail   *)
(* no user has.                                                            *)
LEMMA FoundIInv ==
  ASSUME IInv, NEW w \in Workers, NEW o \in Offices, NEW u \in Users, FoundOffice(w, o, u)
  PROVE  IInv'
<1> DEFINE r == [email |-> web[w].email, office |-> o, role |-> "owner",
                 active |-> TRUE, origin |-> Registration]
<1>1. CASE EmailTaken(web[w].email)
  BY <1>1, IdleKnown, RequestMoves DEF FoundOffice, Finish, IInv, TypeOK
<1>2. CASE ~EmailTaken(web[w].email)
  <2>1. /\ u \notin DOMAIN users /\ o \notin offices
        /\ offices' = offices \cup {o} /\ users' = With(users, u, r)
        /\ web' = [web EXCEPT ![w] = Idle] /\ UNCHANGED <<invites, cached>>
        /\ web[w].op = "found"
    BY <1>2 DEF FoundOffice, Finish
  <2>2. /\ DOMAIN users' = DOMAIN users \cup {u} /\ users'[u] = r
        /\ \A v \in DOMAIN users : users'[v] = users[v] /\ v # u
    BY <2>1 DEF With
  <2>3. \A v \in Workers : web'[v] = IF v = w THEN Idle ELSE web[v]
    BY <2>1, IdleKnown, OneWorker DEF IInv
  <2>4. r \in User /\ r.office = o /\ r.origin = Registration /\ r.email = web[w].email
    BY <2>1, RequestFields, RolesAssumption DEF IInv, User
  <2> HIDE DEF r
  <2>5. TypeOK'
    <3>1. users' \in [DOMAIN users' -> User] /\ DOMAIN users' \subseteq Users
      BY <2>1, <2>2, <2>4 DEF IInv, TypeOK, With
    <3>2. web' \in [Workers -> Request \cup {Idle}]
      BY <2>1, IdleKnown, OneWorker DEF IInv
    <3> QED BY <2>1, <3>1, <3>2 DEF IInv, TypeOK
  <2>6. Known'
    <3>1. \A v \in Workers : RequestKnown(web[v])'
      BY <2>1, <2>2, <2>3, IdleKnown DEF IInv, Known, RequestKnown, Idle
    <3> QED BY <2>1, <2>2, <2>4, <3>1 DEF IInv, Known
  <2>7. OneAccountPerEmail'
    BY <1>2, <2>2, <2>4 DEF IInv, OneAccountPerEmail, EmailTaken
  <2>8. Founded'
    <3> SUFFICES ASSUME NEW p \in offices'
                 PROVE  \E m \in DOMAIN users' :
                          /\ users'[m].office = p /\ users'[m].origin = Registration
                          /\ \A v \in DOMAIN users' :
                               users'[v].office = p /\ users'[v].origin = Registration => v = m
      BY DEF Founded
    <3>1. CASE p = o
      <4>1. \A v \in DOMAIN users : users[v].office # o
        BY <2>1 DEF IInv, Known
      <4> QED BY <2>2, <2>4, <3>1, <4>1
    <3>2. CASE p \in offices
      <4>1. PICK m \in DOMAIN users :
              /\ users[m].office = p /\ users[m].origin = Registration
              /\ \A v \in DOMAIN users : users[v].office = p /\ users[v].origin = Registration => v = m
        BY <3>2 DEF IInv, Founded
      <4> QED BY <2>1, <2>2, <2>4, <3>2, <4>1
    <3> QED BY <2>1, <3>1, <3>2
  <2>9. Accepted'
    <3> SUFFICES ASSUME NEW t \in DOMAIN invites
                 PROVE  IF invites[t].accepted THEN \E m \in DOMAIN users' : Made(t, m)'
                        ELSE \A v \in DOMAIN users' : users'[v].origin # t
      BY <2>1 DEF Accepted
    <3>1. t # Registration
      BY TokensAssumption DEF IInv, TypeOK, Registration
    <3>2. CASE invites[t].accepted
      <4>1. PICK m \in DOMAIN users : Made(t, m)
        BY <3>2 DEF IInv, Accepted
      <4> QED BY <2>1, <2>2, <2>4, <3>1, <3>2, <4>1 DEF Made
    <3>3. CASE ~invites[t].accepted
      BY <2>2, <2>4, <3>1, <3>3 DEF IInv, Accepted
    <3> QED BY <3>2, <3>3
  <2> QED BY <2>5, <2>6, <2>7, <2>8, <2>9 DEF IInv
<1> QED BY <1>1, <1>2

(* An invitation is new, and so made nobody yet.                           *)
LEMMA InviteIInv ==
  ASSUME IInv, NEW w \in Workers, NEW t \in Tokens, InsertInvite(w, t)
  PROVE  IInv'
<1> DEFINE r == [email |-> web[w].email, office |-> web[w].office,
                 role |-> web[w].role, accepted |-> FALSE, expired |-> FALSE]
<1>1. /\ t \notin DOMAIN invites /\ invites' = With(invites, t, r)
      /\ web' = [web EXCEPT ![w] = Idle] /\ UNCHANGED <<offices, users, cached>>
      /\ web[w].op = "invite"
  BY DEF InsertInvite, Finish
<1>2. /\ DOMAIN invites' = DOMAIN invites \cup {t} /\ invites'[t] = r
      /\ \A s \in DOMAIN invites : invites'[s] = invites[s] /\ s # t
  BY <1>1 DEF With
<1>3. r \in Invite /\ r.office \in offices /\ r.accepted = FALSE
  BY <1>1, RequestFields DEF IInv, Invite, Known, RequestKnown
<1> HIDE DEF r
<1>4. \A v \in Workers : web'[v] = IF v = w THEN Idle ELSE web[v]
  BY <1>1, IdleKnown, OneWorker DEF IInv
<1>5. TypeOK'
  <2>1. invites' \in [DOMAIN invites' -> Invite] /\ DOMAIN invites' \subseteq Tokens
    BY <1>1, <1>2, <1>3 DEF IInv, TypeOK, With
  <2>2. web' \in [Workers -> Request \cup {Idle}]
    BY <1>1, IdleKnown, OneWorker DEF IInv
  <2> QED BY <1>1, <2>1, <2>2 DEF IInv, TypeOK
<1>6. Known'
  <2>1. \A v \in Workers : RequestKnown(web[v])'
    BY <1>1, <1>2, <1>4, IdleKnown DEF IInv, Known, RequestKnown, Idle
  <2> QED BY <1>1, <1>2, <1>3, <2>1 DEF IInv, Known
<1>7. OneAccountPerEmail' /\ Founded'
  BY <1>1 DEF IInv, OneAccountPerEmail, Founded
<1>8. Accepted'
  <2> SUFFICES ASSUME NEW s \in DOMAIN invites'
               PROVE  IF invites'[s].accepted THEN \E m \in DOMAIN users' : Made(s, m)'
                      ELSE \A v \in DOMAIN users' : users'[v].origin # s
    BY DEF Accepted
  <2>1. CASE s = t
    <3>1. \A v \in DOMAIN users : users[v].origin # t
      BY <1>1, TokensAssumption DEF IInv, Known, Registration
    <3> QED BY <1>1, <1>2, <1>3, <2>1, <3>1
  <2>2. CASE s \in DOMAIN invites
    <3>1. invites'[s] = invites[s] /\ users' = users
      BY <1>1, <1>2, <2>2
    <3>2. CASE invites[s].accepted
      BY <2>2, <3>1, <3>2 DEF IInv, Accepted, Made
    <3>3. CASE ~invites[s].accepted
      BY <2>2, <3>1, <3>3 DEF IInv, Accepted
    <3> QED BY <3>1, <3>2, <3>3
  <2> QED BY <1>2, <2>1, <2>2
<1> QED BY <1>5, <1>6, <1>7, <1>8 DEF IInv

(* The member is inserted only if nobody has the e-mail: so the invitation *)
(* was still open, and this is its one member.                             *)
LEMMA MemberIInv ==
  ASSUME IInv, NEW w \in Workers, NEW u \in Users, InsertMember(w, u)
  PROVE  IInv'
<1> DEFINE t == web[w].token
           r == [email |-> invites[t].email, office |-> invites[t].office,
                 role |-> invites[t].role, active |-> TRUE, origin |-> t]
<1>1. CASE EmailTaken(invites[t].email)
  BY <1>1, IdleKnown, RequestMoves DEF InsertMember, Finish, IInv, TypeOK
<1>2. CASE ~EmailTaken(invites[t].email)
  <2>1. /\ u \notin DOMAIN users /\ users' = With(users, u, r)
        /\ invites' = [invites EXCEPT ![t].accepted = TRUE]
        /\ web' = [web EXCEPT ![w] = Idle] /\ UNCHANGED <<offices, cached>>
        /\ web[w].op = "accept"
    BY <1>2 DEF InsertMember, Finish
  <2>2. t \in DOMAIN invites /\ t \in Tokens /\ invites[t] \in Invite
    BY <2>1, RequestFields DEF IInv, Known, RequestKnown, TypeOK
  <2>3. PICK k : k = t
    OBVIOUS
  <2>4. /\ r \in User /\ r.office = invites[k].office /\ r.origin = k
        /\ r.email = invites[k].email
    BY <2>2, <2>3 DEF User, Invite
  <2>5. /\ DOMAIN users' = DOMAIN users \cup {u} /\ users'[u] = r
        /\ \A v \in DOMAIN users : users'[v] = users[v] /\ v # u
    BY <2>1 DEF With
  <2>6. /\ DOMAIN invites' = DOMAIN invites
        /\ \A s \in DOMAIN invites : invites'[s].office = invites[s].office
                                  /\ invites'[s].email = invites[s].email
                                  /\ (s # k => invites'[s].accepted = invites[s].accepted)
        /\ invites'[k].accepted /\ k \in DOMAIN invites /\ k \in Tokens
    BY <2>1, <2>2, <2>3 DEF IInv, TypeOK, Invite
  <2>7. invites' \in [DOMAIN invites -> Invite]
    BY <2>1, <2>2 DEF IInv, TypeOK, Invite
  <2>8. \A v \in Workers : web'[v] = IF v = w THEN Idle ELSE web[v]
    BY <2>1, IdleKnown, OneWorker DEF IInv
  <2>9. users' \in [DOMAIN users' -> User]
    BY <2>1, <2>4, <2>5 DEF IInv, TypeOK, With
  <2>10. ~EmailTaken(invites[k].email)
    BY <1>2, <2>3
  <2> HIDE DEF r, t
  <2>11. TypeOK'
    <3>1. web' \in [Workers -> Request \cup {Idle}]
      BY <2>1, IdleKnown, OneWorker DEF IInv
    <3> QED BY <2>1, <2>5, <2>6, <2>7, <2>9, <3>1 DEF IInv, TypeOK
  <2>12. Known'
    <3>1. \A v \in Workers : RequestKnown(web[v])'
      BY <2>1, <2>5, <2>6, <2>8, IdleKnown DEF IInv, Known, RequestKnown, Idle
    <3>2. \A v \in DOMAIN users' :
             /\ users'[v].office \in offices
             /\ users'[v].origin = Registration \/ users'[v].origin \in DOMAIN invites
      BY <2>4, <2>5, <2>6 DEF IInv, Known
    <3>3. \A s \in DOMAIN invites' : invites'[s].office \in offices
      BY <2>6 DEF IInv, Known
    <3> QED BY <2>1, <2>6, <3>1, <3>2, <3>3 DEF Known
  <2>13. OneAccountPerEmail'
    BY <2>4, <2>5, <2>10 DEF IInv, OneAccountPerEmail, EmailTaken
  <2>14. Founded'
    <3>1. k # Registration
      BY <2>6, TokensAssumption DEF Registration
    <3> SUFFICES ASSUME NEW p \in offices
                 PROVE  \E m \in DOMAIN users' :
                          /\ users'[m].office = p /\ users'[m].origin = Registration
                          /\ \A v \in DOMAIN users' :
                               users'[v].office = p /\ users'[v].origin = Registration => v = m
      BY <2>1 DEF Founded
    <3>2. PICK m \in DOMAIN users :
            /\ users[m].office = p /\ users[m].origin = Registration
            /\ \A v \in DOMAIN users : users[v].office = p /\ users[v].origin = Registration => v = m
      BY DEF IInv, Founded
    <3> QED BY <2>4, <2>5, <3>1, <3>2
  <2>15. Accepted'
    <3>1. \A v \in DOMAIN users : users[v].origin # k
      <4>1. ~invites[k].accepted
        BY <2>6, <2>10 DEF IInv, Accepted, Made, EmailTaken
      <4> QED BY <2>6, <4>1 DEF IInv, Accepted
    <3> SUFFICES ASSUME NEW s \in DOMAIN invites
                 PROVE  IF invites'[s].accepted THEN \E m \in DOMAIN users' : Made(s, m)'
                        ELSE \A v \in DOMAIN users' : users'[v].origin # s
      BY <2>6 DEF Accepted
    <3>2. CASE s = k
      <4>1. Made(k, u)'
        BY <2>4, <2>5, <2>6, <3>1 DEF Made
      <4> QED BY <2>5, <2>6, <3>2, <4>1
    <3>3. CASE s # k /\ invites[s].accepted
      <4>1. PICK m \in DOMAIN users : Made(s, m)
        BY <3>3 DEF IInv, Accepted
      <4>2. Made(s, m)'
        BY <2>4, <2>5, <2>6, <3>3, <4>1 DEF Made
      <4> QED BY <2>5, <2>6, <3>3, <4>2
    <3>4. CASE s # k /\ ~invites[s].accepted
      <4>1. \A v \in DOMAIN users : users[v].origin # s
        BY <3>4 DEF IInv, Accepted
      <4> QED BY <2>4, <2>5, <2>6, <3>4, <4>1
    <3> QED BY <3>2, <3>3, <3>4
  <2> QED BY <2>11, <2>12, <2>13, <2>14, <2>15 DEF IInv
<1> QED BY <1>1, <1>2

(* Expiry, a new role and deactivation change none of the columns that the *)
(* invariant speaks of.                                                    *)
LEMMA ExpiryIInv ==
  ASSUME IInv, NEW t \in DOMAIN invites, InviteExpires(t)
  PROVE  IInv'
<1>1. /\ invites' \in [DOMAIN invites -> Invite] /\ DOMAIN invites' = DOMAIN invites
      /\ \A s \in DOMAIN invites : invites'[s].office = invites[s].office
                                /\ invites'[s].email = invites[s].email
                                /\ invites'[s].accepted = invites[s].accepted
      /\ UNCHANGED <<offices, users, cached, web>>
  BY DEF InviteExpires, IInv, TypeOK, Invite
<1>2. TypeOK' /\ OneAccountPerEmail' /\ Founded'
  BY <1>1 DEF IInv, TypeOK, OneAccountPerEmail, Founded
<1>3. Known'
  BY <1>1 DEF IInv, Known, RequestKnown
<1>4. \A s, u : Made(s, u) /\ s \in DOMAIN invites => Made(s, u)'
  BY <1>1 DEF Made
<1>5. Accepted'
  BY <1>1, <1>4 DEF IInv, Accepted
<1> QED BY <1>2, <1>3, <1>5 DEF IInv

(* The office changes the role of a member or deactivates one.             *)
LEMMA AdminIInv ==
  ASSUME IInv, NEW w \in Workers, CommitMember(w)
  PROVE  IInv'
<1>1. web[w].user \in DOMAIN users /\ (web[w].op = "role" => web[w].role \in Roles)
  BY RequestFields DEF CommitMember, IInv, Known, RequestKnown
<1>2. users' \in [DOMAIN users -> User]
  BY <1>1 DEF CommitMember, IInv, TypeOK, User
<1>3. /\ DOMAIN users' = DOMAIN users
      /\ \A v \in DOMAIN users : users'[v].office = users[v].office
                              /\ users'[v].email = users[v].email
                              /\ users'[v].origin = users[v].origin
  BY <1>1 DEF CommitMember, IInv, TypeOK, User
<1>4. web' = [web EXCEPT ![w] = Idle] /\ UNCHANGED <<offices, invites, cached>>
  BY DEF CommitMember, Finish
<1>5. \A v \in Workers : web'[v] = IF v = w THEN Idle ELSE web[v]
  BY <1>4, IdleKnown, OneWorker DEF IInv
<1>6. TypeOK'
  BY <1>2, <1>3, <1>4, IdleKnown, OneWorker DEF IInv, TypeOK
<1>7. Known'
  <2>1. \A v \in Workers : RequestKnown(web[v])'
    BY <1>3, <1>4, <1>5 DEF IInv, Known, RequestKnown, Idle
  <2> QED BY <1>3, <1>4, <2>1 DEF IInv, Known
<1>8. OneAccountPerEmail' /\ Founded'
  BY <1>3, <1>4 DEF IInv, OneAccountPerEmail, Founded
<1>9. \A s, u : Made(s, u) /\ u \in DOMAIN users => Made(s, u)'
  BY <1>3, <1>4 DEF Made
<1>10. Accepted'
  BY <1>3, <1>4, <1>9 DEF IInv, Accepted
<1> QED BY <1>6, <1>7, <1>8, <1>10 DEF IInv

-----------------------------------------------------------------------------
(* IInv is inductive.                                                      *)
LEMMA NextIInv == IInv /\ [Next]_vars => IInv'
<1> SUFFICES ASSUME IInv, [Next]_vars PROVE IInv'
  OBVIOUS
<1>1. ASSUME NEW e \in Emails, register(e) \/ CodeExpires(e)
      PROVE  IInv'
  BY <1>1 DEF register, CodeExpires, IInv, TypeOK, Known, RequestKnown, OneAccountPerEmail, Founded, Accepted, Made
<1>2. ASSUME NEW t \in DOMAIN invites, InviteExpires(t)
      PROVE  IInv'
  BY <1>2, ExpiryIInv
<1>3. ASSUME NEW w \in Workers, NEW e \in Emails, verify_otp(w, e)
      PROVE  IInv'
  <2> DEFINE q == [op |-> "validate", email |-> e]
  <2>1. q \in Request /\ RequestKnown(q)
    BY DEF Request, RequestKnown
  <2> QED BY <1>3, <2>1, RequestMoves DEF verify_otp, Start, IInv, TypeOK
<1>4. ASSUME NEW w \in Workers, ConsumeCode(w)
      PROVE  IInv'
  <2> DEFINE q == IF EmailTaken(web[w].email) THEN Idle ELSE [web[w] EXCEPT !.op = "found"]
  <2>1. web[w] \in [op : {"validate", "found"}, email : Emails]
    BY <1>4 DEF ConsumeCode, IInv, TypeOK, Request, Idle
  <2>2. q \in Request \cup {Idle} /\ RequestKnown(q)
    BY <2>1, IdleKnown DEF Request, RequestKnown
  <2> QED BY <1>4, <2>2, RequestMoves DEF ConsumeCode, IInv, TypeOK
<1>5. ASSUME NEW w \in Workers, NEW o \in Offices, NEW u \in Users, FoundOffice(w, o, u)
      PROVE  IInv'
  BY <1>5, FoundIInv
<1>6. ASSUME NEW w \in Workers, NEW u \in DOMAIN users, NEW e \in Emails, NEW r \in Roles,
             invite_member(w, u, e, r)
      PROVE  IInv'
  <2> DEFINE q == [op |-> "invite", office |-> users[u].office, email |-> e, role |-> r]
  <2>1. q \in Request /\ RequestKnown(q)
    BY DEF Request, RequestKnown, IInv, Known, TypeOK, User
  <2> QED BY <1>6, <2>1, RequestMoves DEF invite_member, Start, IInv, TypeOK
<1>7. ASSUME NEW w \in Workers, NEW t \in Tokens, InsertInvite(w, t)
      PROVE  IInv'
  BY <1>7, InviteIInv
<1>8. ASSUME NEW w \in Workers, NEW t \in DOMAIN invites, accept_invite(w, t)
      PROVE  IInv'
  <2> DEFINE q == [op |-> "accept", token |-> t]
  <2>1. q \in Request /\ RequestKnown(q)
    BY DEF Request, RequestKnown, IInv, TypeOK
  <2> QED BY <1>8, <2>1, RequestMoves DEF accept_invite, Start, IInv, TypeOK
<1>9. ASSUME NEW w \in Workers, NEW u \in Users, InsertMember(w, u)
      PROVE  IInv'
  BY <1>9, MemberIInv
<1>10. ASSUME NEW w \in Workers, NEW u \in DOMAIN users, NEW m \in DOMAIN users,
              deactivate_member(w, u, m) \/ \E r \in Roles : update_member(w, u, m, r)
       PROVE  IInv'
  <2>1. CASE deactivate_member(w, u, m)
    <3> DEFINE q == [op |-> "deactivate", user |-> m]
    <3>1. q \in Request /\ RequestKnown(q)
      BY DEF Request, RequestKnown, IInv, TypeOK
    <3> QED BY <2>1, <3>1, RequestMoves DEF deactivate_member, Start, IInv, TypeOK
  <2>2. ASSUME NEW r \in Roles, update_member(w, u, m, r)
        PROVE  IInv'
    <3> DEFINE q == [op |-> "role", user |-> m, role |-> r]
    <3>1. q \in Request /\ RequestKnown(q)
      BY DEF Request, RequestKnown, IInv, TypeOK
    <3> QED BY <2>2, <3>1, RequestMoves DEF update_member, Start, IInv, TypeOK
  <2> QED BY <1>10, <2>1, <2>2
<1>11. ASSUME NEW w \in Workers, CommitMember(w)
       PROVE  IInv'
  BY <1>11, AdminIInv
<1>12. ASSUME NEW w \in Workers, Abandon(w)
       PROVE  IInv'
  BY <1>12, IdleKnown, RequestMoves DEF Abandon, Finish, IInv, TypeOK
<1>13. CASE UNCHANGED vars
  BY <1>13 DEF vars, IInv, TypeOK, Known, RequestKnown, OneAccountPerEmail, Founded, Accepted, Made
<1> QED BY <1>1, <1>2, <1>3, <1>4, <1>5, <1>6, <1>7, <1>8, <1>9, <1>10, <1>11, <1>12, <1>13 DEF Next

(* The invariant holds in every reachable state.                           *)
LEMMA SpecIInv == Spec => []IInv
BY InitIInv, NextIInv, PTL DEF Spec

-----------------------------------------------------------------------------
(* The variables keep their types.                                         *)
THEOREM TypeCorrect == Spec => []TypeOK
BY SpecIInv, PTL DEF IInv

(* One account per e-mail, however registrations and invitations race.     *)
THEOREM OneAccount == Spec => []OneAccountPerEmail
BY SpecIInv, PTL DEF IInv

(* Every office has exactly one founding owner account.                    *)
THEOREM OfficeFounded == Spec => []OfficeHasFounder
<1>1. IInv => OfficeHasFounder
  BY DEF IInv, Founded, OfficeHasFounder, FoundersOf
<1> QED BY <1>1, SpecIInv, PTL

(* An invitation marked accepted made one member, an open one made none.   *)
THEOREM InvitationMadeOne == Spec => []AcceptedMadeOneMember
<1>1. IInv => AcceptedMadeOneMember
  BY DEF IInv, Accepted, Made, AcceptedMadeOneMember
<1> QED BY <1>1, SpecIInv, PTL
=============================================================================
