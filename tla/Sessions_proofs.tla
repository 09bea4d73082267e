---------------------------- MODULE Sessions_proofs ----------------------------
(***************************************************************************)
(* Sessions and rights, for any number of workers, users, sessions and     *)
(* password changes: what a reset shuts out and which writes commit.  The  *)
(* second half is about the cache that holds a reset's one-time code.      *)
(***************************************************************************)
EXTENDS Sessions, OtpCache, TLAPS

-----------------------------------------------------------------------------
(* Everything that may still give a token goes back to a password stored   *)
(* by the user's last reset or later, or to a login or a refresh that the  *)
(* reset straddled; tokens older than the reset say so.                    *)
SinceReset(u, proved) == proved >= lastReset[u]
ResetsStored == \A u \in Users : password[u] >= lastReset[u]
RequestsProve ==
  \A w \in Workers \ straddled :
    /\ web[w].op = "login" => SinceReset(web[w].user, web[w].proved)
    /\ web[w].op = "refresh" => web[w].late \/ SinceReset(web[w].user, web[w].proved)
SessionsProve ==
  \A i \in DOMAIN sessions : sessions[i].late \/ SinceReset(sessions[i].user, sessions[i].proved)
TokensDated == \A t \in tokens : t.since <= lastReset[t.user]

(* The marks of an idle worker are cleared.                                *)
Marked ==
  /\ \A w \in straddled : web[w].op \in {"login", "refresh"}
  /\ \A w \in barred : web[w] # Idle

(* A write under way whose worker is not barred may commit.                *)
Rights ==
  \A w \in Workers : web[w].op = "write" /\ w \notin barred => web[w].user \in active \cap permitted

Proved == ResetsStored /\ RequestsProve /\ SessionsProve /\ TokensDated /\ TokensProveReset
IInv == TypeOK /\ Marked /\ Proved /\ Rights

-----------------------------------------------------------------------------
(* What a request carries, by its kind.                                    *)
LEMMA RequestFields ==
  ASSUME TypeOK, NEW w \in Workers, web[w] # Idle
  PROVE  /\ web[w].user \in Users
         /\ web[w].op \in {"login", "change", "refresh"} => web[w].proved \in Passwords
         /\ web[w].op = "refresh" => web[w].late \in BOOLEAN
<1>1. web[w] \in Request
  BY DEF TypeOK
<1> QED BY <1>1 DEF Request

(* Passwords are natural numbers.                                          *)
LEMMA Numbers == Passwords \subseteq Nat /\ 0 \in Passwords
BY BoundAssumption DEF Passwords

-----------------------------------------------------------------------------
(* At first nobody has a session.                                          *)
LEMMA InitIInv == Init => IInv
<1> SUFFICES ASSUME Init PROVE IInv
  OBVIOUS
<1>1. TypeOK
  BY Numbers DEF Init, TypeOK, Idle
<1>2. Proved
  BY Numbers DEF Init, Proved, ResetsStored, RequestsProve, SessionsProve, TokensDated,
                 TokensProveReset, SinceReset, Idle
<1>3. Rights /\ Marked
  BY DEF Init, Rights, Marked, Idle
<1> QED BY <1>1, <1>2, <1>3 DEF IInv

(* A request starts: a login with the stored password, a refresh with what *)
(* its session proves, a write with the rights of the row.                 *)
LEMMA StartIInv ==
  ASSUME IInv, NEW w \in Workers, NEW q \in Request, Start(w, q),
         q.op = "login" => q.proved = password[q.user],
         q.op = "refresh" => q.late \/ SinceReset(q.user, q.proved),
         q.op = "write" => q.user \in active \cap permitted,
         codes' \subseteq Users,
         UNCHANGED <<access, password, sessions, expired, tokens, lastReset, straddled, barred>>
  PROVE  IInv'
<1>1. /\ web' \in [Workers -> Request \cup {Idle}]
      /\ \A v \in Workers : web'[v] = IF v = w THEN q ELSE web[v]
  BY DEF Start, IInv, TypeOK
<1>2. TypeOK'
  BY <1>1 DEF access, IInv, TypeOK
<1>3. RequestsProve'
  <2>1. q.op = "login" => q.user \in Users
    BY DEF Request
  <2> QED BY <1>1, <2>1 DEF IInv, Proved, ResetsStored, RequestsProve, SinceReset
<1>4. Proved'
  BY <1>3 DEF IInv, Proved, ResetsStored, SessionsProve, TokensDated, TokensProveReset, SinceReset
<1>5. Rights'
  BY <1>1 DEF access, IInv, Rights
<1>6. Marked'
  <2>1. w \notin straddled \cup barred
    BY DEF Start, IInv, Marked, Idle
  <2>2. q # Idle
    BY DEF Request, Idle
  <2>3. straddled' = straddled /\ barred' = barred
    OBVIOUS
  <2> QED BY <1>1, <2>1, <2>2, <2>3 DEF IInv, TypeOK, Marked
<1> QED BY <1>2, <1>4, <1>5, <1>6 DEF IInv

(* A request ends; no password goes back.                                  *)
LEMMA EndIInv ==
  ASSUME IInv, NEW w \in Workers, Finish(w),
         password' \in [Users -> Passwords], \A u \in Users : password'[u] >= password[u],
         UNCHANGED <<access, codes, sessions, expired, tokens, lastReset>>
  PROVE  IInv'
<1>1. /\ web' \in [Workers -> Request \cup {Idle}]
      /\ \A v \in Workers : web'[v] = IF v = w THEN Idle ELSE web[v]
      /\ straddled' = straddled \ {w} /\ barred' = barred \ {w}
  BY DEF Finish, IInv, TypeOK
<1>2. TypeOK'
  BY <1>1 DEF access, IInv, TypeOK
<1>3. ResetsStored'
  BY Numbers DEF IInv, Proved, ResetsStored, TypeOK
<1>4. RequestsProve'
  BY <1>1 DEF IInv, Proved, RequestsProve, SinceReset, Idle
<1>5. SessionsProve' /\ TokensDated' /\ TokensProveReset'
  BY DEF IInv, Proved, SessionsProve, TokensDated, TokensProveReset, SinceReset
<1>6. Rights' /\ Marked'
  BY <1>1 DEF access, IInv, Rights, Marked, Idle, TypeOK
<1> QED BY <1>2, <1>3, <1>4, <1>5, <1>6 DEF IInv, Proved

(* Sessions, tokens and codes that go leave the rest as it is.             *)
LEMMA RemoveIInv ==
  ASSUME IInv, DOMAIN sessions' \subseteq DOMAIN sessions,
         \A i \in DOMAIN sessions' : sessions'[i] = sessions[i],
         sessions' \in [DOMAIN sessions' -> Session],
         tokens' \subseteq tokens, codes' \subseteq Users, expired' \subseteq Ids,
         UNCHANGED <<access, password, lastReset, web, straddled, barred>>
  PROVE  IInv'
<1>1. TypeOK'
  BY DEF access, IInv, TypeOK
<1>2. Proved'
  BY DEF IInv, Proved, ResetsStored, RequestsProve, SessionsProve, TokensDated, TokensProveReset,
         SinceReset
<1>3. Rights' /\ Marked'
  BY DEF access, IInv, Rights, Marked
<1> QED BY <1>1, <1>2, <1>3 DEF IInv

(* Without gives back some of the sessions.                                *)
LEMMA WithoutSome ==
  ASSUME TypeOK, NEW I, sessions' = Without(I)
  PROVE  /\ DOMAIN sessions' \subseteq DOMAIN sessions
         /\ DOMAIN sessions' = DOMAIN sessions \ I
         /\ \A i \in DOMAIN sessions' : sessions'[i] = sessions[i]
         /\ sessions' \in [DOMAIN sessions' -> Session]
BY DEF Without, TypeOK

(* A token is issued on what a login or a session proves.                  *)
LEMMA TokenIssued ==
  ASSUME IInv, NEW u \in Users, NEW p \in Passwords, NEW late \in BOOLEAN,
         late \/ SinceReset(u, p), tokens' = tokens \cup {Issued(u, p, late)},
         UNCHANGED lastReset
  PROVE  tokens' \subseteq Token /\ TokensDated' /\ TokensProveReset'
<1> DEFINE t == Issued(u, p, late)
<1>1. t \in Token /\ t.user = u /\ t.since = lastReset[u] /\ t.proved = p /\ t.late = late
  BY DEF Issued, Token, IInv, TypeOK
<1>2. lastReset[u] \in Nat
  BY Numbers DEF IInv, TypeOK
<1> HIDE DEF t
<1>3. tokens' = tokens \cup {t}
  BY DEF t
<1>4. TokensDated'
  BY <1>1, <1>2, <1>3 DEF IInv, Proved, TokensDated
<1>5. TokensProveReset'
  BY <1>1, <1>3 DEF IInv, Proved, TokensProveReset, SinceReset
<1> QED BY <1>1, <1>3, <1>4, <1>5 DEF IInv, TypeOK

(* A refresh's token proves what its session proved.                       *)
LEMMA IssueIInv == ASSUME IInv, NEW w \in Workers, IssueToken(w) PROVE IInv'
<1> DEFINE u == web[w].user
           late == web[w].late \/ w \in straddled
<1>1. /\ web[w].op = "refresh" /\ tokens' = tokens \cup {Issued(u, web[w].proved, late)}
      /\ Finish(w) /\ UNCHANGED <<access, password, codes, sessions, expired, lastReset>>
  BY DEF IssueToken
<1>2. u \in Users /\ web[w].proved \in Passwords
  BY <1>1, RequestFields DEF IInv, Idle
<1>3. late \/ SinceReset(u, web[w].proved)
  BY <1>1 DEF IInv, Proved, RequestsProve
<1>4. tokens' \subseteq Token /\ TokensDated' /\ TokensProveReset'
  <2>1. late \in BOOLEAN
    BY <1>1, RequestFields DEF IInv, Idle
  <2> QED BY <1>1, <1>2, <1>3, <2>1, TokenIssued
<1>5. /\ web' \in [Workers -> Request \cup {Idle}]
      /\ \A v \in Workers : web'[v] = IF v = w THEN Idle ELSE web[v]
      /\ straddled' = straddled \ {w} /\ barred' = barred \ {w}
  BY <1>1 DEF Finish, IInv, TypeOK
<1> HIDE DEF u, late
<1>6. TypeOK'
  BY <1>1, <1>4, <1>5 DEF access, IInv, TypeOK
<1>7. ResetsStored' /\ RequestsProve' /\ SessionsProve'
  BY <1>1, <1>5 DEF IInv, Proved, ResetsStored, RequestsProve, SessionsProve, SinceReset, Idle
<1>8. Rights' /\ Marked'
  BY <1>1, <1>5 DEF access, IInv, Rights, Marked, Idle, TypeOK
<1> QED BY <1>4, <1>6, <1>7, <1>8 DEF IInv, Proved

(* A login's session proves what the login proved.                         *)
LEMMA CreateIInv ==
  ASSUME IInv, NEW w \in Workers, NEW i \in Ids, CreateSession(w, i)
  PROVE  IInv'
<1> DEFINE u == web[w].user
           s == [user |-> u, proved |-> web[w].proved, late |-> w \in straddled]
<1>1. /\ web[w].op = "login" /\ i \notin DOMAIN sessions \cup expired
      /\ sessions' = [j \in DOMAIN sessions \cup {i} |-> IF j = i THEN s ELSE sessions[j]]
      /\ tokens' = tokens \cup {Issued(u, s.proved, s.late)}
      /\ Finish(w) /\ UNCHANGED <<access, password, codes, expired, lastReset>>
  BY DEF CreateSession
<1>2. u \in Users /\ web[w].proved \in Passwords
  BY <1>1, RequestFields DEF IInv, Idle
<1>3. s \in Session /\ s.user = u /\ s.proved \in Passwords /\ s.late \in BOOLEAN
  BY <1>2 DEF Session
<1>4. s.late \/ SinceReset(u, s.proved)
  BY <1>1, <1>2 DEF IInv, Proved, RequestsProve
<1>5. tokens' \subseteq Token /\ TokensDated' /\ TokensProveReset'
  BY <1>1, <1>2, <1>3, <1>4, TokenIssued
<1>6. /\ DOMAIN sessions' = DOMAIN sessions \cup {i}
      /\ sessions' \in [DOMAIN sessions' -> Session] /\ sessions'[i] = s
      /\ \A j \in DOMAIN sessions : sessions'[j] = sessions[j]
  BY <1>1, <1>3 DEF IInv, TypeOK
<1>7. /\ web' \in [Workers -> Request \cup {Idle}]
      /\ \A v \in Workers : web'[v] = IF v = w THEN Idle ELSE web[v]
      /\ straddled' = straddled \ {w} /\ barred' = barred \ {w}
  BY <1>1 DEF Finish, IInv, TypeOK
<1> HIDE DEF s, u
<1>8. TypeOK'
  BY <1>1, <1>5, <1>6, <1>7 DEF access, IInv, TypeOK
<1>9. ResetsStored' /\ RequestsProve'
  BY <1>1, <1>7 DEF IInv, Proved, ResetsStored, RequestsProve, SinceReset, Idle
<1>10. SessionsProve'
  BY <1>1, <1>3, <1>4, <1>6 DEF IInv, Proved, SessionsProve, SinceReset
<1>11. Rights' /\ Marked'
  BY <1>1, <1>7 DEF access, IInv, Rights, Marked, Idle, TypeOK
<1> QED BY <1>5, <1>8, <1>9, <1>10, <1>11 DEF IInv, Proved

(* A reset leaves the user without sessions, his tokens out of date and    *)
(* his logins and refreshes under way marked.                              *)
LEMMA ResetIInv ==
  ASSUME IInv, NEW w \in Workers, CommitReset(w)
  PROVE  IInv'
<1>1. PICK u \in Users : u = web[w].user
  BY RequestFields DEF CommitReset, IInv, Idle
<1>2. /\ web[w].op = "reset" /\ password[u] < MaxPassword
      /\ password' = [password EXCEPT ![u] = @ + 1]
      /\ lastReset' = [lastReset EXCEPT ![u] = password[u] + 1]
      /\ sessions' = Without(SessionsOf(u))
      /\ web' = [web EXCEPT ![w] = Idle]
      /\ straddled' = straddled \cup
           {v \in Workers : web[v].op \in {"login", "refresh"} /\ web[v].user = u}
      /\ barred' = barred \ {w} /\ UNCHANGED <<access, codes, expired, tokens>>
  BY <1>1 DEF CommitReset, revoke_all_sessions
<1>3. /\ password' \in [Users -> Passwords] /\ lastReset' \in [Users -> Passwords]
      /\ password'[u] = password[u] + 1 /\ lastReset'[u] = password[u] + 1
      /\ \A v \in Users \ {u} : password'[v] = password[v] /\ lastReset'[v] = lastReset[v]
  BY <1>2, BoundAssumption DEF IInv, TypeOK, Passwords
<1>4. /\ web' \in [Workers -> Request \cup {Idle}]
      /\ \A v \in Workers : web'[v] = IF v = w THEN Idle ELSE web[v]
  BY <1>2 DEF IInv, TypeOK
<1>5. /\ DOMAIN sessions' = DOMAIN sessions \ SessionsOf(u)
      /\ \A i \in DOMAIN sessions' : sessions'[i] = sessions[i]
      /\ sessions' \in [DOMAIN sessions' -> Session]
  BY <1>2, WithoutSome DEF IInv
<1>6. TypeOK'
  BY <1>2, <1>3, <1>4, <1>5 DEF access, IInv, TypeOK
<1>7. ResetsStored'
  BY <1>3, Numbers DEF IInv, Proved, ResetsStored, TypeOK
<1>8. RequestsProve'
  <2> SUFFICES ASSUME NEW v \in Workers, web'[v].op \in {"login", "refresh"}, v \notin straddled'
               PROVE  /\ web'[v].op = "login" => SinceReset(web[v].user, web[v].proved)'
                      /\ web'[v].op = "refresh" =>
                           web'[v].late \/ SinceReset(web[v].user, web[v].proved)'
    BY DEF RequestsProve
  <2>1. v # w /\ web'[v] = web[v] /\ web[v] # Idle
    BY <1>4 DEF Idle
  <2>2. web[v].user \in Users \ {u}
    BY <1>2, <2>1, RequestFields DEF IInv
  <2> QED BY <1>2, <1>3, <2>1, <2>2 DEF IInv, Proved, RequestsProve, SinceReset
<1>9. SessionsProve'
  <2> SUFFICES ASSUME NEW i \in DOMAIN sessions'
               PROVE  sessions'[i].late \/ SinceReset(sessions[i].user, sessions[i].proved)'
    BY DEF SessionsProve
  <2>1. sessions'[i] = sessions[i] /\ i \in DOMAIN sessions /\ sessions[i] \in Session
    BY <1>5 DEF IInv, TypeOK
  <2>2. sessions[i].user \in Users \ {u}
    BY <1>5, <2>1 DEF SessionsOf, Session
  <2> QED BY <1>3, <2>1, <2>2 DEF IInv, Proved, SessionsProve, SinceReset
<1>10. TokensDated' /\ TokensProveReset'
  <2> SUFFICES ASSUME NEW t \in tokens
               PROVE  /\ t.since <= lastReset'[t.user]
                      /\ t.since = lastReset'[t.user] => t.proved >= t.since \/ t.late
    BY <1>2 DEF TokensDated, TokensProveReset
  <2>1. t.user \in Users /\ t.since \in Nat
    BY Numbers DEF IInv, TypeOK, Token
  <2>2. t.since <= lastReset[t.user]
    BY DEF IInv, Proved, TokensDated
  <2>3. CASE t.user = u
    <3>1. lastReset[u] \in Nat /\ password[u] \in Nat /\ lastReset[u] <= password[u]
      BY Numbers DEF IInv, TypeOK, Proved, ResetsStored
    <3> QED BY <1>3, <2>1, <2>2, <2>3, <3>1
  <2>4. CASE t.user # u
    BY <1>3, <2>1, <2>2, <2>4 DEF IInv, Proved, TokensProveReset
  <2> QED BY <2>3, <2>4
<1>11. Rights' /\ Marked'
  BY <1>2, <1>4 DEF access, IInv, Rights, Marked, Idle, TypeOK
<1> QED BY <1>6, <1>7, <1>8, <1>9, <1>10, <1>11 DEF IInv, Proved

(* Who loses access or permission has his requests barred.                 *)
LEMMA BarIInv ==
  ASSUME IInv, NEW u \in Users, active' \subseteq Users, permitted' \subseteq Users,
         \/ active \subseteq active' /\ permitted \subseteq permitted' /\ UNCHANGED barred
         \/ active \ {u} \subseteq active' /\ permitted \ {u} \subseteq permitted' /\ Bar(u),
         UNCHANGED <<login_state, web, straddled>>
  PROVE  IInv'
<1>1. TypeOK'
  BY DEF Bar, login_state, IInv, TypeOK
<1>2. Proved'
  BY DEF login_state, IInv, Proved, ResetsStored, RequestsProve, SessionsProve, TokensDated,
         TokensProveReset, SinceReset
<1>3. Marked'
  BY DEF Bar, IInv, Marked
<1>4. Rights'
  BY DEF Bar, IInv, Rights, Idle
<1> QED BY <1>1, <1>2, <1>3, <1>4 DEF IInv

-----------------------------------------------------------------------------
(* IInv is inductive.                                                      *)
LEMMA NextIInv == IInv /\ [Next]_vars => IInv'
<1> SUFFICES ASSUME IInv, [Next]_vars PROVE IInv'
  OBVIOUS
<1>1. ASSUME NEW w \in Workers, NEW u \in Users, login(w, u)
      PROVE  IInv'
  <2> DEFINE q == [op |-> "login", user |-> u, proved |-> password[u]]
  <2>1. q \in Request
    BY DEF Request, IInv, TypeOK
  <2> QED BY <1>1, <2>1, StartIInv DEF login, login_state, IInv, TypeOK
<1>2. ASSUME NEW w \in Workers, NEW u \in Users, reset_password(w, u)
      PROVE  IInv'
  <2>1. CASE u \in active
    <3> DEFINE q == [op |-> "reset", user |-> u]
    <3>1. q \in Request
      BY DEF Request
    <3> QED BY <1>2, <2>1, <3>1, StartIInv DEF reset_password, IInv, TypeOK
  <2>2. CASE u \notin active
    BY <1>2, <2>2, RemoveIInv DEF reset_password, IInv, TypeOK
  <2> QED BY <2>1, <2>2
<1>3. ASSUME NEW w \in Workers, NEW u \in Users, change_password(w, u)
      PROVE  IInv'
  <2> DEFINE q == [op |-> "change", user |-> u, proved |-> password[u]]
  <2>1. q \in Request
    BY DEF Request, IInv, TypeOK
  <2> QED BY <1>3, <2>1, StartIInv DEF change_password, login_state, IInv, TypeOK
<1>4. ASSUME NEW w \in Workers, NEW u \in Users, require_permission(w, u)
      PROVE  IInv'
  <2> DEFINE q == [op |-> "write", user |-> u]
  <2>1. q \in Request /\ u \in active \cap permitted
    BY <1>4 DEF Request, require_permission, Authenticated, has_permission
  <2> QED BY <1>4, <2>1, StartIInv DEF require_permission, login_state, IInv, TypeOK
<1>5. ASSUME NEW w \in Workers, NEW i \in Ids, CreateSession(w, i)
      PROVE  IInv'
  BY <1>5, CreateIInv
<1>6. ASSUME NEW w \in Workers, CommitReset(w)
      PROVE  IInv'
  BY <1>6, ResetIInv
<1>7. ASSUME NEW w \in Workers, CommitChange(w)
      PROVE  IInv'
  <2>1. web[w].user \in Users
    BY <1>7, RequestFields DEF CommitChange, IInv, Idle
  <2>2. /\ password' \in [Users -> Passwords]
        /\ \A u \in Users : password'[u] >= password[u]
    BY <1>7, <2>1, BoundAssumption DEF CommitChange, IInv, TypeOK, Passwords
  <2> QED BY <1>7, <2>2, EndIInv DEF CommitChange
<1>8. ASSUME NEW w \in Workers, CommitWrite(w) \/ Abandon(w)
      PROVE  IInv'
  <2>1. password' \in [Users -> Passwords] /\ \A u \in Users : password'[u] >= password[u]
    BY <1>8, Numbers DEF CommitWrite, Abandon, login_state, IInv, TypeOK
  <2> QED BY <1>8, <2>1, EndIInv DEF CommitWrite, Abandon, login_state
<1>9. ASSUME NEW u \in Users, forgot_password(u) \/ CodeExpires(u)
      PROVE  IInv'
  BY <1>9, RemoveIInv DEF forgot_password, CodeExpires, IInv, TypeOK
<1>10. ASSUME NEW u \in Users, logout_all(u)
       PROVE  IInv'
  <2>1. sessions' = Without(SessionsOf(u))
    BY <1>10 DEF logout_all, revoke_all_sessions
  <2> QED BY <1>10, <2>1, WithoutSome, RemoveIInv DEF logout_all, IInv, TypeOK
<1>11. ASSUME NEW u \in Users, deactivate_member(u)
       PROVE  IInv'
  BY <1>11, BarIInv DEF deactivate_member, IInv, TypeOK
<1>12. ASSUME NEW u \in Users, update_member(u)
       PROVE  IInv'
  BY <1>12, BarIInv DEF update_member, IInv, TypeOK
<1>13. ASSUME NEW i \in Ids, logout(i)
       PROVE  IInv'
  BY <1>13, WithoutSome, RemoveIInv DEF logout, IInv, TypeOK
<1>14. ASSUME NEW w \in Workers, NEW i \in Ids, refresh(w, i)
       PROVE  IInv'
  <2> DEFINE s == sessions[i]
             q == [op |-> "refresh", user |-> s.user, proved |-> s.proved, late |-> s.late]
  <2>1. s \in Session /\ i \in DOMAIN sessions
    BY <1>14 DEF refresh, Refreshable, IInv, TypeOK
  <2>2. s.late \/ SinceReset(s.user, s.proved)
    BY <2>1 DEF IInv, Proved, SessionsProve
  <2>3. q \in Request
    BY <2>1 DEF Request, Session
  <2> QED BY <1>14, <2>2, <2>3, StartIInv DEF refresh, login_state, IInv, TypeOK
<1>15. ASSUME NEW i \in Ids, SessionExpires(i)
       PROVE  IInv'
  BY <1>15, RemoveIInv DEF SessionExpires, IInv, TypeOK
<1>16. ASSUME NEW t \in tokens, TokenExpires(t)
       PROVE  IInv'
  BY <1>16, RemoveIInv DEF TokenExpires, IInv, TypeOK
<1>17. ASSUME NEW w \in Workers, IssueToken(w)
       PROVE  IInv'
  BY <1>17, IssueIInv
<1>18. CASE UNCHANGED vars
  <2>1. UNCHANGED <<access, login_state, web, straddled, barred>>
    BY <1>18 DEF vars
  <2> QED BY <2>1, RemoveIInv DEF login_state, IInv, TypeOK
<1> QED BY <1>1, <1>2, <1>3, <1>4, <1>5, <1>6, <1>7, <1>8, <1>9, <1>10, <1>11, <1>12, <1>13,
           <1>14, <1>15, <1>16, <1>17, <1>18 DEF Next

(* The invariant holds in every reachable state.                           *)
LEMMA SpecIInv == Spec => []IInv
BY InitIInv, NextIInv, PTL DEF Spec

-----------------------------------------------------------------------------
(* The variables keep their types.                                         *)
THEOREM TypeCorrect == Spec => []TypeOK
BY SpecIInv, PTL DEF IInv

(* A token issued since the last reset goes back to a password stored by   *)
(* it or later, or to a login or a refresh that the reset straddled.       *)
THEOREM ResetShutsOut == Spec => []TokensProveReset
BY SpecIInv, PTL DEF IInv, Proved

(* No write commits for a user without the right to it, unless he lost it  *)
(* while the request was being served.                                     *)
THEOREM OnlyAuthorisedWrites == Spec => WritesAuthorised
<1>1. IInv => \A w \in Workers : CommitWrite(w) /\ w \notin barred =>
                web[w].user \in active \cap permitted
  BY DEF IInv, Rights, CommitWrite
<1>2. IInv /\ [Next]_vars =>
        [\A w \in Workers : CommitWrite(w) /\ w \notin barred =>
           web[w].user \in active \cap permitted]_vars
  BY <1>1
<1> QED BY <1>2, SpecIInv, PTL DEF Spec, WritesAuthorised

-----------------------------------------------------------------------------
(* The cache holds issued codes; until a Redis call fails, its key holds   *)
(* the last of them, and only while that one is young.                     *)
OtpKnown ==
  /\ latest \in issued \cup {NoCode}
  /\ redis \in issued \cup {NoCode}
  /\ \A p \in Procs : fallback[p] \in issued \cup {NoCode} /\ req[p] \in issued \cup {NoCode}
OtpCurrent ==
  ~outage /\ redis # NoCode => redis = latest /\ redis \notin codesExpired

(* Until then, a code that was never matched twice at the same time is     *)
(* gone from the cache and from every request once it has been accepted.   *)
OtpSpent ==
  ~outage => \A c \in issued \ shared :
    /\ \A p, q \in Procs : req[p] = c /\ req[q] = c => p = q
    /\ accepted[c] <= 1
    /\ accepted[c] = 1 => redis # c /\ \A p \in Procs : req[p] # c
OtpUnissued == \A c \in Codes \ issued : accepted[c] = 0

OtpIInv == OtpTypeOK /\ OtpKnown /\ OtpCurrent /\ OtpSpent /\ OtpUnissued

LEMMA OtpInitially == OtpInit => OtpIInv
<1> SUFFICES ASSUME OtpInit PROVE OtpIInv
  OBVIOUS
<1>1. OtpTypeOK
  BY DEF OtpInit, OtpTypeOK
<1>2. OtpKnown /\ OtpCurrent /\ OtpSpent /\ OtpUnissued
  BY DEF OtpInit, OtpKnown, OtpCurrent, OtpSpent, OtpUnissued
<1> QED BY <1>1, <1>2 DEF OtpIInv

LEMMA OtpMatch ==
  ASSUME OtpIInv, NEW p \in Procs, NEW c \in Codes, Match(p, c) PROVE OtpIInv'
<1>1. c \in issued /\ c # NoCode
  BY CodesAssumption DEF Match, get_json, OtpIInv, OtpKnown
<1>2. OtpTypeOK'
  BY <1>1 DEF OtpIInv, OtpTypeOK, Match, get_json
<1>3. OtpKnown'
  BY <1>1 DEF OtpIInv, OtpTypeOK, Match, OtpKnown
<1>4. OtpCurrent'
  BY <1>1 DEF OtpIInv, OtpTypeOK, Match, get_json, OtpCurrent
<1>5. OtpSpent'
  BY <1>1 DEF OtpIInv, OtpTypeOK, Match, get_json, OtpSpent
<1>6. OtpUnissued'
  BY <1>1 DEF OtpIInv, OtpUnissued, Match
<1> QED BY <1>2, <1>3, <1>4, <1>5, <1>6 DEF OtpIInv

(* A new code may go to Redis or to the process's dictionary.              *)
LEMMA OtpIssue ==
  ASSUME OtpIInv, NEW p \in Procs, NEW c \in Codes, cache_otp(p, c) PROVE OtpIInv'
<1>1. OtpTypeOK'
  BY DEF OtpIInv, OtpTypeOK, cache_otp, set_json
<1>2. OtpKnown'
  BY DEF OtpIInv, OtpTypeOK, cache_otp, set_json, OtpKnown
<1>3. OtpCurrent'
  BY DEF OtpIInv, OtpTypeOK, cache_otp, set_json, OtpCurrent
<1>4. OtpSpent'
  <2>1. \A q \in Procs : req[q] # c
    BY CodesAssumption DEF OtpIInv, OtpKnown, cache_otp, OtpTypeOK
  <2>2. accepted[c] = 0
    BY DEF OtpIInv, OtpUnissued, cache_otp
  <2>3. outage' = FALSE => outage = FALSE /\ redis' = c
    BY DEF OtpIInv, OtpTypeOK, cache_otp, set_json
  <2> QED BY <2>1, <2>2, <2>3 DEF OtpIInv, OtpSpent, cache_otp, OtpTypeOK
<1>5. OtpUnissued'
  BY DEF OtpIInv, OtpUnissued, cache_otp
<1> QED BY <1>1, <1>2, <1>3, <1>4, <1>5 DEF OtpIInv

(* The request that had the code goes on; the key is deleted.              *)
LEMMA OtpAccept ==
  ASSUME OtpIInv, NEW p \in Procs, Accept(p) PROVE OtpIInv'
<1>0. PICK c : c = req[p]
  OBVIOUS
<1>1. c \in issued /\ c \in Codes
  BY <1>0 DEF OtpIInv, OtpKnown, OtpTypeOK, Accept
<1>2. /\ accepted' = [accepted EXCEPT ![c] = @ + 1]
      /\ req' = [req EXCEPT ![p] = NoCode]
      /\ UNCHANGED <<latest, issued, codesExpired, shared>>
      /\ redis' \in {redis, NoCode}
      /\ outage' \in BOOLEAN
      /\ outage' = FALSE => outage = FALSE /\ redis' = NoCode
      /\ fallback' \in {fallback, [fallback EXCEPT ![p] = NoCode]}
  BY <1>0 DEF Accept, delete_key, OtpIInv, OtpTypeOK
<1>3. OtpTypeOK'
  <2>1. accepted' \in [Codes -> Nat]
    BY <1>1, <1>2 DEF OtpIInv, OtpTypeOK
  <2>2. /\ req' \in [Procs -> Codes \cup {NoCode}]
        /\ fallback' \in [Procs -> Codes \cup {NoCode}]
        /\ redis' \in Codes \cup {NoCode}
    BY <1>2 DEF OtpIInv, OtpTypeOK
  <2> QED BY <1>2, <2>1, <2>2 DEF OtpIInv, OtpTypeOK
<1>4. OtpKnown'
  BY <1>1, <1>2 DEF OtpIInv, OtpTypeOK, OtpKnown
<1>5. OtpCurrent'
  BY <1>2 DEF OtpIInv, OtpTypeOK, OtpCurrent
<1>6. OtpSpent'
  <2> SUFFICES ASSUME ~outage', NEW d \in issued' \ shared'
               PROVE  /\ \A q, r \in Procs : req'[q] = d /\ req'[r] = d => q = r
                      /\ accepted'[d] <= 1
                      /\ accepted'[d] = 1 => redis' # d /\ \A q \in Procs : req'[q] # d
    BY DEF OtpSpent
  <2>1. ~outage /\ redis' = NoCode /\ d \in issued \ shared /\ d \in Codes /\ d # NoCode
    BY <1>2, CodesAssumption DEF OtpIInv, OtpTypeOK
  <2>2. /\ \A q, r \in Procs : req[q] = d /\ req[r] = d => q = r
        /\ accepted[d] <= 1
        /\ accepted[d] = 1 => \A q \in Procs : req[q] # d
    BY <2>1 DEF OtpIInv, OtpSpent
  <2>3. req'[p] = NoCode /\ \A q \in Procs \ {p} : req'[q] = req[q]
    BY <1>2 DEF OtpIInv, OtpTypeOK
  <2>4. accepted[d] \in Nat
    BY <2>1 DEF OtpIInv, OtpTypeOK
  <2>5. CASE d = c
    <3>1. accepted[d] = 0 /\ accepted'[d] = 1
      BY <1>0, <1>1, <1>2, <2>2, <2>4, <2>5 DEF OtpIInv, OtpTypeOK
    <3> QED BY <1>0, <2>1, <2>2, <2>3, <2>5, <3>1
  <2>6. CASE d # c
    <3>1. accepted'[d] = accepted[d]
      BY <1>1, <1>2, <2>1, <2>6 DEF OtpIInv, OtpTypeOK
    <3> QED BY <2>1, <2>2, <2>3, <3>1
  <2> QED BY <2>5, <2>6
<1>7. OtpUnissued'
  BY <1>1, <1>2 DEF OtpIInv, OtpUnissued, OtpTypeOK
<1> QED BY <1>3, <1>4, <1>5, <1>6, <1>7 DEF OtpIInv

(* Every step keeps the invariant.                                         *)
LEMMA OtpStep == OtpIInv /\ [OtpNext]_otpVars => OtpIInv'
<1> SUFFICES ASSUME OtpIInv, [OtpNext]_otpVars PROVE OtpIInv'
  OBVIOUS
<1>1. ASSUME NEW c \in Codes, Expire(c) PROVE OtpIInv'
  <2>1. OtpTypeOK'
    BY <1>1 DEF OtpIInv, OtpTypeOK, Expire
  <2>2. OtpKnown' /\ OtpCurrent'
    BY <1>1 DEF OtpIInv, OtpTypeOK, OtpKnown, OtpCurrent, Expire
  <2>3. OtpSpent' /\ OtpUnissued'
    BY <1>1, CodesAssumption DEF OtpIInv, OtpTypeOK, OtpSpent, OtpUnissued, Expire
  <2> QED BY <2>1, <2>2, <2>3 DEF OtpIInv
<1>2. ASSUME NEW p \in Procs, NEW c \in Codes, cache_otp(p, c) \/ Match(p, c) PROVE OtpIInv'
  BY <1>2, OtpIssue, OtpMatch
<1>3. ASSUME NEW p \in Procs, Accept(p) PROVE OtpIInv'
  BY <1>3, OtpAccept
<1>4. ASSUME NEW p \in Procs, Restart(p) PROVE OtpIInv'
  <2>1. OtpTypeOK'
    BY <1>4 DEF OtpIInv, OtpTypeOK, Restart
  <2>2. OtpKnown' /\ OtpCurrent'
    BY <1>4 DEF OtpIInv, OtpTypeOK, OtpKnown, OtpCurrent, Restart
  <2>3. OtpSpent' /\ OtpUnissued'
    BY <1>4, CodesAssumption DEF OtpIInv, OtpTypeOK, OtpSpent, OtpUnissued, Restart
  <2> QED BY <2>1, <2>2, <2>3 DEF OtpIInv
<1>5. CASE UNCHANGED otpVars
  BY <1>5 DEF otpVars, OtpIInv, OtpTypeOK, OtpKnown, OtpCurrent, OtpSpent, OtpUnissued
<1> QED BY <1>1, <1>2, <1>3, <1>4, <1>5 DEF OtpNext

LEMMA OtpInvariant == OtpSpec => []OtpIInv
BY OtpInitially, OtpStep, PTL DEF OtpSpec

(* The variables keep their types.                                         *)
THEOREM CacheTypeCorrect ==
  OtpSpec => []OtpTypeOK
BY OtpInvariant, PTL DEF OtpIInv

(* A code authorises one request, unless Redis failed or several requests  *)
(* had matched it before the first of them deleted it.                     *)
THEOREM CodeUsedOnce ==
  OtpSpec => []UsedOnce
<1>1. OtpIInv => UsedOnce
  BY DEF OtpIInv, OtpSpent, OtpUnissued, UsedOnce, OtpTypeOK
<1> QED BY <1>1, OtpInvariant, PTL

(* As long as Redis answers, only the last code issued is matched, and     *)
(* only within its ten minutes.                                            *)
THEOREM OnlyCurrentMatches ==
  OtpSpec => MatchedIsCurrent
<1>1. OtpIInv /\ [OtpNext]_otpVars =>
        \A p \in Procs, c \in Codes :
          req[p] = NoCode /\ req'[p] = c /\ ~outage' => c = latest /\ c \notin codesExpired
  <2> SUFFICES ASSUME OtpIInv, [OtpNext]_otpVars, NEW p \in Procs, NEW c \in Codes,
                      req[p] = NoCode, req'[p] = c, ~outage'
               PROVE  c = latest /\ c \notin codesExpired
    OBVIOUS
  <2>1. c # NoCode /\ req' # req /\ req \in [Procs -> Codes \cup {NoCode}]
    BY CodesAssumption DEF OtpIInv, OtpTypeOK
  <2>2. \A q \in Procs : ~Accept(q) /\ ~Restart(q)
    BY <2>1 DEF Accept, Restart
  <2>3. PICK q \in Procs, d \in Codes : Match(q, d)
    BY <2>1, <2>2 DEF OtpNext, otpVars, Expire, cache_otp
  <2>4. q = p /\ d = c
    BY <2>1, <2>3 DEF Match
  <2>5. c = redis /\ ~outage
    BY <2>3, <2>4 DEF Match, get_json
  <2> QED BY <2>1, <2>5 DEF OtpIInv, OtpCurrent
<1> QED BY <1>1, OtpInvariant, PTL DEF OtpSpec, MatchedIsCurrent
=============================================================================
