------------------------------- MODULE Sessions -------------------------------
(***************************************************************************)
(* Passwords, refresh-token sessions, access tokens and what they let a    *)
(* request do (api/auth.py, users.py, services/auth_service.py,            *)
(* utils/decorators.py).  A login verifies the password on the row it      *)
(* loaded and inserts its session in a later commit; a reset or a change   *)
(* stores the new hash in a later commit too.  The UPDATE of the user row, *)
(* which each of these commits starts with, orders them.  A refresh looks  *)
(* its session up and mints an access token afterwards, in no transaction  *)
(* with the lookup.  Access tokens are signed, not stored: nothing revokes *)
(* one, but each request loads its user again and takes the role from that *)
(* row, not from the token.                                                *)
(*                                                                         *)
(* A password is the number of times the user's hash had been stored when  *)
(* it was stored.  Mail codes are OtpCache's subject: here a code is there *)
(* until it is consumed or expires.                                        *)
(***************************************************************************)
EXTENDS Naturals, FiniteSets

CONSTANTS Workers, Users,
          Ids,          \* session row ids
          MaxPassword   \* bound on stored passwords per user

ASSUME BoundAssumption == MaxPassword \in Nat

VARIABLES password,  \* the stored password of each user
          active,    \* users with is_active set
          permitted, \* users whose role has the permission that requests ask for
          codes,     \* users with a reset code in the cache
          sessions,  \* committed rows: id -> the user and the password proved
          expired,   \* ids of sessions past their 30 days
          tokens,    \* access tokens younger than their hour
          web,       \* the request each worker serves
          lastReset, \* the password stored by the user's last reset
          straddled, \* workers whose login or refresh was under way when a
                     \* reset of that user committed
          barred     \* workers whose user lost access or permission while they served it

access == <<active, permitted>>
login_state == <<password, codes, sessions, expired, tokens, lastReset>>
vars == <<access, login_state, web, straddled, barred>>

Idle == [op |-> "idle"]
Passwords == 0 .. MaxPassword
Session == [user : Users, proved : Passwords, late : BOOLEAN]
\* since: the user's last reset when the token was issued.
Token == [user : Users, proved : Passwords, since : Passwords, late : BOOLEAN]
Request == [op : {"login", "change"}, user : Users, proved : Passwords]
             \cup [op : {"refresh"}, user : Users, proved : Passwords, late : BOOLEAN]
             \cup [op : {"reset", "write"}, user : Users]

TypeOK ==
  /\ password \in [Users -> Passwords] /\ lastReset \in [Users -> Passwords]
  /\ active \subseteq Users /\ permitted \subseteq Users /\ codes \subseteq Users
  /\ DOMAIN sessions \subseteq Ids /\ sessions \in [DOMAIN sessions -> Session]
  /\ expired \subseteq Ids /\ tokens \subseteq Token
  /\ web \in [Workers -> Request \cup {Idle}]
  /\ straddled \subseteq Workers /\ barred \subseteq Workers

Init ==
  /\ password = [u \in Users |-> 0] /\ lastReset = [u \in Users |-> 0]
  /\ active = Users /\ permitted = Users /\ codes = {}
  /\ sessions = <<>> /\ expired = {} /\ tokens = {}
  /\ web = [w \in Workers |-> Idle]
  /\ straddled = {} /\ barred = {}

Start(w, q) == web[w] = Idle /\ web' = [web EXCEPT ![w] = q]
Finish(w) ==
  /\ web' = [web EXCEPT ![w] = Idle]
  /\ straddled' = straddled \ {w} /\ barred' = barred \ {w}

SessionsOf(u) == {i \in DOMAIN sessions : sessions[i].user = u}
Without(I) == [i \in DOMAIN sessions \ I |-> sessions[i]]
Issued(u, proved, late) ==
  [user |-> u, proved |-> proved, since |-> lastReset[u], late |-> late]

\* Mutant: the token alone is trusted.
TokenHeld(u) == \E t \in tokens : t.user = u
(* auth_required: a live token, and the user it names is active now.       *)
Authenticated(u) == u \in active /\ \E t \in tokens : t.user = u

(* The role of the user's row has the permission that the handler asks for.*)
has_permission(u) == u \in permitted

(* is_refresh_token_active, and the user must still be active.             *)
Refreshable(i) == i \in DOMAIN sessions \ expired /\ sessions[i].user \in active

-----------------------------------------------------------------------------
(* login: an active user whose stored password is the one presented ...    *)
login(w, u) ==
  /\ u \in active
  /\ Start(w, [op |-> "login", user |-> u, proved |-> password[u]])
  /\ UNCHANGED <<access, login_state, straddled, barred>>

(* ... gets a session, inserted together with last_login_at, and a token.  *)
CreateSession(w, i) ==
  /\ web[w].op = "login"
  /\ i \notin DOMAIN sessions \cup expired
  /\ LET u == web[w].user
         s == [user |-> u, proved |-> web[w].proved, late |-> w \in straddled] IN
       /\ sessions' = [j \in DOMAIN sessions \cup {i} |-> IF j = i THEN s ELSE sessions[j]]
       /\ tokens' = tokens \cup {Issued(u, s.proved, s.late)}
  /\ Finish(w)
  /\ UNCHANGED <<access, password, codes, expired, lastReset>>

(* refresh: the session is stored and not expired, its user active ...     *)
refresh(w, i) ==
  /\ Refreshable(i)
  /\ Start(w, [op |-> "refresh", user |-> sessions[i].user,
               proved |-> sessions[i].proved, late |-> sessions[i].late])
  /\ UNCHANGED <<access, login_state, straddled, barred>>

(* ... and a token is minted, whatever has become of the session since.    *)
IssueToken(w) ==
  /\ web[w].op = "refresh"
  /\ tokens' = tokens \cup
       {Issued(web[w].user, web[w].proved, web[w].late \/ w \in straddled)}
  /\ Finish(w)
  /\ UNCHANGED <<access, password, codes, sessions, expired, lastReset>>

TokenExpires(t) ==
  /\ tokens' = tokens \ {t}
  /\ UNCHANGED <<access, password, codes, sessions, expired, lastReset, web, straddled, barred>>

\* Mutant: the code is filed under the password instead of the user.
forgot_misfiled(u) ==
  /\ u \in active
  /\ codes' = codes \cup {password[u]}
  /\ UNCHANGED <<access, password, sessions, expired, tokens, lastReset, web, straddled, barred>>

forgot_password(u) ==
  /\ u \in active
  /\ codes' = codes \cup {u}
  /\ UNCHANGED <<access, password, sessions, expired, tokens, lastReset, web, straddled, barred>>

CodeExpires(u) ==
  /\ u \in codes
  /\ codes' = codes \ {u}
  /\ UNCHANGED <<access, password, sessions, expired, tokens, lastReset, web, straddled, barred>>

(* reset_password: the code is consumed and the active user loaded ...     *)
reset_password(w, u) ==
  /\ u \in codes
  /\ codes' = codes \ {u}
  /\ IF u \in active THEN Start(w, [op |-> "reset", user |-> u])
     ELSE web[w] = Idle /\ UNCHANGED web
  /\ UNCHANGED <<access, password, sessions, expired, tokens, lastReset, straddled, barred>>

\* Mutant: only expired sessions are revoked.
RevokeExpired(u) == Without(SessionsOf(u) \cap expired)
(* revoke_all_sessions                                                     *)
revoke_all_sessions(u) == Without(SessionsOf(u))

(* ... the new hash is stored and all the user's sessions are deleted.     *)
CommitReset(w) ==
  LET u == web[w].user IN
  /\ web[w].op = "reset"
  /\ password[u] < MaxPassword
  /\ password' = [password EXCEPT ![u] = @ + 1]
  /\ lastReset' = [lastReset EXCEPT ![u] = password[u] + 1]
  /\ sessions' = revoke_all_sessions(u)
  /\ web' = [web EXCEPT ![w] = Idle]
  /\ straddled' = straddled \cup
       {v \in Workers : web[v].op \in {"login", "refresh"} /\ web[v].user = u}
  /\ barred' = barred \ {w}
  /\ UNCHANGED <<access, codes, expired, tokens>>

(* change_password: the old one is verified; sessions and tokens are kept. *)
change_password(w, u) ==
  /\ Authenticated(u)
  /\ Start(w, [op |-> "change", user |-> u, proved |-> password[u]])
  /\ UNCHANGED <<access, login_state, straddled, barred>>

CommitChange(w) ==
  LET u == web[w].user IN
  /\ web[w].op = "change"
  /\ password[u] < MaxPassword
  /\ password' = [password EXCEPT ![u] = @ + 1]
  /\ Finish(w)
  /\ UNCHANGED <<access, codes, sessions, expired, tokens, lastReset>>

-----------------------------------------------------------------------------
(* require_permission, before any handler that writes ...                  *)
require_permission(w, u) ==
  /\ Authenticated(u) /\ has_permission(u)
  /\ Start(w, [op |-> "write", user |-> u])
  /\ UNCHANGED <<access, login_state, straddled, barred>>

(* ... and the handler's commit.                                           *)
CommitWrite(w) ==
  /\ web[w].op = "write"
  /\ Finish(w)
  /\ UNCHANGED <<access, login_state>>

(* deactivate_member; nobody is ever reactivated.                          *)
Bar(u) == barred' = barred \cup {w \in Workers : web[w] # Idle /\ web[w].user = u}
deactivate_member(u) ==
  /\ u \in active
  /\ active' = active \ {u}
  /\ Bar(u)
  /\ UNCHANGED <<permitted, login_state, web, straddled>>

(* update_member: the new role has the permission or it has not.           *)
update_member(u) ==
  /\ u \in active
  /\ \/ permitted' = permitted \cup {u} /\ UNCHANGED barred
     \/ permitted' = permitted \ {u} /\ Bar(u)
  /\ UNCHANGED <<active, login_state, web, straddled>>

-----------------------------------------------------------------------------
(* logout and terminate_session delete one row, logout_all the user's.     *)
logout(i) ==
  /\ i \in DOMAIN sessions
  /\ Authenticated(sessions[i].user)
  /\ sessions' = Without({i})
  /\ UNCHANGED <<access, password, codes, expired, tokens, lastReset, web, straddled, barred>>

logout_all(u) ==
  /\ Authenticated(u)
  /\ sessions' = revoke_all_sessions(u)
  /\ UNCHANGED <<access, password, codes, expired, tokens, lastReset, web, straddled, barred>>

SessionExpires(i) ==
  /\ i \in DOMAIN sessions \ expired
  /\ expired' = expired \cup {i}
  /\ UNCHANGED <<access, password, codes, sessions, tokens, lastReset, web, straddled, barred>>

(* The worker dies before its commit.                                      *)
Abandon(w) ==
  /\ web[w] # Idle
  /\ Finish(w)
  /\ UNCHANGED <<access, login_state>>

Next ==
  \/ \E w \in Workers :
       \/ \E u \in Users :
            login(w, u) \/ reset_password(w, u) \/ change_password(w, u) \/ require_permission(w, u)
       \/ \E i \in Ids : CreateSession(w, i) \/ refresh(w, i)
       \/ IssueToken(w) \/ CommitReset(w) \/ CommitChange(w) \/ CommitWrite(w) \/ Abandon(w)
  \/ \E u \in Users :
       \/ forgot_password(u) \/ CodeExpires(u) \/ logout_all(u)
       \/ deactivate_member(u) \/ update_member(u)
  \/ \E i \in Ids : logout(i) \/ SessionExpires(i)
  \/ \E t \in tokens : TokenExpires(t)

Spec == Init /\ [][Next]_vars

-----------------------------------------------------------------------------
(* An access token issued since the last reset, by login or by refresh of  *)
(* a session, goes back to a password stored by that reset or later, unless*)
(* its login or its refresh was under way when the reset committed: no     *)
(* request that starts after the reset gets one with an earlier password   *)
(* or session, except from a session that such a login left behind.        *)
TokensProveReset ==
  \A t \in tokens : t.since = lastReset[t.user] => t.proved >= t.since \/ t.late

(* A write commits for a user who is deactivated or whose role forbids it  *)
(* only if that changed while the request was being served: tokens issued  *)
(* before carry no rights of their own.                                    *)
WritesAuthorised ==
  [][\A w \in Workers : CommitWrite(w) /\ w \notin barred =>
       web[w].user \in active \cap permitted]_vars
=============================================================================
