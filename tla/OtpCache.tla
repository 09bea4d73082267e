------------------------------- MODULE OtpCache -------------------------------
(***************************************************************************)
(* One cache key holding a one-time code: services/cache.py with           *)
(* cache_otp and validate_cached_otp of services/auth_service.py.          *)
(*                                                                         *)
(* Redis drops the key 600 seconds after it is set.  When a Redis call     *)
(* raises, the web process uses a dictionary of its own instead: it has no *)
(* expiry, no other process sees it and a restart empties it.  Any single  *)
(* call may raise; validating is three calls (get, compare, delete) that   *)
(* other processes interleave with.                                        *)
(***************************************************************************)
EXTENDS Naturals

CONSTANTS Procs,     \* web processes
          Codes,     \* codes that may be issued, each once
          MaxUses    \* bound on the requests one code may authorise

NoCode == "none"

ASSUME CodesAssumption == NoCode \notin Codes

VARIABLES redis,     \* the key's value in Redis
          fallback,  \* the key's value in each process's dictionary
          latest,    \* the code issued last
          issued,    \* all codes issued
          codesExpired, \* codes older than their ten minutes
          req,       \* the code each process has matched but not yet deleted
          accepted,  \* how many requests each code has authorised
          shared,    \* codes two requests had matched at the same time
          outage     \* a Redis call has failed at least once

otpVars == <<redis, fallback, latest, issued, codesExpired, req, accepted, shared, outage>>

OtpTypeOK ==
  /\ redis \in Codes \cup {NoCode}
  /\ fallback \in [Procs -> Codes \cup {NoCode}]
  /\ latest \in Codes \cup {NoCode}
  /\ issued \subseteq Codes /\ codesExpired \subseteq issued /\ shared \subseteq issued
  /\ req \in [Procs -> Codes \cup {NoCode}]
  /\ accepted \in [Codes -> Nat]
  /\ outage \in BOOLEAN

OtpInit ==
  /\ redis = NoCode /\ latest = NoCode
  /\ fallback = [p \in Procs |-> NoCode]
  /\ issued = {} /\ codesExpired = {} /\ shared = {}
  /\ req = [p \in Procs |-> NoCode]
  /\ accepted = [c \in Codes |-> 0]
  /\ outage = FALSE

-----------------------------------------------------------------------------
(* set_json / get_json / delete_key: Redis, or on RedisError the process's *)
(* dictionary.  Setting or deleting one leaves the other as it was.        *)
set_json(p, c) ==
  \/ redis' = c /\ UNCHANGED <<fallback, outage>>
  \/ fallback' = [fallback EXCEPT ![p] = c] /\ outage' = TRUE /\ UNCHANGED redis

get_json(p, c) ==
  \/ c = redis /\ UNCHANGED outage
  \/ c = fallback[p] /\ outage' = TRUE

\* Mutant: the key is left in place.
delete_nothing(p) == UNCHANGED <<redis, fallback, outage>>
\* Mutant: a JSON null is stored instead.
store_null(p) == redis' = "null" /\ UNCHANGED <<fallback, outage>>
delete_key(p) ==
  \/ redis' = NoCode /\ UNCHANGED <<fallback, outage>>
  \/ fallback' = [fallback EXCEPT ![p] = NoCode] /\ outage' = TRUE /\ UNCHANGED redis

-----------------------------------------------------------------------------
(* register and forgot_password issue a code over any earlier one.         *)
cache_otp(p, c) ==
  /\ req[p] = NoCode
  /\ c \notin issued
  /\ issued' = issued \cup {c}
  /\ latest' = c
  /\ set_json(p, c)
  /\ UNCHANGED <<codesExpired, req, accepted, shared>>

\* Mutant: setex without a lifetime.
ExpireNowhere(c) ==
  /\ c \in issued \ codesExpired
  /\ codesExpired' = codesExpired \cup {c}
  /\ UNCHANGED <<redis, fallback, latest, issued, req, accepted, shared, outage>>

(* 600 seconds after it was issued; only Redis forgets it.                 *)
Expire(c) ==
  /\ c \in issued \ codesExpired
  /\ codesExpired' = codesExpired \cup {c}
  /\ redis' = IF redis = c THEN NoCode ELSE redis
  /\ UNCHANGED <<fallback, latest, issued, req, accepted, shared, outage>>

(* validate_cached_otp: the caller's code c is the stored one ...          *)
Match(p, c) ==
  /\ req[p] = NoCode
  /\ accepted[c] < MaxUses
  /\ get_json(p, c)
  /\ req' = [req EXCEPT ![p] = c]
  /\ shared' = IF \E q \in Procs : req[q] = c THEN shared \cup {c} ELSE shared
  /\ UNCHANGED <<redis, fallback, latest, issued, codesExpired, accepted>>

(* ... so the key is deleted, whatever it holds by now, and the request    *)
(* goes on with the payload.                                               *)
Accept(p) ==
  /\ req[p] # NoCode
  /\ delete_key(p)
  /\ accepted' = [accepted EXCEPT ![req[p]] = @ + 1]
  /\ req' = [req EXCEPT ![p] = NoCode]
  /\ UNCHANGED <<latest, issued, codesExpired, shared>>

(* A process restarts with an empty dictionary.                            *)
Restart(p) ==
  /\ fallback[p] # NoCode \/ req[p] # NoCode
  /\ fallback' = [fallback EXCEPT ![p] = NoCode]
  /\ req' = [req EXCEPT ![p] = NoCode]
  /\ UNCHANGED <<redis, latest, issued, codesExpired, accepted, shared, outage>>

OtpNext ==
  \/ \E c \in Codes : Expire(c)
  \/ \E p \in Procs, c \in Codes :
       cache_otp(p, c) \/ Match(p, c)
  \/ \E p \in Procs : Accept(p) \/ Restart(p)

OtpSpec == OtpInit /\ [][OtpNext]_otpVars

-----------------------------------------------------------------------------
(* As long as Redis answers every call, a code is matched only while it is *)
(* the last one issued and younger than ten minutes: deletions, reissues   *)
(* and expiry in any order bring no older code back.                       *)
MatchedIsCurrent ==
  [][\A p \in Procs, c \in Codes :
       req[p] = NoCode /\ req'[p] = c /\ ~outage'
         => c = latest /\ c \notin codesExpired]_otpVars

(* ... and it authorises one request, except when several had matched it   *)
(* before the first of them deleted it.                                    *)
UsedOnce == \A c \in Codes : accepted[c] > 1 => outage \/ c \in shared

=============================================================================
