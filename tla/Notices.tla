-------------------------------- MODULE Notices --------------------------------
(***************************************************************************)
(* Which notifications leave the application (services/notification_       *)
(* service.py, utils/security.py).  Every one leaves a row in the inbox of *)
(* its user; the others only add channels.  Nothing is sent later: what    *)
(* falls into the user's quiet hours stays in the inbox.                   *)
(*                                                                         *)
(* Quiet hours are a pair of times of day, the default 22:00 and 08:00.    *)
(* They are compared with UTC, whatever the user meant.                    *)
(***************************************************************************)
EXTENDS Integers

CRITICAL_TYPES == {"appeal_deadline", "critical_appeal_deadlines", "task_overdue"}
Channels == {"push", "email", "sms"}
DefaultChannels == {"push", "email"}   \* those used unless the user's preferences say no

\* Mutant: the two cases are not told apart.
QuietEitherSide(start, end, current) == current >= start \/ current < end
(* Times are counted from midnight; a start that is not before the end     *)
(* means hours across midnight, equal ones the whole day.                  *)
is_quiet_hours(start, end, current) ==
  IF start < end THEN start <= current /\ current < end
                 ELSE current >= start \/ current < end

(* The channels a message of some type goes out on: critical types ignore  *)
(* the quiet hours, and only they may go by SMS.                           *)
send_notification(ntype, preferred, quiet) ==
  IF quiet /\ ntype \notin CRITICAL_TYPES THEN {}
  ELSE preferred \ (IF ntype \in CRITICAL_TYPES THEN {} ELSE {"sms"})
=============================================================================
