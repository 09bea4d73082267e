--------------------------- MODULE AppealReminders ---------------------------
(***************************************************************************)
(* The appeal deadline of a judgment and its reminders: track_appeal and   *)
(* update_judgment (api/judgments.py) against the daily job                *)
(* appeal_deadline_reminders (tasks/jobs.py).                              *)
(*                                                                         *)
(* The job loads the unsent reminders that are due, sends each one's       *)
(* messages at once, and stores all the sent flags in one commit at the    *)
(* end.  A crash in between forgets the flags, not the messages.  It goes  *)
(* by the rows alone: the deadline column of the judgment is not kept here.*)
(*                                                                         *)
(* The API takes the case of a judgment as it comes: it may belong to      *)
(* another office, and then the job passes over the judgment's reminders,  *)
(* for as long as nobody corrects it.  The rows of many judgments are in   *)
(* no order, and the ORM does not refresh a judgment it still holds: an    *)
(* iteration goes by the case as it is now, or as one before it in the run *)
(* has read it.                                                            *)
(***************************************************************************)
EXTENDS Calendar, FiniteSets

CONSTANTS Offsets,     \* days before the deadline: 30, 14, 7 and 3 in the code
          Deadlines,   \* appeal deadlines a lawyer enters, as day numbers
          MaxTracks,   \* bound on track-appeal requests
          MaxAppealCrashes \* bound on crashes of the worker

ASSUME AppealAssumption == Offsets \subseteq Int /\ Deadlines \subseteq Int
ASSUME AppealBoundsAssumption == MaxTracks \in Nat /\ MaxAppealCrashes \in Nat

Reminders == (1 .. MaxTracks) \X Offsets

VARIABLES remindAt,    \* reminder rows: the day each is due
          sent,        \* rows whose sent flag is committed
          caseInOffice, \* judgments.case_id names a case of the judgment's office
          hasRecipient, \* the case has an active lawyer or owner to notify
          appealRun,   \* the run in progress
          delivered,   \* how often each reminder's messages went out
          appealCrashes

appealVars == <<today, remindAt, sent, caseInOffice, hasRecipient, appealRun, delivered, appealCrashes>>

NoAppealRun == [running |-> FALSE]
\* read: whether the last iteration found the case, if there was one.
AppealRun ==
  [running : {TRUE}, todo : SUBSET Reminders, done : SUBSET Reminders, read : SUBSET BOOLEAN]
Tracks == Cardinality({r[1] : r \in DOMAIN remindAt})

AppealTypeOK ==
  /\ today \in 0 .. LastDay
  /\ DOMAIN remindAt \subseteq Reminders /\ remindAt \in [DOMAIN remindAt -> Int]
  /\ sent \subseteq DOMAIN remindAt
  /\ hasRecipient \in BOOLEAN /\ caseInOffice \in BOOLEAN
  /\ appealRun \in {NoAppealRun} \cup AppealRun
  /\ delivered \in [Reminders -> 0 .. 1 + MaxAppealCrashes]
  /\ appealCrashes \in 0 .. MaxAppealCrashes

AppealInit ==
  /\ today = 0
  /\ remindAt = <<>> /\ sent = {} /\ caseInOffice \in BOOLEAN /\ hasRecipient = TRUE
  /\ appealRun = NoAppealRun
  /\ delivered = [r \in Reminders |-> 0]
  /\ appealCrashes = 0

-----------------------------------------------------------------------------
(* track_appeal adds a row per offset each time; earlier rows stay, whatever the  *)
(* new deadline, and dates already past are entered all the same.          *)
track_appeal(d) ==
  /\ Tracks < MaxTracks
  /\ remindAt' = [r \in DOMAIN remindAt \cup ({Tracks + 1} \X Offsets) |->
       IF r \in DOMAIN remindAt THEN remindAt[r] ELSE d - r[2]]
  /\ UNCHANGED <<today, sent, caseInOffice, hasRecipient, appealRun, delivered, appealCrashes>>

(* update_judgment may give the judgment another case, and another         *)
(* deadline, but the rows keep their dates.                                *)
update_judgment ==
  /\ caseInOffice' \in BOOLEAN
  /\ UNCHANGED <<today, remindAt, sent, hasRecipient, appealRun, delivered, appealCrashes>>

(* The last active recipient is deactivated, or one is appointed.          *)
RecipientsChange ==
  /\ hasRecipient' = ~hasRecipient
  /\ UNCHANGED <<today, remindAt, sent, caseInOffice, appealRun, delivered, appealCrashes>>

AppealDayPasses ==
  /\ DayPasses
  /\ UNCHANGED <<remindAt, sent, caseInOffice, hasRecipient, appealRun, delivered, appealCrashes>>

-----------------------------------------------------------------------------
\* Mutant: sent rows are loaded again.
DueAgain == {r \in DOMAIN remindAt : remindAt[r] <= today}
\* Mutant: only the rows of this very day are loaded.
DueToday == {r \in DOMAIN remindAt \ sent : remindAt[r] = today}
(* Reminder rows with sent = false and remind_at <= now.                   *)
Due == {r \in DOMAIN remindAt \ sent : remindAt[r] <= today}

AppealJobStart ==
  /\ ~appealRun.running
  /\ Due # {}
  /\ appealRun' = [running |-> TRUE, todo |-> Due, done |-> {}, read |-> {}]
  /\ UNCHANGED <<today, remindAt, sent, caseInOffice, hasRecipient, delivered, appealCrashes>>

(* One iteration: the messages go out, the flag is set in the session; a   *)
(* reminder nobody can receive is flagged too ...                          *)
CaseRead == appealRun.read \cup {caseInOffice}
AppealJobRemind(r) ==
  /\ appealRun.running
  /\ r \in appealRun.todo
  /\ TRUE \in CaseRead
  /\ delivered' = [delivered EXCEPT ![r] = IF hasRecipient THEN @ + 1 ELSE @]
  /\ appealRun' = [appealRun EXCEPT !.todo = @ \ {r}, !.done = @ \cup {r}, !.read = {TRUE}]
  /\ UNCHANGED <<today, remindAt, sent, caseInOffice, hasRecipient, appealCrashes>>

(* ... but one whose case is not in its office is passed over, unflagged.  *)
AppealJobSkip(r) ==
  /\ appealRun.running
  /\ r \in appealRun.todo
  /\ FALSE \in CaseRead
  /\ appealRun' = [appealRun EXCEPT !.todo = @ \ {r}, !.read = {FALSE}]
  /\ UNCHANGED <<today, remindAt, sent, caseInOffice, hasRecipient, delivered, appealCrashes>>

\* Mutant: only the last iteration's row is flagged.
CommitOne ==
  /\ appealRun.running /\ appealRun.todo = {}
  /\ \E r \in appealRun.done : sent' = sent \cup {r}
  /\ appealRun' = NoAppealRun
  /\ UNCHANGED <<today, remindAt, caseInOffice, hasRecipient, delivered, appealCrashes>>

AppealJobCommit ==
  /\ appealRun.running /\ appealRun.todo = {}
  /\ sent' = sent \cup appealRun.done
  /\ appealRun' = NoAppealRun
  /\ UNCHANGED <<today, remindAt, caseInOffice, hasRecipient, delivered, appealCrashes>>

AppealJobCrash ==
  /\ appealRun.running /\ appealCrashes < MaxAppealCrashes
  /\ appealCrashes' = appealCrashes + 1
  /\ appealRun' = NoAppealRun
  /\ UNCHANGED <<today, remindAt, sent, caseInOffice, hasRecipient, delivered>>

AppealNext ==
  \/ \E d \in Deadlines : track_appeal(d)
  \/ update_judgment
  \/ RecipientsChange
  \/ AppealDayPasses
  \/ AppealJobStart
  \/ \E r \in Reminders : AppealJobRemind(r) \/ AppealJobSkip(r)
  \/ AppealJobCommit
  \/ AppealJobCrash

(* Beat starts the job daily and the worker finishes what it started.      *)
AppealFairness ==
  /\ WF_appealVars(AppealJobStart)
  /\ WF_appealVars(\E r \in Reminders : AppealJobRemind(r) \/ AppealJobSkip(r))
  /\ WF_appealVars(AppealJobCommit)

AppealSpec == AppealInit /\ [][AppealNext]_appealVars /\ AppealFairness

-----------------------------------------------------------------------------
(* A reminder goes out again only after a crash, which took its flag with  *)
(* it: never more often than once and once for every crash so far.         *)
ResentOnlyAfterCrash == \A r \in Reminders : delivered[r] <= 1 + appealCrashes

(* Every reminder that falls due is settled in the end, also one entered   *)
(* after its day, one whose run crashed, and one passed over by earlier    *)
(* runs -- unless the judgment's case is, at some later time again, not in *)
(* the office.                                                             *)
EveryReminderSettled ==
  \A r \in Reminders :
    (r \in DOMAIN remindAt /\ remindAt[r] <= today) ~> (r \in sent \/ ~caseInOffice)
=============================================================================
