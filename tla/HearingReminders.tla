--------------------------- MODULE HearingReminders ---------------------------
(***************************************************************************)
(* Court hearings (api/sessions.py) and the half-hourly job that reminds   *)
(* their lawyers 48, 24 and 3 hours ahead (session_reminders of            *)
(* tasks/jobs.py).  Nothing records that a window was met: the job relies  *)
(* on running often enough to meet each window at least once.              *)
(*                                                                         *)
(* Time is in ticks of six minutes.  now is when the latest run started;   *)
(* requests come between runs or while one works.  A run loads the rows at *)
(* its start, sends messages at once and commits the inbox rows at its end.*)
(***************************************************************************)
EXTENDS Notices

CONSTANTS Hearings,      \* ids of sessions rows
          Day,           \* ticks in a day
          Windows,       \* 48, 24 and 3 hours
          Slack,         \* 0.6 hours
          Dates, Times,  \* session dates, and times within the day (0: none given)
          Gaps,          \* ticks between two starts of the job
          QuietHours,    \* pairs a lawyer sets as quiet hours
          Origin, Horizon, \* bounds on now
          MaxCrashes     \* bound on crashes of the worker

Ahead == 2 * Day         \* timedelta(hours=48)

(* What the code's numbers have in common: starts no further apart than    *)
(* half a window, no window but the first reaching beyond two days.        *)
ASSUME CalendarAssumption ==
  /\ Day \in Nat \ {0} /\ Slack \in Nat
  /\ Dates \subseteq Nat /\ Times \subseteq 0 .. Day - 1
  /\ Windows \subseteq Nat /\ \A w \in Windows : w = Ahead \/ w + Slack <= Ahead
  /\ Gaps \subseteq 0 .. Slack
  /\ QuietHours \subseteq (0 .. Day - 1) \X (0 .. Day - 1)
ASSUME BoundsAssumption == Origin \in Nat /\ Horizon \in Nat /\ Origin <= Horizon /\ MaxCrashes \in Nat

VARIABLES now,
          start,      \* when each existing hearing starts
          reachable,  \* hearings whose case is in the office, with an active lawyer
          job,        \* the run in progress
          rows,       \* hearings and windows with a committed notification row
          quiet,      \* the quiet hours of the lawyer's row
          heard,      \* hearings and windows a message went out for
          due,        \* windows that opened only after hearing and lawyers took their present form
          lost,       \* how many runs crashed that had loaded a window that is due
          crashes

vars == <<now, start, reachable, job, rows, quiet, heard, due, lost, crashes>>

NoRun == [running |-> FALSE]
NotLoaded == <<>>
Hits == Hearings \X Windows
Run == [running : {TRUE}, loaded : SUBSET Hits, todo : SUBSET Hits, hit : SUBSET Hits,
        lawyer : QuietHours \cup {NotLoaded}]

TypeOK ==
  /\ now \in Origin .. Horizon
  /\ DOMAIN start \subseteq Hearings /\ start \in [DOMAIN start -> Nat]
  /\ reachable \subseteq Hearings
  /\ job \in Run \cup {NoRun}
  /\ rows \subseteq Hits
  /\ due \subseteq Hits /\ heard \subseteq Hits /\ quiet \in QuietHours
  /\ crashes \in 0 .. MaxCrashes /\ lost \in [Hits -> 0 .. crashes]

Init ==
  /\ now = Origin /\ start = <<>> /\ reachable = Hearings
  /\ job = NoRun
  /\ quiet \in QuietHours
  /\ rows = {} /\ heard = {} /\ due = {}
  /\ crashes = 0 /\ lost = [h \in Hits |-> 0]

-----------------------------------------------------------------------------
\* Windows of a hearing that have yet to open.
Opening(s, t) == {s} \X {w \in Windows : now < t - w - Slack}
DueWithout(s) == {h \in due : h[1] # s}
NothingLost(s) == [h \in Hits |-> IF h[1] = s THEN 0 ELSE lost[h]]

(* Hearing s is entered, or moved: what was sent and the run's work on the *)
(* old row no longer concern it.                                           *)
Put(s, t) ==
  /\ start' = [x \in DOMAIN start \cup {s} |-> IF x = s THEN t ELSE start[x]]
  /\ rows' = {h \in rows : h[1] # s}
  /\ heard' = {h \in heard : h[1] # s}
  /\ due' = DueWithout(s) \cup (IF s \in reachable THEN Opening(s, t) ELSE {})
  /\ lost' = NothingLost(s)
  /\ job' = IF job.running
              THEN [job EXCEPT !.loaded = {h \in @ : h[1] # s}, !.hit = {h \in @ : h[1] # s}]
              ELSE job
  /\ UNCHANGED <<now, reachable, quiet, crashes>>

create_session(s, d, t) == s \notin DOMAIN start /\ Put(s, d * Day + t)

update_session(s, d, t) == s \in DOMAIN start /\ Put(s, d * Day + t)

(* record_result, postponed with a date: a next hearing at the same hour,  *)
(* each time it is recorded.  The postponed one keeps its date and windows.*)
record_result(s, d, n) ==
  /\ s \in DOMAIN start
  /\ n \notin DOMAIN start
  /\ Put(n, d * Day + (start[s] % Day))

(* Lawyers are appointed, replaced, deactivated.                           *)
StaffChanges(s) ==
  /\ s \in DOMAIN start
  /\ IF s \in reachable
       THEN reachable' = reachable \ {s} /\ due' = DueWithout(s)
       ELSE reachable' = reachable \cup {s} /\ due' = due \cup Opening(s, start[s])
  /\ lost' = NothingLost(s)
  /\ UNCHANGED <<now, start, job, rows, quiet, heard, crashes>>

(* set_quiet_hours, by the lawyer of all these cases.                      *)
set_quiet_hours(hours) ==
  /\ quiet' = hours
  /\ UNCHANGED <<now, start, reachable, job, rows, heard, due, lost, crashes>>

-----------------------------------------------------------------------------
\* Mutant: < for <= on the date.
LoadedBefore(t, at) == t \div Day < (at + Ahead) \div Day
(* The job's query compares dates, not times.                              *)
Loaded(t, at) == t \div Day <= (at + Ahead) \div Day

\* Mutant: the hours left instead of the window.
HoursLeft(t, at) == {t - at} \cap {x + y : x \in Windows, y \in (0 - Slack) .. Slack}
(* The window a hearing at t is in, if any; past ones are in none.         *)
Window(t, at) == {w \in Windows : w - Slack <= t - at /\ t - at <= w + Slack}

JobStart(gap) ==
  /\ ~job.running
  /\ now + gap <= Horizon
  /\ now' = now + gap
  /\ LET met == UNION {{s} \X Window(start[s], now') : s \in {x \in DOMAIN start : Loaded(start[x], now')}}
     IN  job' = [running |-> TRUE, loaded |-> met, todo |-> met, hit |-> {},
                    lawyer |-> NotLoaded]
  /\ UNCHANGED <<start, reachable, rows, quiet, heard, due, lost, crashes>>

(* One iteration: case and lawyer are looked up now, but the session keeps *)
(* the lawyer's row as it first loaded it.  The message goes out at once   *)
(* if it goes at all, its inbox row waits for the commit.  The clock that  *)
(* send_notification reads is taken to stand still while the job runs.     *)
Sent(hours) ==
  send_notification("session_reminder", DefaultChannels,
                    is_quiet_hours(hours[1], hours[2], now % Day)) # {}
JobRemind(h) ==
  LET reminded == h[1] \in reachable /\ h \in job.loaded
      hours    == IF job.lawyer = NotLoaded THEN quiet ELSE job.lawyer
  IN
  /\ job.running
  /\ h \in job.todo
  /\ IF reminded
       THEN /\ job' = [job EXCEPT !.todo = @ \ {h}, !.hit = @ \cup {h}, !.lawyer = hours]
            /\ heard' = IF Sent(hours) THEN heard \cup {h} ELSE heard
       ELSE /\ job' = [job EXCEPT !.todo = @ \ {h}]
            /\ UNCHANGED heard
  /\ UNCHANGED <<now, start, reachable, rows, quiet, due, lost, crashes>>

JobCommit ==
  /\ job.running /\ job.todo = {}
  /\ rows' = rows \cup job.hit
  /\ job' = NoRun
  /\ UNCHANGED <<now, start, reachable, quiet, heard, due, lost, crashes>>

(* The worker dies, or the text service fails: the next run starts anew.   *)
JobCrash ==
  /\ job.running /\ crashes < MaxCrashes
  /\ crashes' = crashes + 1
  /\ lost' = [h \in Hits |-> IF h \in job.loaded \cap due THEN lost[h] + 1 ELSE lost[h]]
  /\ job' = NoRun
  /\ UNCHANGED <<now, start, reachable, rows, quiet, heard, due>>

Next ==
  \/ \E s \in Hearings, d \in Dates :
       \/ \E t \in Times : create_session(s, d, t) \/ update_session(s, d, t)
       \/ \E n \in Hearings : record_result(s, d, n)
  \/ \E s \in Hearings : StaffChanges(s)
  \/ \E hours \in QuietHours : set_quiet_hours(hours)
  \/ \E gap \in Gaps : JobStart(gap)
  \/ \E h \in Hits : JobRemind(h)
  \/ JobCommit \/ JobCrash

Spec == Init /\ [][Next]_vars

-----------------------------------------------------------------------------
(* The first 36 minutes of a day, where hearings without a time are: the   *)
(* date comparison loads their 48-hour reminder in the second half of its  *)
(* window only.                                                            *)
LoadedLate(t, w) == w = Ahead /\ t % Day < Slack

(* With starts at most Slack apart every window of a hearing is loaded by  *)
(* two runs, or by one if it is loaded late: its row is in the inbox when  *)
(* the window closes unless all of these crashed.                          *)
Spare(t, w) == IF LoadedLate(t, w) THEN 0 ELSE 1
WindowsMet ==
  \A h \in due :
    LET t == start[h[1]]
    IN  ~job.running /\ now > t - h[2] + Slack => h \in rows \/ lost[h] > Spare(t, h[2])

(* The times a clock that wraps at midnight shows from start to end.       *)
Between(from, end, at) == from = end \/ (at - from) % Day < (end - from) % Day

(* A window that no quiet hours the lawyer sets touch is announced outside *)
(* the application too.  The 48 and 24-hour ones are at the hour of the    *)
(* hearing itself, so hours that reach to the first hearings of the day    *)
(* leave a lawyer nothing but the inbox.                                   *)
HeardUnlessQuiet ==
  \A h \in due :
    LET t == start[h[1]]
        audible == \A at \in t - h[2] - Slack .. t - h[2] + Slack, hours \in QuietHours :
                      ~Between(hours[1], hours[2], at)
    IN  ~job.running /\ now > t - h[2] + Slack /\ audible => h \in heard \/ lost[h] > Spare(t, h[2])
=============================================================================
