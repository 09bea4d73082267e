------------------------------ MODULE Jobs_proofs ------------------------------
(***************************************************************************)
(* Proofs about the three Celery jobs that work on dates, for any          *)
(* calendar, rows and bounds: reminders of hearings, status of powers of   *)
(* attorney, reminders of appeals.                                         *)
(*                                                                         *)
(* Hearings: between two starts no more time passes than half a window,    *)
(* so the first start in a window lies before its middle and the next      *)
(* before its end; DueMet says where in this course a window can stand.    *)
(* Powers of attorney: an undisturbed run still holds the committed rows   *)
(* that have an expiry date.  Appeals: what was delivered is paid for by   *)
(* the flag, committed or held by the run, and by crashes.                 *)
(***************************************************************************)
EXTENDS HearingReminders, PoaStatus, AppealReminders, FiniteSetTheorems, TLAPS

-----------------------------------------------------------------------------
(* Quotient and remainder by the length of a day are determined.           *)
LEMMA DayParts ==
  ASSUME NEW x \in Int, NEW q \in Int, NEW r \in 0 .. Day - 1, x = Day * q + r
  PROVE  x \div Day = q /\ x % Day = r
<1>1. Day \in Nat \ {0}
  BY CalendarAssumption
<1>0. x \div Day \in Int /\ x % Day \in 0 .. Day - 1 /\ x = Day * (x \div Day) + (x % Day)
  BY <1>1
<1>2. PICK d \in Int, m \in 0 .. Day - 1 : d = x \div Day /\ m = x % Day /\ x = Day * d + m
  BY <1>0, Zenon
<1>3. Day * (q - d) = m - r
  BY <1>1, <1>2
<1>4. q = d
  <2>1. ASSUME q > d PROVE FALSE
    <3>1. q - d >= 1
      BY <2>1, <1>2
    <3>2. Day * (q - d) >= Day
      BY <1>1, <1>2, <3>1
    <3> QED BY <1>1, <1>2, <1>3, <3>2
  <2>2. ASSUME q < d PROVE FALSE
    <3>1. d - q >= 1
      BY <2>2, <1>2
    <3>2. Day * (d - q) >= Day
      BY <1>1, <1>2, <3>1
    <3>3. Day * (d - q) = r - m
      BY <1>1, <1>2, <1>3
    <3> QED BY <1>1, <1>2, <3>2, <3>3
  <2> QED BY <1>2, <2>1, <2>2
<1> QED BY <1>1, <1>2, <1>3, <1>4

(* Every time has a day and a time of day.                                 *)
LEMMA DayOf ==
  ASSUME NEW x \in Int
  PROVE  x \div Day \in Int /\ x % Day \in 0 .. Day - 1 /\ x = Day * (x \div Day) + (x % Day)
BY CalendarAssumption

(* A time that is not before the start of a day is not on an earlier day.  *)
LEMMA SameDayOrLater ==
  ASSUME NEW q \in Int, NEW y \in Int, Day * q <= y
  PROVE  q <= y \div Day
<1>1. Day \in Nat \ {0}
  BY CalendarAssumption
<1>2. PICK d \in Int, m \in 0 .. Day - 1 : d = y \div Day /\ m = y % Day /\ y = Day * d + m
  BY DayOf, Zenon
<1>3. ASSUME q > d PROVE FALSE
  <2>1. q - d >= 1
    BY <1>2, <1>3
  <2>2. Day * (q - d) >= Day
    BY <1>1, <1>2, <2>1
  <2>3. Day * (q - d) = Day * q - Day * d
    BY <1>1, <1>2
  <2> QED BY <1>1, <1>2, <2>2, <2>3
<1> QED BY <1>2, <1>3

(* The job's comparison of quiet hours with the time of day is never wider *)
(* than a clock's.                                                         *)
LEMMA QuietIsBetween ==
  ASSUME NEW from \in 0 .. Day - 1, NEW end \in 0 .. Day - 1, NEW at \in Int,
         is_quiet_hours(from, end, at % Day)
  PROVE  Between(from, end, at)
<1>1. Day \in Nat \ {0}
  BY CalendarAssumption
<1>2. PICK q \in Int, c \in 0 .. Day - 1 : q = at \div Day /\ c = at % Day /\ at = Day * q + c
  BY DayOf, Zenon
<1>3. (end - from) % Day = IF from <= end THEN end - from ELSE end - from + Day
  <2>1. CASE from <= end
    <3>1. end - from \in 0 .. Day - 1 /\ end - from = Day * 0 + (end - from)
      BY <1>1, <2>1
    <3> QED BY <2>1, <3>1, DayParts
  <2>2. CASE from > end
    <3>1. end - from + Day \in 0 .. Day - 1 /\ end - from = Day * (-1) + (end - from + Day)
      BY <1>1, <2>2
    <3> QED BY <2>2, <3>1, DayParts
  <2> QED BY <2>1, <2>2
<1>4. (at - from) % Day = IF from <= c THEN c - from ELSE c - from + Day
  <2>1. CASE from <= c
    <3>1. c - from \in 0 .. Day - 1 /\ at - from = Day * q + (c - from)
      BY <1>1, <1>2, <2>1
    <3> QED BY <1>2, <2>1, <3>1, DayParts
  <2>2. CASE from > c
    <3>1. c - from + Day \in 0 .. Day - 1 /\ at - from = Day * (q - 1) + (c - from + Day)
      BY <1>1, <1>2, <2>2
    <3> QED BY <1>2, <2>2, <3>1, DayParts
  <2> QED BY <2>1, <2>2
<1> QED BY <1>1, <1>2, <1>3, <1>4 DEF is_quiet_hours, Between

(* The job's query finds a hearing whose window is open, unless it is the  *)
(* first one and the hearing, early on its day, is more than two days off. *)
LEMMA OpenIsLoaded ==
  ASSUME NEW t \in Int, NEW at \in Int, NEW w \in Windows, t - at <= w + Slack,
         w = Ahead /\ t % Day < Slack => t <= at + Ahead
  PROVE  Loaded(t, at)
<1>1. Day \in Nat \ {0} /\ Slack \in Nat /\ Ahead \in Nat /\ w \in Nat /\ (w = Ahead \/ w + Slack <= Ahead)
  BY CalendarAssumption DEF Ahead
<1>2. PICK q \in Int, r \in 0 .. Day - 1 : q = t \div Day /\ r = t % Day /\ t = Day * q + r
  BY DayOf, Zenon
<1>3. Day * q \in Int
  BY <1>1, <1>2
<1>4. Day * q <= at + Ahead
  BY <1>1, <1>2, <1>3
<1>5. q <= (at + Ahead) \div Day
  <2>1. at + Ahead \in Int
    BY <1>1
  <2> QED BY <1>2, <1>4, <2>1, SameDayOrLater
<1> QED BY <1>2, <1>5 DEF Loaded

-----------------------------------------------------------------------------
(* The first and the last moment of a window, and its middle.              *)
Middle(h) == start[h[1]] - h[2]
Opens(h) == Middle(h) - Slack
Closes(h) == Middle(h) + Slack

\* Found only from the middle of its window on.
Late(h) == LoadedLate(start[h[1]], h[2])
Audible(h) == \A at \in Opens(h) .. Closes(h), hours \in QuietHours : ~Between(hours[1], hours[2], at)

(* A window that is due belongs to a hearing its lawyer has.               *)
DueKnown == \A h \in due : h[1] \in DOMAIN start /\ h[1] \in reachable

(* What a run has loaded is in its window, and what has a row was.         *)
LoadedInWindow ==
  job.running => \A h \in job.loaded : h[1] \in DOMAIN start /\ Opens(h) <= now /\ now <= Closes(h)
RowsOpened == \A h \in rows : h[1] \in DOMAIN start /\ Opens(h) <= now

(* A run forgets no hearing it loaded whose window is due.                 *)
WorkKept ==
  job.running => /\ job.hit \subseteq job.loaded
                 /\ job.loaded \cap due \subseteq job.todo \cup job.hit

(* Where a window that is due can stand.                                   *)
Ahead0(h) == now < Opens(h)
InRun(h) == /\ job.running /\ h \in job.loaded
            /\ Late(h) \/ lost[h] > 0 \/ now < Middle(h)
Retried(h) == ~Late(h) /\ lost[h] > 0 /\ ~job.running /\ now < Middle(h)
LoadedSoon(h) == Late(h) /\ lost[h] = 0 /\ now < Middle(h)
Excused(h) == lost[h] > Spare(start[h[1]], h[2])
DueMet == \A h \in due : Ahead0(h) \/ h \in rows \/ InRun(h) \/ Retried(h) \/ LoadedSoon(h) \/ Excused(h)

(* What was announced when the row was made.                               *)
HeardKept ==
  \A h \in due : Audible(h) /\ (h \in rows \/ (job.running /\ h \in job.hit)) => h \in heard

IInv ==
  /\ TypeOK /\ DueKnown
  /\ LoadedInWindow /\ RowsOpened /\ WorkKept
  /\ DueMet /\ HeardKept

-----------------------------------------------------------------------------
LEMMA HearInit == Init => IInv
<1> SUFFICES ASSUME Init PROVE IInv
  OBVIOUS
<1>1. TypeOK
  BY BoundsAssumption DEF Init, TypeOK, NoRun
<1>2. due = {} /\ rows = {} /\ ~job.running
  BY DEF Init, NoRun
<1> QED
  BY <1>1, <1>2 DEF IInv, DueKnown, LoadedInWindow, RowsOpened, WorkKept, DueMet, HeardKept

(* What the parts of a hit are.                                            *)
LEMMA HitParts ==
  ASSUME TypeOK, NEW h \in Hits
  PROVE  /\ h[1] \in Hearings /\ h[2] \in Windows /\ h[2] \in Nat /\ h = <<h[1], h[2]>>
         /\ h[1] \in DOMAIN start => start[h[1]] \in Nat /\ Middle(h) \in Int
BY CalendarAssumption DEF TypeOK, Hits, Middle

(* A hearing whose start stays keeps its windows.                          *)
LEMMA SameWindows ==
  ASSUME NEW h, start'[h[1]] = start[h[1]]
  PROVE  /\ Middle(h)' = Middle(h) /\ Opens(h)' = Opens(h) /\ Closes(h)' = Closes(h)
         /\ Late(h)' <=> Late(h)
         /\ Audible(h)' <=> Audible(h)
<1>1. Middle(h)' = Middle(h) /\ Opens(h)' = Opens(h) /\ Closes(h)' = Closes(h)
  BY DEF Middle, Opens, Closes
<1>2. Late(h)' <=> Late(h)
  BY DEF Late
<1>3. Audible(h)' <=> Audible(h)
  BY <1>1 DEF Audible
<1> QED BY <1>1, <1>2, <1>3

(* What a window can spare depends on its being loaded late.               *)
LEMMA SpareRuns ==
  ASSUME NEW h
  PROVE  Spare(start[h[1]], h[2]) = IF Late(h) THEN 0 ELSE 1
BY DEF Spare, Late

(* A window that has not opened has neither row nor place in a run.        *)
LEMMA UnopenedUntouched ==
  ASSUME IInv, NEW h \in Hits, h[1] \in DOMAIN start, now < Opens(h)
  PROVE  h \notin rows /\ (job.running => h \notin job.loaded /\ h \notin job.hit)
<1>1. Opens(h) \in Int /\ now \in Int
  BY HitParts, CalendarAssumption, BoundsAssumption DEF IInv, TypeOK, Opens
<1> QED
  BY <1>1 DEF IInv, RowsOpened, LoadedInWindow, WorkKept

-----------------------------------------------------------------------------
LEMMA LostCount ==
  ASSUME TypeOK, NEW h \in Hits
  PROVE  lost[h] \in Nat
BY BoundsAssumption DEF TypeOK

(* Entering, moving or restaffing a hearing forgets its lost runs only.    *)
LEMMA NothingLostType ==
  ASSUME TypeOK, NEW s
  PROVE  /\ NothingLost(s) \in [Hits -> 0 .. crashes]
         /\ \A h \in Hits : h[1] # s => NothingLost(s)[h] = lost[h]
BY BoundsAssumption DEF TypeOK, NothingLost

LEMMA PutStep ==
  ASSUME IInv, NEW s \in Hearings, NEW t \in Nat, Put(s, t)
  PROVE  IInv'
<1>0. TypeOK /\ Slack \in Nat
  BY CalendarAssumption DEF IInv
<1>1. /\ DOMAIN start' = DOMAIN start \cup {s}
      /\ start'[s] = t
      /\ \A x \in DOMAIN start : x # s => start'[x] = start[x]
  BY DEF Put
<1>2. TypeOK'
  <2>1. DOMAIN start' \subseteq Hearings /\ start' \in [DOMAIN start' -> Nat]
    BY <1>0, <1>1 DEF Put, TypeOK
  <2>2. job' \in Run \cup {NoRun}
    <3>1. CASE job.running
      <4>1. job \in Run
        BY <1>0, <3>1 DEF TypeOK, NoRun
      <4>2. job' = [job EXCEPT !.loaded = {h \in @ : h[1] # s}, !.hit = {h \in @ : h[1] # s}]
        BY <3>1 DEF Put
      <4> QED BY <4>1, <4>2 DEF Run
    <3>2. CASE ~job.running
      BY <1>0, <3>2 DEF Put, TypeOK
    <3> QED BY <3>1, <3>2
  <2>3. due' \subseteq Hits
    BY <1>0 DEF Put, TypeOK, DueWithout, Opening, Hits
  <2>4. UNCHANGED <<now, reachable, quiet, crashes>> /\ rows' \subseteq Hits /\ heard' \subseteq Hits
    BY <1>0 DEF Put, TypeOK
  <2>5. lost' \in [Hits -> 0 .. crashes]
    BY <1>0, NothingLostType DEF Put
  <2> QED BY <1>0, <2>1, <2>2, <2>3, <2>4, <2>5 DEF TypeOK
<1>3. UNCHANGED <<now, reachable, crashes>>
  BY DEF Put
<1>4. job'.running = job.running
  BY <1>0 DEF Put, TypeOK, Run, NoRun
<1>5. job.running => /\ job'.loaded = {h \in job.loaded : h[1] # s}
                     /\ job'.hit = {h \in job.hit : h[1] # s}
                     /\ job'.todo = job.todo
  BY <1>0 DEF Put, TypeOK, Run, NoRun
<1>6. /\ rows' = {h \in rows : h[1] # s}
      /\ heard' = {h \in heard : h[1] # s}
  BY DEF Put
\* Windows of other hearings.
<1>7. ASSUME NEW h \in due', h[1] # s PROVE h \in due
  BY <1>7 DEF Put, DueWithout, Opening
<1>8. ASSUME NEW h, h[1] \in DOMAIN start, h[1] # s PROVE start'[h[1]] = start[h[1]]
  BY <1>1, <1>8
\* Windows of this one.
<1>9. ASSUME NEW h \in due', h[1] = s PROVE s \in reachable /\ now < Opens(h)'
  <2>1. h \in Opening(s, t) /\ s \in reachable
    BY <1>9 DEF Put, DueWithout
  <2>2. h[2] \in Windows /\ now < t - h[2] - Slack
    BY <2>1 DEF Opening
  <2>3. Opens(h)' = t - h[2] - Slack
    BY <1>1, <1>9 DEF Opens, Middle
  <2> QED BY <2>1, <2>2, <2>3
<1>10. DueKnown'
  BY <1>1, <1>3, <1>7, <1>9 DEF IInv, DueKnown
<1>11. LoadedInWindow'
  <2> SUFFICES ASSUME job'.running, NEW h \in job'.loaded
               PROVE  h[1] \in DOMAIN start' /\ Opens(h)' <= now' /\ now' <= Closes(h)'
    BY DEF LoadedInWindow
  <2>1. h \in job.loaded /\ h[1] # s /\ job.running
    BY <1>4, <1>5
  <2>2. h[1] \in DOMAIN start /\ Opens(h) <= now /\ now <= Closes(h)
    BY <2>1 DEF IInv, LoadedInWindow
  <2> QED BY <1>1, <1>3, <1>8, <2>1, <2>2, SameWindows
<1>12. RowsOpened'
  <2> SUFFICES ASSUME NEW h \in rows' PROVE h[1] \in DOMAIN start' /\ Opens(h)' <= now'
    BY DEF RowsOpened
  <2>1. h[1] # s /\ h[1] \in DOMAIN start /\ Opens(h) <= now
    BY <1>6 DEF IInv, RowsOpened
  <2> QED BY <1>1, <1>3, <1>8, <2>1, SameWindows
<1>13. WorkKept'
  <2> SUFFICES ASSUME job'.running
               PROVE  job'.hit \subseteq job'.loaded /\ job'.loaded \cap due' \subseteq job'.todo \cup job'.hit
    BY DEF WorkKept
  <2>1. job.hit \subseteq job.loaded /\ job.loaded \cap due \subseteq job.todo \cup job.hit
    BY <1>4 DEF IInv, WorkKept
  <2> QED BY <1>4, <1>5, <1>7, <2>1
<1>14. DueMet'
  <2> SUFFICES ASSUME NEW h \in due', ~Ahead0(h)'
               PROVE  \/ h \in rows' \/ InRun(h)' \/ Retried(h)' \/ LoadedSoon(h)' \/ Excused(h)'
    BY DEF DueMet
  <2>1. h[1] # s /\ h \in due
    BY <1>3, <1>7, <1>9 DEF Ahead0
  <2>2. h[1] \in DOMAIN start
    BY <2>1 DEF IInv, DueKnown
  <2>3. Middle(h)' = Middle(h) /\ Opens(h)' = Opens(h) /\ (Late(h)' <=> Late(h))
    BY <1>8, <2>1, <2>2, SameWindows
  <2>4. ~Ahead0(h)
    BY <1>3, <2>3 DEF Ahead0
  <2>5. h \in rows \/ InRun(h) \/ Retried(h) \/ LoadedSoon(h) \/ Excused(h)
    BY <2>1, <2>4 DEF IInv, DueMet
  <2>6. lost'[h] = lost[h] /\ (Excused(h)' <=> Excused(h))
    <3>1. h \in Hits
      BY <1>0, <2>1 DEF TypeOK
    <3>2. lost'[h] = lost[h]
      BY <1>0, <2>1, <3>1, NothingLostType DEF Put
    <3> QED BY <1>8, <2>1, <2>2, <3>2 DEF Excused
  <2> QED BY <1>3, <1>4, <1>5, <1>6, <2>1, <2>3, <2>5, <2>6 DEF InRun, Retried, LoadedSoon
<1>15. HeardKept'
  <2> SUFFICES ASSUME NEW h \in due', Audible(h)', h \in rows' \/ (job'.running /\ h \in job'.hit)
               PROVE  h \in heard'
    BY DEF HeardKept
  <2>1. h[1] # s /\ h \in due
    BY <1>4, <1>5, <1>6, <1>7
  <2>2. h[1] \in DOMAIN start
    BY <2>1 DEF IInv, DueKnown
  <2>3. Audible(h)
    BY <1>8, <2>1, <2>2, SameWindows
  <2> QED BY <1>4, <1>5, <1>6, <2>1, <2>3 DEF IInv, HeardKept
<1> QED BY <1>2, <1>10, <1>11, <1>12, <1>13, <1>14, <1>15 DEF IInv

LEMMA StaffStep ==
  ASSUME IInv, NEW s \in Hearings, StaffChanges(s)
  PROVE  IInv'
<1>0. TypeOK
  BY DEF IInv
<1>1. UNCHANGED <<now, start, job, rows, quiet, heard, crashes>> /\ s \in DOMAIN start
  BY DEF StaffChanges
<1>2. ASSUME NEW h \in due'
      PROVE  /\ h \in Hits /\ h[1] \in DOMAIN start /\ h[1] \in reachable'
             /\ (h \in due /\ h[1] # s) \/ now < Opens(h)
  <2>1. CASE s \in reachable
    BY <1>0, <1>2, <2>1 DEF StaffChanges, DueWithout, IInv, DueKnown, TypeOK
  <2>2. CASE s \notin reachable
    <3>1. due' = due \cup Opening(s, start[s]) /\ reachable' = reachable \cup {s}
      BY <2>2 DEF StaffChanges
    <3>2. CASE h \in due
      BY <1>0, <2>2, <3>1, <3>2 DEF IInv, DueKnown, TypeOK
    <3>3. CASE h \in Opening(s, start[s])
      BY <1>1, <3>1, <3>3 DEF Opening, Opens, Middle, Hits
    <3> QED BY <1>2, <3>1, <3>2, <3>3
  <2> QED BY <2>1, <2>2
<1>3. TypeOK'
  <2>1. reachable' \subseteq Hearings
    BY <1>0 DEF StaffChanges, TypeOK
  <2>2. lost' \in [Hits -> 0 .. crashes]
    BY <1>0, NothingLostType DEF StaffChanges
  <2> QED BY <1>0, <1>1, <1>2, <2>1, <2>2 DEF TypeOK
<1>4. DueKnown'
  BY <1>1, <1>2 DEF DueKnown
<1>5. LoadedInWindow' /\ RowsOpened'
  BY <1>1 DEF IInv, LoadedInWindow, RowsOpened, Opens, Closes, Middle
<1>6. WorkKept'
  BY <1>1, <1>2, UnopenedUntouched DEF IInv, WorkKept
<1>7. DueMet'
  <2> SUFFICES ASSUME NEW h \in due'
               PROVE  Ahead0(h)' \/ h \in rows' \/ InRun(h)' \/ Retried(h)' \/ LoadedSoon(h)' \/ Excused(h)'
    BY DEF DueMet
  <2>1. CASE now < Opens(h)
    BY <1>1, <2>1 DEF Ahead0, Opens, Middle
  <2>2. CASE h \in due /\ h[1] # s
    <3>2. lost'[h] = lost[h] /\ (Excused(h)' <=> Excused(h))
      BY <1>0, <1>1, <1>2, <2>2, NothingLostType DEF StaffChanges, Excused
    <3>1. Ahead0(h) \/ h \in rows \/ InRun(h) \/ Retried(h) \/ LoadedSoon(h) \/ Excused(h)
      BY <2>2 DEF IInv, DueMet
    <3> QED BY <1>1, <3>1, <3>2 DEF Ahead0, InRun, Retried, LoadedSoon, Opens, Middle, Late
  <2> QED BY <1>2, <2>1, <2>2
<1>8. HeardKept'
  <2> SUFFICES ASSUME NEW h \in due', Audible(h)', h \in rows' \/ (job'.running /\ h \in job'.hit)
               PROVE  h \in heard'
    BY DEF HeardKept
  <2>1. h \in due
    BY <1>1, <1>2, UnopenedUntouched
  <2>2. Audible(h)
    BY <1>1, SameWindows
  <2> QED BY <1>1, <2>1, <2>2 DEF IInv, HeardKept
<1> QED BY <1>3, <1>4, <1>5, <1>6, <1>7, <1>8 DEF IInv

LEMMA QuietStep ==
  ASSUME IInv, NEW hours \in QuietHours, set_quiet_hours(hours)
  PROVE  IInv'
<1>1. UNCHANGED <<now, start, reachable, job, rows, heard, due, lost, crashes>> /\ quiet' = hours
  BY DEF set_quiet_hours
<1>2. TypeOK'
  BY <1>1 DEF IInv, TypeOK
<1>3. DueKnown' /\ LoadedInWindow' /\ RowsOpened' /\ WorkKept'
  BY <1>1 DEF IInv, DueKnown, LoadedInWindow, RowsOpened, WorkKept, Opens, Closes, Middle
<1>4. DueMet'
  BY <1>1 DEF IInv, DueMet, Ahead0, InRun, Retried, LoadedSoon, Excused, Opens, Middle, Late
<1>5. HeardKept'
  BY <1>1 DEF IInv, HeardKept, Audible, Opens, Closes, Middle
<1> QED BY <1>2, <1>3, <1>4, <1>5 DEF IInv

(* The hits of a run started at that time.                                 *)
MetAt(at) == UNION {{s} \X Window(start[s], at) : s \in {x \in DOMAIN start : Loaded(start[x], at)}}

LEMMA Met ==
  ASSUME TypeOK, NEW at \in Int, NEW h
  PROVE  h \in MetAt(at) <=>
           /\ h \in Hits /\ h[1] \in DOMAIN start
           /\ Opens(h) <= at /\ at <= Closes(h) /\ Loaded(start[h[1]], at)
<1>0. Slack \in Nat /\ Windows \subseteq Nat
  BY CalendarAssumption
<1>1. ASSUME h \in MetAt(at)
      PROVE  /\ h \in Hits /\ h[1] \in DOMAIN start
             /\ Opens(h) <= at /\ at <= Closes(h) /\ Loaded(start[h[1]], at)
  <2>1. PICK s \in DOMAIN start : Loaded(start[s], at) /\ h \in {s} \X Window(start[s], at)
    BY <1>1 DEF MetAt
  <2>2. h = <<s, h[2]>> /\ h[1] = s /\ h[2] \in Window(start[s], at)
    BY <2>1
  <2>3. s \in Hearings /\ start[s] \in Nat
    BY DEF TypeOK
  <2>4. h[2] \in Windows /\ h[2] - Slack <= start[s] - at /\ start[s] - at <= h[2] + Slack
    BY <2>2 DEF Window
  <2>6. h[2] \in Nat
    BY <1>0, <2>4
  <2>5. start[s] - h[2] - Slack <= at /\ at <= start[s] - h[2] + Slack
    BY <1>0, <2>3, <2>4, <2>6
  <2> QED BY <2>1, <2>2, <2>3, <2>4, <2>5 DEF Hits, Opens, Closes, Middle
<1>2. ASSUME h \in Hits, h[1] \in DOMAIN start,
             Opens(h) <= at, at <= Closes(h), Loaded(start[h[1]], at)
      PROVE  h \in MetAt(at)
  <2>1. h = <<h[1], h[2]>> /\ h[2] \in Windows /\ h[2] \in Nat /\ start[h[1]] \in Nat
    BY <1>2, HitParts
  <2>2. h[2] - Slack <= start[h[1]] - at /\ start[h[1]] - at <= h[2] + Slack
    BY <1>0, <1>2, <2>1 DEF Opens, Closes, Middle
  <2>3. h \in {h[1]} \X Window(start[h[1]], at)
    BY <2>1, <2>2 DEF Window
  <2> QED BY <1>2, <2>3 DEF MetAt
<1> QED BY <1>1, <1>2

LEMMA StartStep ==
  ASSUME IInv, NEW gap \in Gaps, JobStart(gap)
  PROVE  IInv'
<1>0. /\ TypeOK /\ Slack \in Nat /\ gap \in 0 .. Slack /\ Windows \subseteq Nat
      /\ Origin \in Nat /\ Horizon \in Nat
  BY CalendarAssumption, BoundsAssumption DEF IInv
<1>1. /\ UNCHANGED <<start, reachable, rows, quiet, heard, due, lost, crashes>>
      /\ ~job.running /\ now' = now + gap /\ now' \in Origin .. Horizon
  BY <1>0 DEF JobStart, TypeOK
<1>2. /\ job' = [running |-> TRUE, loaded |-> MetAt(now'), todo |-> MetAt(now'), hit |-> {},
                 lawyer |-> NotLoaded]
  BY DEF JobStart, MetAt
<1>3. PICK at \in Origin .. Horizon : at = now'
  BY <1>1
<1>4. PICK was \in Int : was = now /\ at \in was .. was + Slack
  BY <1>0, <1>1, <1>3 DEF TypeOK
<1>5. PICK met : met = MetAt(at)
  OBVIOUS
<1>6. /\ job'.running /\ job'.loaded = met /\ job'.todo = met /\ job'.hit = {}
  BY <1>2, <1>3, <1>5
<1>7. ASSUME NEW h
      PROVE  h \in met <=> /\ h \in Hits /\ h[1] \in DOMAIN start
                           /\ Opens(h) <= at /\ at <= Closes(h) /\ Loaded(start[h[1]], at)
  BY <1>0, <1>5, Met
<1>8. TypeOK'
  <2>1. met \subseteq Hits
    BY <1>7
  <2>2. job' \in Run
    BY <1>2, <1>3, <1>5, <2>1 DEF Run
  <2> QED BY <1>0, <1>1, <2>2 DEF TypeOK
<1>9. DueKnown'
  BY <1>1 DEF IInv, DueKnown
<1>10. LoadedInWindow'
  BY <1>1, <1>3, <1>6, <1>7 DEF LoadedInWindow, Opens, Closes, Middle
<1>11. RowsOpened'
  <2> SUFFICES ASSUME NEW h \in rows PROVE h[1] \in DOMAIN start /\ Opens(h) <= at
    BY <1>1, <1>3 DEF RowsOpened, Opens, Middle
  <2>1. h[1] \in DOMAIN start /\ Opens(h) <= was
    BY <1>4 DEF IInv, RowsOpened
  <2>2. Opens(h) \in Int
    BY <1>0, <2>1, HitParts DEF TypeOK, Opens
  <2> QED BY <1>4, <2>1, <2>2
<1>12. WorkKept'
  BY <1>1, <1>6 DEF WorkKept
<1>13. DueMet'
  <2> SUFFICES ASSUME NEW h \in due
               PROVE  Ahead0(h)' \/ h \in rows' \/ InRun(h)' \/ Retried(h)' \/ LoadedSoon(h)' \/ Excused(h)'
    BY <1>1 DEF DueMet
  <2>1. h \in Hits /\ h[1] \in DOMAIN start
    BY <1>0 DEF IInv, DueKnown, TypeOK
  <2>2. PICK t \in Nat, w \in Windows : t = start[h[1]] /\ w = h[2] /\ w \in Nat
    BY <1>0, <2>1, HitParts
  <2>3. Middle(h) = t - w /\ Opens(h) = t - w - Slack /\ Closes(h) = t - w + Slack
    BY <2>2 DEF Middle, Opens, Closes
  <2>4. /\ Middle(h)' = t - w /\ Opens(h)' = t - w - Slack
        /\ Late(h)' <=> Late(h)
    BY <1>1, <2>3, SameWindows
  <2>5. CASE h \in rows \/ Excused(h)
    BY <1>1, <2>4, <2>5 DEF Excused
  <2>6. CASE h \notin rows /\ ~Excused(h)
    <3>1. was < t - w - Slack \/ (was < t - w /\ ~Late(h) /\ lost[h] > 0) \/ (was < t - w /\ Late(h) /\ lost[h] = 0)
      BY <1>1, <1>4, <2>3, <2>6 DEF IInv, DueMet, Ahead0, InRun, Retried, LoadedSoon
    <3>2. at < t - w + Slack
      BY <1>0, <1>4, <2>2, <3>1
    <3>3. CASE at < t - w - Slack
      BY <1>3, <2>4, <3>3 DEF Ahead0
    <3>4. CASE at >= t - w - Slack /\ h \in met
      <4>1. Late(h) \/ lost[h] > 0 \/ at < t - w
        BY <1>0, <1>4, <2>2, <3>1
      <4> QED BY <1>1, <1>3, <1>6, <2>4, <3>4, <4>1 DEF InRun
    <3>5. CASE at >= t - w - Slack /\ h \notin met
      <4>0. Opens(h) <= at /\ at <= Closes(h)
        BY <1>0, <2>2, <2>3, <3>2, <3>5
      <4>1. ~Loaded(t, at)
        BY <1>7, <2>1, <2>2, <3>5, <4>0
      <4>2. t - at <= w + Slack
        BY <1>0, <2>2, <3>5
      <4>3. w = Ahead /\ t % Day < Slack /\ ~(t <= at + Ahead)
        BY <4>1, <4>2, OpenIsLoaded
      <4>4. Late(h) /\ at < t - w
        BY <1>0, <2>2, <4>3 DEF Late, LoadedLate
      <4>5. lost[h] = 0
        BY <1>0, <2>1, <2>6, <4>4, SpareRuns, LostCount DEF Excused
      <4> QED BY <1>1, <1>3, <2>4, <4>4, <4>5 DEF LoadedSoon
    <3> QED BY <1>0, <2>2, <3>3, <3>4, <3>5
  <2> QED BY <2>5, <2>6
<1>14. HeardKept'
  <2> SUFFICES ASSUME NEW h \in due, Audible(h)', h \in rows PROVE h \in heard
    BY <1>1, <1>6 DEF HeardKept
  <2>1. Audible(h)
    BY <1>1, SameWindows
  <2> QED BY <2>1 DEF IInv, HeardKept
<1> QED BY <1>8, <1>9, <1>10, <1>11, <1>12, <1>13, <1>14 DEF IInv

(* A message that no quiet hours can meet goes out.                        *)
LEMMA AudibleIsSent ==
  ASSUME TypeOK, NEW h \in Hits, h[1] \in DOMAIN start, Audible(h),
         Opens(h) <= now, now <= Closes(h), NEW hours \in QuietHours
  PROVE  Sent(hours)
<1>1. now \in Int /\ Opens(h) \in Int /\ Closes(h) \in Int
  BY HitParts, CalendarAssumption, BoundsAssumption DEF TypeOK, Opens, Closes
<1>2. now \in Opens(h) .. Closes(h)
  BY <1>1
<1>3. ~Between(hours[1], hours[2], now)
  BY <1>2 DEF Audible
<1>4. hours[1] \in 0 .. Day - 1 /\ hours[2] \in 0 .. Day - 1
  BY CalendarAssumption
<1>5. ~is_quiet_hours(hours[1], hours[2], now % Day)
  BY <1>1, <1>3, <1>4, QuietIsBetween
<1>6. DefaultChannels \ {"sms"} # {} /\ "session_reminder" \notin CRITICAL_TYPES
  <2>1. "push" \in DefaultChannels \ {"sms"}
    BY DEF DefaultChannels
  <2> QED BY <2>1 DEF CRITICAL_TYPES
<1> QED BY <1>5, <1>6 DEF Sent, send_notification

LEMMA RemindStep ==
  ASSUME IInv, NEW h \in Hits, JobRemind(h)
  PROVE  IInv'
<1>0. TypeOK /\ job \in Run /\ job.running /\ h \in job.todo
  BY DEF IInv, TypeOK, NoRun, JobRemind
<1>1. UNCHANGED <<now, start, reachable, rows, quiet, due, lost, crashes>>
  BY DEF JobRemind
<1>2. PICK hours : hours = IF job.lawyer = NotLoaded THEN quiet ELSE job.lawyer
  OBVIOUS
<1>3. hours \in QuietHours
  BY <1>0, <1>2 DEF TypeOK, Run
<1>4. IF h[1] \in reachable /\ h \in job.loaded
        THEN /\ job' = [job EXCEPT !.todo = @ \ {h}, !.hit = @ \cup {h}, !.lawyer = hours]
             /\ heard' = IF Sent(hours) THEN heard \cup {h} ELSE heard
        ELSE job' = [job EXCEPT !.todo = @ \ {h}] /\ heard' = heard
  BY <1>2 DEF JobRemind
<1>5. /\ job' \in Run /\ job'.running /\ job'.loaded = job.loaded
      /\ job'.todo = job.todo \ {h}
      /\ IF h[1] \in reachable /\ h \in job.loaded THEN job'.hit = job.hit \cup {h} ELSE job'.hit = job.hit
  <2>1. CASE h[1] \in reachable /\ h \in job.loaded
    <3>1. job' = [job EXCEPT !.todo = job.todo \ {h}, !.hit = job.hit \cup {h}, !.lawyer = hours]
      BY <1>4, <2>1
    <3>2. PICK left, done : left = job.todo \ {h} /\ done = job.hit \cup {h}
      OBVIOUS
    <3>3. left \in SUBSET Hits /\ done \in SUBSET Hits /\ job.loaded \in SUBSET Hits
      BY <1>0, <3>2 DEF Run
    <3>4. job' = [running |-> TRUE, loaded |-> job.loaded, todo |-> left, hit |-> done, lawyer |-> hours]
      BY <1>0, <3>1, <3>2 DEF Run
    <3>5. job' \in Run
      BY <1>3, <3>3, <3>4 DEF Run
    <3> QED BY <2>1, <3>2, <3>4, <3>5
  <2>2. CASE ~(h[1] \in reachable /\ h \in job.loaded)
    BY <1>0, <1>4, <2>2 DEF Run
  <2> QED BY <2>1, <2>2
<1>6. heard \subseteq heard' /\ heard' \subseteq heard \cup {h}
  BY <1>4
<1>7. TypeOK'
  BY <1>0, <1>1, <1>5, <1>6 DEF TypeOK
<1>8. DueKnown' /\ RowsOpened'
  BY <1>1 DEF IInv, DueKnown, RowsOpened, Opens, Middle
<1>9. LoadedInWindow'
  BY <1>0, <1>1, <1>5 DEF IInv, LoadedInWindow, Opens, Closes, Middle
<1>10. WorkKept'
  <2>1. job.hit \subseteq job.loaded /\ job.loaded \cap due \subseteq job.todo \cup job.hit
    BY <1>0 DEF IInv, WorkKept
  <2>2. \A x \in due : x[1] \in reachable
    BY DEF IInv, DueKnown
  <2>3. job'.hit \subseteq job'.loaded
    BY <1>5, <2>1
  <2>4. ASSUME NEW x \in job'.loaded, x \in due' PROVE x \in job'.todo \cup job'.hit
    BY <1>1, <1>5, <2>1, <2>2, <2>4
  <2> QED BY <2>3, <2>4 DEF WorkKept
<1>11. DueMet'
  BY <1>0, <1>1, <1>5 DEF IInv, DueMet, Ahead0, InRun, Retried, LoadedSoon, Excused, Opens, Middle, Late
<1>12. HeardKept'
  <2> SUFFICES ASSUME NEW x \in due, Audible(x)', x \in rows \/ x \in job'.hit PROVE x \in heard'
    BY <1>1 DEF HeardKept
  <2>1. Audible(x)
    BY <1>1, SameWindows
  <2>2. CASE x \in rows \/ x \in job.hit
    BY <1>0, <1>6, <2>1, <2>2 DEF IInv, HeardKept
  <2>3. CASE x \notin rows /\ x \notin job.hit
    <3>1. x = h /\ h[1] \in reachable /\ h \in job.loaded
      BY <1>5, <2>3
    <3>2. h[1] \in DOMAIN start /\ Opens(h) <= now /\ now <= Closes(h)
      BY <1>0, <3>1 DEF IInv, LoadedInWindow
    <3>3. Sent(hours)
      BY <1>0, <1>3, <2>1, <3>1, <3>2, AudibleIsSent
    <3> QED BY <1>4, <3>1, <3>3
  <2> QED BY <2>2, <2>3
<1> QED BY <1>7, <1>8, <1>9, <1>10, <1>11, <1>12 DEF IInv

LEMMA CommitStep ==
  ASSUME IInv, JobCommit
  PROVE  IInv'
<1>0. TypeOK /\ job \in Run /\ job.running /\ job.todo = {}
  BY DEF IInv, TypeOK, NoRun, JobCommit
<1>1. UNCHANGED <<now, start, reachable, quiet, heard, due, lost, crashes>>
  BY DEF JobCommit
<1>2. rows' = rows \cup job.hit /\ job' = NoRun /\ ~job'.running
  BY DEF JobCommit, NoRun
<1>3. job.hit \subseteq job.loaded /\ job.loaded \cap due \subseteq job.hit
  BY <1>0 DEF IInv, WorkKept
<1>4. TypeOK'
  BY <1>0, <1>1, <1>2 DEF TypeOK, Run
<1>5. DueKnown' /\ LoadedInWindow' /\ WorkKept'
  BY <1>1, <1>2 DEF IInv, DueKnown, LoadedInWindow, WorkKept
<1>6. RowsOpened'
  BY <1>0, <1>1, <1>2, <1>3 DEF IInv, RowsOpened, LoadedInWindow, Opens, Middle
<1>7. DueMet'
  BY <1>0, <1>1, <1>2, <1>3 DEF IInv, DueMet, Ahead0, InRun, Retried, LoadedSoon, Excused, Opens, Middle, Late
<1>8. HeardKept'
  <2> SUFFICES ASSUME NEW x \in due, Audible(x)', x \in rows \/ x \in job.hit PROVE x \in heard
    BY <1>1, <1>2 DEF HeardKept
  <2>1. Audible(x)
    BY <1>1, SameWindows
  <2> QED BY <1>0, <2>1 DEF IInv, HeardKept
<1> QED BY <1>4, <1>5, <1>6, <1>7, <1>8 DEF IInv

LEMMA CrashStep ==
  ASSUME IInv, JobCrash
  PROVE  IInv'
<1>0. TypeOK /\ job.running /\ crashes \in Nat /\ MaxCrashes \in Nat
  BY BoundsAssumption DEF IInv, TypeOK, JobCrash
<1>1. UNCHANGED <<now, start, reachable, rows, quiet, heard, due>>
  BY DEF JobCrash
<1>2. crashes < MaxCrashes /\ crashes' = crashes + 1 /\ job' = NoRun /\ ~job'.running
  BY DEF JobCrash, NoRun
<1>7. ASSUME NEW h \in Hits
      PROVE  lost'[h] = IF h \in job.loaded \cap due THEN lost[h] + 1 ELSE lost[h]
  BY DEF JobCrash
<1>3. TypeOK'
  <2>1. ASSUME NEW h \in Hits PROVE lost[h] \in 0 .. crashes /\ lost'[h] \in 0 .. crashes + 1
    <3>1. lost[h] \in 0 .. crashes
      BY <1>0 DEF TypeOK
    <3> QED BY <1>0, <1>7, <3>1
  <2>2. lost' \in [Hits -> 0 .. crashes + 1]
    BY <2>1 DEF JobCrash
  <2> QED BY <1>0, <1>1, <1>2, <2>2 DEF TypeOK
<1>4. DueKnown' /\ LoadedInWindow' /\ RowsOpened' /\ WorkKept'
  BY <1>1, <1>2 DEF IInv, DueKnown, LoadedInWindow, RowsOpened, WorkKept, Opens, Middle
<1>5. DueMet'
  <2> SUFFICES ASSUME NEW h \in due
               PROVE  Ahead0(h)' \/ h \in rows' \/ InRun(h)' \/ Retried(h)' \/ LoadedSoon(h)' \/ Excused(h)'
    BY <1>1 DEF DueMet
  <2>1. Ahead0(h) \/ h \in rows \/ InRun(h) \/ LoadedSoon(h) \/ Excused(h)
    BY <1>0 DEF IInv, DueMet, Retried
  <2>2. h \in Hits /\ lost[h] \in Nat
    BY <1>0, LostCount DEF TypeOK
  <2>3. /\ Middle(h)' = Middle(h) /\ Opens(h)' = Opens(h) /\ (Late(h)' <=> Late(h))
        /\ Spare(start[h[1]], h[2])' = Spare(start[h[1]], h[2])
    BY <1>1, SameWindows
  <2>4. CASE h \in job.loaded
    <3>1. lost'[h] = lost[h] + 1
      BY <1>7, <2>2, <2>4
    <3> QED
      BY <1>1, <1>2, <2>1, <2>2, <2>3, <3>1, SpareRuns
      DEF Ahead0, InRun, Retried, LoadedSoon, Excused
  <2>5. CASE h \notin job.loaded
    <3>1. lost'[h] = lost[h]
      BY <1>7, <2>2, <2>5
    <3> QED
      BY <1>1, <2>1, <2>3, <2>5, <3>1 DEF Ahead0, InRun, LoadedSoon, Excused
  <2> QED BY <2>4, <2>5
<1>6. HeardKept'
  <2> SUFFICES ASSUME NEW x \in due, Audible(x)', x \in rows PROVE x \in heard
    BY <1>1, <1>2 DEF HeardKept
  <2>1. Audible(x)
    BY <1>1, SameWindows
  <2> QED BY <2>1 DEF IInv, HeardKept
<1> QED BY <1>3, <1>4, <1>5, <1>6 DEF IInv

LEMMA StutterStep == IInv /\ UNCHANGED vars => IInv'
BY DEF vars, IInv, TypeOK, DueKnown, LoadedInWindow, RowsOpened, WorkKept, DueMet, HeardKept,
       Ahead0, InRun, Retried, LoadedSoon, Excused, Audible, Late, Opens, Closes, Middle

-----------------------------------------------------------------------------
LEMMA HearStep == IInv /\ [Next]_vars => IInv'
<1> SUFFICES ASSUME IInv, [Next]_vars PROVE IInv'
  OBVIOUS
<1>1. ASSUME NEW s \in Hearings, NEW d \in Dates, NEW t \in Times,
             create_session(s, d, t) \/ update_session(s, d, t)
      PROVE  IInv'
  <2>1. d * Day + t \in Nat
    BY CalendarAssumption
  <2> QED BY <1>1, <2>1, PutStep DEF create_session, update_session
<1>2. ASSUME NEW s \in Hearings, NEW d \in Dates, NEW n \in Hearings, record_result(s, d, n)
      PROVE  IInv'
  <2>1. start[s] \in Int
    BY <1>2 DEF IInv, TypeOK, record_result
  <2>2. start[s] % Day \in Nat
    BY <2>1, DayOf, CalendarAssumption
  <2>3. d * Day + (start[s] % Day) \in Nat
    BY <2>2, CalendarAssumption
  <2> QED BY <1>2, <2>3, PutStep DEF record_result
<1>3. CASE UNCHANGED vars
  BY <1>3, StutterStep
<1> QED
  BY <1>1, <1>2, <1>3, StaffStep, QuietStep, StartStep, RemindStep, CommitStep, CrashStep DEF Next

LEMMA HearInvariant == Spec => []IInv
BY HearInit, HearStep, PTL DEF Spec

(* The calendar, the runs of the job and the inbox keep their types.       *)
THEOREM RemindersTypeCorrect == Spec => []TypeOK
<1>1. IInv => TypeOK
  BY DEF IInv
<1> QED BY <1>1, HearInvariant, PTL

(* A window that has closed has its row, unless its runs crashed.          *)
LEMMA PassedMet ==
  ASSUME IInv, NEW h \in due, ~job.running, now > Closes(h)
  PROVE  h \in rows \/ lost[h] > Spare(start[h[1]], h[2])
<1>1. h \in Hits /\ h[1] \in DOMAIN start /\ now \in Int /\ Slack \in Nat
  BY CalendarAssumption, BoundsAssumption DEF IInv, TypeOK, DueKnown
<1>2. Middle(h) \in Int
  BY <1>1, HitParts DEF IInv
<1>3. ~(now < Opens(h)) /\ ~(now < Middle(h))
  BY <1>1, <1>2 DEF Opens, Closes
<1> QED BY <1>3 DEF IInv, DueMet, Ahead0, InRun, Retried, LoadedSoon, Excused

(* However hearings are entered, moved and postponed and lawyers come and  *)
(* go, no window that was still to open passes unmet: two starts fall into *)
(* each, and where the date comparison spoils the first the second is      *)
(* still in time.  Only the crash of every run that loaded it costs one.   *)
THEOREM EveryWindowMet == Spec => []WindowsMet
<1>1. ASSUME IInv PROVE WindowsMet
  BY <1>1, PassedMet DEF WindowsMet, Closes, Middle
<1> QED BY <1>1, HearInvariant, PTL

(* A message leaves the application for every window that no quiet hours   *)
(* can touch: being asked at the wrong moment costs nobody a reminder.     *)
THEOREM AudibleIsHeard == Spec => []HeardUnlessQuiet
<1>1. ASSUME IInv, NEW h \in due, ~job.running, now > Closes(h), Audible(h)
      PROVE  h \in heard \/ lost[h] > Spare(start[h[1]], h[2])
  BY <1>1, PassedMet DEF IInv, HeardKept
<1>2. ASSUME IInv PROVE HeardUnlessQuiet
  BY <1>1, <1>2 DEF HeardUnlessQuiet, Audible, Opens, Closes, Middle
<1> QED BY <1>2, HearInvariant, PTL

-----------------------------------------------------------------------------
(* The two jobs put every date into the same class on every day.           *)
LEMMA ClassifiersAgree ==
  ASSUME NEW expiry \in Int, NEW day \in Int
  PROVE  ByDate(expiry, day) = ByDaysLeft(expiry, day)
BY DEF ByDate, ByDaysLeft

(* Whatever job computes it, the result is a status of the enum.           *)
LEMMA ComputedType ==
  ASSUME NEW j, NEW expiry, NEW day
  PROVE  Computed(j, expiry, day) \in Status
BY DEF Computed, ByDate, ByDaysLeft, Status

-----------------------------------------------------------------------------
WithExpiry == {p \in DOMAIN poa : poa[p].expiry # NoExpiry}

(* A run in progress is a record of the day and of the rows it loaded.     *)
RunShape ==
  \A j \in Jobs : run[j].running =>
    /\ run[j].day \in Int
    /\ run[j].loaded \in [DOMAIN run[j].loaded -> Row]

(* An undisturbed run holds the committed rows with an expiry date.        *)
FreshRun ==
  \A j \in Jobs : run[j].running /\ j \notin disturbed =>
    run[j].day = today /\ run[j].loaded = [p \in WithExpiry |-> poa[p]]

PoaInv == PoaTypeOK /\ RunShape /\ FreshRun

(* The initial state has no rows and no run.                               *)
LEMMA PoaInitially == PoaInit => PoaInv
BY PoaAssumption, LastDayAssumption DEF PoaInit, PoaInv, PoaTypeOK, RunShape, FreshRun, WithExpiry, Jobs, NoPoaRun

(* A request that edits rows disturbs every run in progress.               *)
LEMMA PoaEditStep ==
  ASSUME PoaInv, Edited, UNCHANGED <<today, run>>,
         DOMAIN poa' \subseteq Poas, poa' \in [DOMAIN poa' -> Row]
  PROVE  PoaInv'
<1>1. PoaTypeOK'
  BY PoaAssumption, LastDayAssumption DEF PoaInv, PoaTypeOK, Edited, Running
<1>2. RunShape'
  BY DEF PoaInv, RunShape
<1>3. FreshRun'
  BY DEF FreshRun, Edited, Running
<1> QED BY <1>1, <1>2, <1>3 DEF PoaInv

(* Midnight disturbs every run in progress too.                            *)
LEMMA PoaDayStep == ASSUME PoaInv, PoaDayPasses PROVE PoaInv'
<1>1. PoaTypeOK'
  BY PoaAssumption, LastDayAssumption DEF PoaInv, PoaTypeOK, PoaDayPasses, DayPasses, Running
<1>2. RunShape'
  BY DEF PoaInv, RunShape, PoaDayPasses, DayPasses
<1>3. FreshRun'
  BY DEF FreshRun, PoaDayPasses, DayPasses, Running
<1> QED BY <1>1, <1>2, <1>3 DEF PoaInv

(* A run starts with the committed rows.                                   *)
LEMMA PoaStartStep ==
  ASSUME PoaInv, NEW j \in Jobs, PoaJobStart(j)
  PROVE  PoaInv'
<1> DEFINE started == [running |-> TRUE, day |-> today, loaded |-> [p \in WithExpiry |-> poa[p]]]
<1>1. run' = [run EXCEPT ![j] = started]
  BY DEF PoaJobStart, WithExpiry
<1>2. /\ today' = today /\ poa' = poa /\ edits' = edits
      /\ disturbed' = disturbed \ {j}
  BY DEF PoaJobStart
<1>3. started.loaded \in [WithExpiry -> Row]
  BY DEF PoaInv, PoaTypeOK, WithExpiry
<1>4. DOMAIN run = Jobs
  BY DEF PoaInv, PoaTypeOK
<1>5. run'[j] = started /\ \A k \in Jobs \ {j} : run'[k] = run[k]
  BY <1>1, <1>4
<1>6. DOMAIN run' = Jobs
  BY <1>1, <1>4
<1>7. PoaTypeOK'
  BY <1>2, <1>3, <1>5, <1>6 DEF PoaInv, PoaTypeOK
<1>8. today \in Int
  BY PoaAssumption, LastDayAssumption DEF PoaInv, PoaTypeOK
<1>9. RunShape'
  BY <1>3, <1>5, <1>8 DEF PoaInv, RunShape
<1>10. FreshRun'
  BY <1>2, <1>5 DEF PoaInv, FreshRun, WithExpiry
<1> QED BY <1>7, <1>9, <1>10 DEF PoaInv

(* A commit changes statuses only, and disturbs the other run if it does.  *)
LEMMA PoaCommitStep == ASSUME PoaInv, NEW j \in Jobs, PoaJobCommit(j) PROVE PoaInv'
<1>1. DOMAIN run = Jobs
  BY DEF PoaInv, PoaTypeOK
<1>2. /\ run'[j] = NoPoaRun /\ \A k \in Jobs \ {j} : run'[k] = run[k]
      /\ DOMAIN run' = Jobs
  BY <1>1 DEF PoaJobCommit
<1>3. DOMAIN poa' = DOMAIN poa /\ poa' \in [DOMAIN poa -> Row]
  <2>1. poa \in [DOMAIN poa -> Row]
    BY DEF PoaInv, PoaTypeOK
  <2>2. \A p : NewStatus(j, p) \in Status
    BY ComputedType DEF NewStatus
  <2>3. CASE poa' = poa
    BY <2>1, <2>3
  <2>4. CASE poa' = [p \in DOMAIN poa |->
               IF p \in Written(j) THEN [poa[p] EXCEPT !.status = NewStatus(j, p)] ELSE poa[p]]
    BY <2>1, <2>2, <2>4 DEF Row
  <2> QED BY <2>3, <2>4 DEF PoaJobCommit
<1>4. PoaTypeOK'
  BY <1>2, <1>3 DEF PoaInv, PoaTypeOK, PoaJobCommit, Running
<1>5. RunShape'
  BY <1>2 DEF PoaInv, RunShape, NoPoaRun
<1>6. FreshRun'
  <2> SUFFICES ASSUME NEW k \in Jobs, run'[k].running, k \notin disturbed'
               PROVE  run'[k].day = today' /\ run'[k].loaded = [p \in WithExpiry' |-> poa'[p]]
    BY DEF FreshRun
  <2>1. k # j /\ run'[k] = run[k]
    BY <1>2 DEF NoPoaRun
  <2>2. poa' = poa /\ k \notin disturbed
    BY <2>1 DEF PoaJobCommit, Running
  <2>3. run[k].day = today /\ run[k].loaded = [p \in WithExpiry |-> poa[p]]
    BY <2>1, <2>2 DEF PoaInv, FreshRun
  <2> QED BY <2>1, <2>2, <2>3 DEF PoaJobCommit, WithExpiry
<1> QED BY <1>4, <1>5, <1>6 DEF PoaInv

(* Every step keeps the inductive invariant.                               *)
LEMMA PoaStep == PoaInv /\ [PoaNext]_poaVars => PoaInv'
<1> SUFFICES ASSUME PoaInv, [PoaNext]_poaVars PROVE PoaInv'
  OBVIOUS
<1>1. ASSUME NEW p \in Poas, NEW row \in Row, create_poa(p, row) PROVE PoaInv'
  <2>1. DOMAIN poa' \subseteq Poas /\ poa' \in [DOMAIN poa' -> Row]
    BY <1>1 DEF create_poa, PoaInv, PoaTypeOK
  <2> QED BY <1>1, <2>1, PoaEditStep DEF create_poa
<1>2. ASSUME NEW p \in Poas, NEW row \in Row, update_poa(p, row) PROVE PoaInv'
  <2>1. DOMAIN poa' \subseteq Poas /\ poa' \in [DOMAIN poa' -> Row]
    BY <1>2 DEF update_poa, PoaInv, PoaTypeOK
  <2> QED BY <1>2, <2>1, PoaEditStep DEF update_poa
<1>3. ASSUME NEW p \in DOMAIN poa, delete_poa(p) PROVE PoaInv'
  <2>1. DOMAIN poa' \subseteq Poas /\ poa' \in [DOMAIN poa' -> Row]
    BY <1>3 DEF delete_poa, PoaInv, PoaTypeOK
  <2> QED BY <1>3, <2>1, PoaEditStep DEF delete_poa
<1>4. CASE PoaDayPasses
  BY <1>4, PoaDayStep
<1>5. ASSUME NEW j \in Jobs, PoaJobStart(j) PROVE PoaInv'
  BY <1>5, PoaStartStep
<1>6. ASSUME NEW j \in Jobs, PoaJobCommit(j) PROVE PoaInv'
  BY <1>6, PoaCommitStep
<1>7. CASE UNCHANGED poaVars
  BY <1>7 DEF poaVars, PoaInv, PoaTypeOK, RunShape, FreshRun, WithExpiry
<1> QED BY <1>1, <1>2, <1>3, <1>4, <1>5, <1>6, <1>7 DEF PoaNext

(* The invariant holds in every reachable state.                           *)
LEMMA PoaInvariant == PoaSpec => []PoaInv
BY PoaInitially, PoaStep, PTL DEF PoaSpec

-----------------------------------------------------------------------------
(* The powers of attorney and the runs of both jobs keep their types.      *)
THEOREM PoaTypeCorrect == PoaSpec => []PoaTypeOK
BY PoaInvariant, PTL DEF PoaInv

(* The commit of an undisturbed run of either job leaves all rows right.   *)
LEMMA QuietCommit ==
  ASSUME PoaInv, NEW j \in Jobs, PoaJobCommit(j), j \notin disturbed, NEW p \in DOMAIN poa
  PROVE  Right(poa[p], today)'
<1> DEFINE loaded == run[j].loaded
<1>1. run[j].day = today /\ loaded = [q \in WithExpiry |-> poa[q]]
  BY DEF PoaInv, FreshRun, PoaJobCommit
<1>2. Written(j) \subseteq DOMAIN poa
  BY <1>1 DEF Written, WithExpiry
<1>3. poa'[p] = IF p \in Written(j) THEN [poa[p] EXCEPT !.status = NewStatus(j, p)] ELSE poa[p]
  BY <1>2 DEF PoaJobCommit
<1>4. poa[p] \in Row /\ today \in Int /\ today' = today
  BY PoaAssumption, LastDayAssumption DEF PoaInv, PoaTypeOK, PoaJobCommit
<1>5. CASE poa[p].expiry = NoExpiry
  <2>1. p \notin Written(j)
    BY <1>1, <1>5 DEF Written, WithExpiry
  <2> QED BY <1>3, <1>5, <2>1 DEF Right
<1>6. CASE poa[p].expiry # NoExpiry
  <2>1. loaded[p] = poa[p] /\ p \in DOMAIN loaded
    BY <1>1, <1>6 DEF WithExpiry
  <2>2. poa[p].expiry \in Int
    BY <1>4, <1>6, PoaAssumption, LastDayAssumption DEF Row
  <2>3. NewStatus(j, p) = ByDaysLeft(poa[p].expiry, today)
    BY <1>1, <1>4, <2>1, <2>2, ClassifiersAgree DEF NewStatus, Computed
  <2>4. poa'[p].expiry = poa[p].expiry
    BY <1>3, <1>4 DEF Row
  <2>5. poa'[p].status = NewStatus(j, p)
    BY <1>3, <1>4, <2>1 DEF Row, Written
  <2> QED BY <1>4, <2>3, <2>4, <2>5 DEF Right
<1> QED BY <1>5, <1>6

(* A run of either job that no edit, midnight or write of the other job    *)
(* disturbed leaves every row with the status its expiry date calls for.   *)
THEOREM QuietRunsRight == PoaSpec => RightAfterQuietRun
<1>1. PoaInv /\ [PoaNext]_poaVars =>
        [\A j \in Jobs : PoaJobCommit(j) /\ j \notin disturbed =>
           \A p \in DOMAIN poa : Right(poa[p], today)']_poaVars
  BY QuietCommit
<1> QED BY <1>1, PoaInvariant, PTL DEF PoaSpec, RightAfterQuietRun

-----------------------------------------------------------------------------
(* The appeal reminders.  A reminder is delivered once per time it is      *)
(* flagged, and once more for each crash that took the flag with it.       *)
LastingOrHeld(r) == r \in sent \/ (appealRun.running /\ r \in appealRun.done)

RunApart ==
  appealRun.running =>
    /\ appealRun.todo \cup appealRun.done \subseteq DOMAIN remindAt
    /\ appealRun.todo \cap (sent \cup appealRun.done) = {}

DeliveredForCause ==
  \A r \in Reminders :
    /\ delivered[r] \in Nat
    /\ delivered[r] <= (IF LastingOrHeld(r) THEN 1 ELSE 0) + appealCrashes

AppealInv == AppealTypeOK /\ RunApart /\ DeliveredForCause

LEMMA AppealInitially ==
  AppealInit => AppealInv
<1> SUFFICES ASSUME AppealInit PROVE AppealInv
  OBVIOUS
<1>1. AppealTypeOK
  BY AppealAssumption, LastDayAssumption, AppealBoundsAssumption DEF AppealInit, AppealTypeOK
<1>2. RunApart
  BY DEF AppealInit, RunApart, NoAppealRun
<1>3. DeliveredForCause
  BY DEF AppealInit, DeliveredForCause
<1> QED BY <1>1, <1>2, <1>3 DEF AppealInv

(* A new appeal gets a number of its own.                                  *)
LEMMA TrackNumber ==
  ASSUME AppealTypeOK, Tracks < MaxTracks
  PROVE  Tracks + 1 \in 1 .. MaxTracks
<1> DEFINE numbers == {r[1] : r \in DOMAIN remindAt}
<1>1. numbers \subseteq 1 .. MaxTracks
  BY DEF AppealTypeOK, Reminders
<1>2. IsFiniteSet(1 .. MaxTracks)
  BY FS_Interval, AppealBoundsAssumption
<1>3. IsFiniteSet(numbers)
  BY <1>1, <1>2, FS_Subset
<1>5. Tracks \in Nat
  BY <1>3, FS_CardinalityType DEF Tracks
<1> QED BY <1>5, AppealBoundsAssumption

LEMMA TrackStep ==
  ASSUME AppealInv,
         NEW d \in Deadlines, track_appeal(d)
  PROVE  AppealInv'
<1>1. UNCHANGED <<today, sent, caseInOffice, hasRecipient, appealRun, delivered, appealCrashes>>
  BY DEF track_appeal
<1>2. PICK n \in 1 .. MaxTracks : n = Tracks + 1
  BY TrackNumber DEF AppealInv, track_appeal
<1>3. remindAt' = [r \in DOMAIN remindAt \cup ({n} \X Offsets) |->
                     IF r \in DOMAIN remindAt THEN remindAt[r] ELSE d - r[2]]
  BY <1>2 DEF track_appeal
<1>4. DOMAIN remindAt' = DOMAIN remindAt \cup ({n} \X Offsets)
  BY <1>3
<1>5. AppealTypeOK'
  <2>1. remindAt' \in [DOMAIN remindAt' -> Int]
    BY <1>3, <1>4, AppealAssumption, LastDayAssumption DEF AppealInv, AppealTypeOK
  <2>2. DOMAIN remindAt' \subseteq Reminders
    BY <1>2, <1>4 DEF AppealInv, AppealTypeOK, Reminders
  <2> QED BY <1>1, <1>4, <2>1, <2>2 DEF AppealInv, AppealTypeOK
<1>6. RunApart'
  BY <1>1, <1>4 DEF AppealInv, RunApart
<1>7. DeliveredForCause'
  BY <1>1 DEF AppealInv, DeliveredForCause, LastingOrHeld
<1> QED BY <1>5, <1>6, <1>7 DEF AppealInv

LEMMA AppealStartStep ==
  ASSUME AppealInv, AppealJobStart
  PROVE  AppealInv'
<1>1. UNCHANGED <<today, remindAt, sent, caseInOffice, hasRecipient, delivered, appealCrashes>>
  BY DEF AppealJobStart
<1>2. /\ ~appealRun.running
      /\ appealRun' = [running |-> TRUE, todo |-> Due, done |-> {}, read |-> {}]
  BY DEF AppealJobStart
<1>3. Due \subseteq DOMAIN remindAt /\ Due \cap sent = {}
  BY DEF Due
<1>4. AppealTypeOK'
  BY <1>1, <1>2, <1>3 DEF AppealInv, AppealTypeOK, AppealRun
<1>5. RunApart'
  BY <1>1, <1>2, <1>3 DEF RunApart
<1>6. DeliveredForCause'
  BY <1>1, <1>2 DEF AppealInv, DeliveredForCause, LastingOrHeld
<1> QED BY <1>4, <1>5, <1>6 DEF AppealInv

LEMMA AppealRemindStep ==
  ASSUME AppealInv, NEW r \in Reminders, AppealJobRemind(r)
  PROVE  AppealInv'
<1>1. UNCHANGED <<today, remindAt, sent, caseInOffice, hasRecipient, appealCrashes>>
  BY DEF AppealJobRemind
<1>2. /\ appealRun \in AppealRun
      /\ appealRun.running /\ r \in appealRun.todo
  <2>1. appealRun # NoAppealRun
    BY DEF AppealJobRemind, NoAppealRun
  <2> QED BY <2>1 DEF AppealInv, AppealTypeOK, AppealJobRemind
<1>3. appealRun' = [appealRun EXCEPT !.todo = @ \ {r}, !.done = @ \cup {r}, !.read = {TRUE}]
  BY DEF AppealJobRemind
<1>4. /\ appealRun' \in AppealRun
      /\ appealRun'.running /\ appealRun'.todo = appealRun.todo \ {r}
      /\ appealRun'.done = appealRun.done \cup {r}
  BY <1>2, <1>3 DEF AppealRun
<1>5. r \notin sent /\ r \notin appealRun.done
  BY <1>2 DEF AppealInv, RunApart
<1>6. delivered' = [delivered EXCEPT ![r] = IF hasRecipient THEN delivered[r] + 1 ELSE delivered[r]]
  BY DEF AppealJobRemind
<1>7. DOMAIN delivered = Reminders /\ appealCrashes \in 0 .. MaxAppealCrashes
  BY DEF AppealInv, AppealTypeOK
<1>8. RunApart'
  BY <1>1, <1>2, <1>4 DEF AppealInv, RunApart
<1>9. DeliveredForCause'
  <2> SUFFICES ASSUME NEW x \in Reminders
               PROVE  /\ delivered'[x] \in Nat
                      /\ delivered'[x] <= (IF LastingOrHeld(x)' THEN 1 ELSE 0) + appealCrashes
    BY <1>1 DEF DeliveredForCause
  <2>1. delivered[x] \in Nat /\ delivered[x] <= (IF LastingOrHeld(x) THEN 1 ELSE 0) + appealCrashes
    BY DEF AppealInv, DeliveredForCause
  <2>2. CASE x = r
    <3>1. ~LastingOrHeld(x) /\ LastingOrHeld(x)'
      BY <1>1, <1>4, <1>5, <2>2 DEF LastingOrHeld
    <3>2. delivered'[x] = delivered[x] \/ delivered'[x] = delivered[x] + 1
      BY <1>6, <1>7, <2>2
    <3> QED BY <1>7, <2>1, <3>1, <3>2, AppealBoundsAssumption
  <2>3. CASE x # r
    <3>1. LastingOrHeld(x)' <=> LastingOrHeld(x)
      BY <1>1, <1>2, <1>4, <2>3 DEF LastingOrHeld
    <3>2. delivered'[x] = delivered[x]
      BY <1>6, <1>7, <2>3
    <3> QED BY <2>1, <3>1, <3>2
  <2> QED BY <2>2, <2>3
<1>10. AppealTypeOK'
  <2>1. delivered' \in [Reminders -> 0 .. 1 + MaxAppealCrashes]
    <3>1. DOMAIN delivered' = Reminders /\ delivered' = [x \in Reminders |-> delivered'[x]]
      BY <1>6, <1>7
    <3>2. ASSUME NEW x \in Reminders PROVE delivered'[x] \in 0 .. 1 + MaxAppealCrashes
      <4>1. /\ delivered'[x] \in Nat
            /\ delivered'[x] <= (IF LastingOrHeld(x)' THEN 1 ELSE 0) + appealCrashes
        BY <1>1, <1>9 DEF DeliveredForCause
      <4> QED BY <1>7, <4>1, AppealBoundsAssumption
    <3> QED BY <3>1, <3>2
  <2> QED BY <1>1, <1>4, <2>1 DEF AppealInv, AppealTypeOK
<1> QED BY <1>8, <1>9, <1>10 DEF AppealInv

LEMMA AppealSkipStep ==
  ASSUME AppealInv, NEW r \in Reminders, AppealJobSkip(r)
  PROVE  AppealInv'
<1>1. UNCHANGED <<today, remindAt, sent, caseInOffice, hasRecipient, delivered, appealCrashes>>
  BY DEF AppealJobSkip
<1>2. appealRun \in AppealRun /\ appealRun.running
  <2>1. appealRun # NoAppealRun
    BY DEF AppealJobSkip, NoAppealRun
  <2> QED BY <2>1 DEF AppealInv, AppealTypeOK, AppealJobSkip
<1>3. appealRun' = [appealRun EXCEPT !.todo = @ \ {r}, !.read = {FALSE}]
  BY DEF AppealJobSkip
<1>4. /\ appealRun' \in AppealRun
      /\ appealRun'.running
      /\ appealRun'.todo = appealRun.todo \ {r} /\ appealRun'.done = appealRun.done
  BY <1>2, <1>3 DEF AppealRun
<1>5. AppealTypeOK'
  BY <1>1, <1>4 DEF AppealInv, AppealTypeOK
<1>6. RunApart'
  BY <1>1, <1>2, <1>4 DEF AppealInv, RunApart
<1>7. DeliveredForCause'
  BY <1>1, <1>2, <1>4 DEF AppealInv, DeliveredForCause, LastingOrHeld
<1> QED BY <1>5, <1>6, <1>7 DEF AppealInv

LEMMA AppealCommitStep ==
  ASSUME AppealInv, AppealJobCommit
  PROVE  AppealInv'
<1>1. UNCHANGED <<today, remindAt, caseInOffice, hasRecipient, delivered, appealCrashes>>
  BY DEF AppealJobCommit
<1>2. /\ appealRun.running /\ sent' = sent \cup appealRun.done
      /\ appealRun' = NoAppealRun /\ ~appealRun'.running
  BY DEF AppealJobCommit, NoAppealRun
<1>3. AppealTypeOK'
  BY <1>1, <1>2 DEF AppealInv, AppealTypeOK, RunApart
<1>4. RunApart'
  BY <1>2 DEF RunApart
<1>5. DeliveredForCause'
  BY <1>1, <1>2 DEF AppealInv, DeliveredForCause, LastingOrHeld
<1> QED BY <1>3, <1>4, <1>5 DEF AppealInv

LEMMA AppealCrashStep ==
  ASSUME AppealInv, AppealJobCrash
  PROVE  AppealInv'
<1>1. UNCHANGED <<today, remindAt, sent, caseInOffice, hasRecipient, delivered>>
  BY DEF AppealJobCrash
<1>2. /\ appealCrashes < MaxAppealCrashes /\ appealCrashes' = appealCrashes + 1
      /\ appealRun' = NoAppealRun /\ ~appealRun'.running
  BY DEF AppealJobCrash, NoAppealRun
<1>3. appealCrashes \in 0 .. MaxAppealCrashes /\ MaxAppealCrashes \in Nat
  BY AppealBoundsAssumption DEF AppealInv, AppealTypeOK
<1>4. AppealTypeOK'
  BY <1>1, <1>2, <1>3 DEF AppealInv, AppealTypeOK
<1>5. RunApart'
  BY <1>2 DEF RunApart
<1>6. DeliveredForCause'
  BY <1>1, <1>2, <1>3 DEF AppealInv, DeliveredForCause, LastingOrHeld
<1> QED BY <1>4, <1>5, <1>6 DEF AppealInv

LEMMA AppealStep ==
  AppealInv /\ [AppealNext]_appealVars => AppealInv'
<1> SUFFICES ASSUME AppealInv, [AppealNext]_appealVars PROVE AppealInv'
  OBVIOUS
<1>1. ASSUME UNCHANGED <<remindAt, sent, appealRun, delivered, appealCrashes>>, AppealTypeOK' PROVE AppealInv'
  BY <1>1 DEF AppealInv, RunApart, DeliveredForCause, LastingOrHeld
<1>2. CASE update_judgment
  BY <1>1, <1>2 DEF update_judgment, AppealInv, AppealTypeOK
<1>3. CASE RecipientsChange
  BY <1>1, <1>3 DEF RecipientsChange, AppealInv, AppealTypeOK
<1>4. CASE AppealDayPasses
  <2>1. today' \in 0 .. LastDay
    BY <1>4, AppealAssumption, LastDayAssumption DEF AppealDayPasses, DayPasses, AppealInv, AppealTypeOK
  <2>2. AppealTypeOK'
    BY <1>4, <2>1 DEF AppealDayPasses, DayPasses, AppealInv, AppealTypeOK
  <2> QED BY <1>1, <1>4, <2>2 DEF AppealDayPasses, DayPasses
<1>5. CASE UNCHANGED appealVars
  BY <1>1, <1>5 DEF appealVars, AppealInv, AppealTypeOK
<1> QED
  BY <1>2, <1>3, <1>4, <1>5, TrackStep, AppealStartStep, AppealRemindStep, AppealSkipStep,
     AppealCommitStep, AppealCrashStep
     DEF AppealNext

LEMMA AppealInvariant ==
  AppealSpec => []AppealInv
BY AppealInitially, AppealStep, PTL DEF AppealSpec

(* The judgment, its reminder rows and the job keep their types; no        *)
(* reminder is delivered more often than there are crashes to blame.       *)
THEOREM AppealTypeCorrect ==
  AppealSpec => []AppealTypeOK
<1>1. AppealInv => AppealTypeOK
  BY DEF AppealInv
<1> QED BY <1>1, AppealInvariant, PTL

(* A client hears of an appeal deadline again only after a crash took the  *)
(* flag with it: at most once, and once for every crash so far.            *)
THEOREM ResentForCause ==
  AppealSpec => []ResentOnlyAfterCrash
<1>1. AppealInv => ResentOnlyAfterCrash
  BY DEF AppealInv, DeliveredForCause, ResentOnlyAfterCrash, AppealTypeOK
<1> QED BY <1>1, AppealInvariant, PTL
=============================================================================
