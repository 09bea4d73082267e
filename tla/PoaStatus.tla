------------------------------- MODULE PoaStatus -------------------------------
(***************************************************************************)
(* The status column of powers of attorney: two Celery jobs compute it     *)
(* from the expiry date, each in its own words (poa_expiry_reminders and   *)
(* poa_status_updater of tasks/jobs.py), while requests edit and delete    *)
(* the rows (api/poa.py).  A job loads all rows, computes, and writes the  *)
(* rows whose status it changed in one commit; if one of those rows has    *)
(* been deleted meanwhile the whole commit fails (StaleDataError).         *)
(* The messages of the reminder job change no row and are left out.        *)
(***************************************************************************)
EXTENDS Calendar, FiniteSets

CONSTANTS Poas,       \* ids of powers of attorney
          Expiries,   \* expiry dates in use, as day numbers
          NoExpiry,   \* what the expiry_date column of an open-ended one holds
          MaxEdits    \* bound on requests that create, edit or delete rows

ASSUME PoaAssumption ==
  Expiries \subseteq Int /\ NoExpiry \notin Expiries /\ MaxEdits \in Nat

Jobs == {"reminders", "updater"}
Status == {"active", "expiring_soon", "expired"}

VARIABLES poa,         \* committed rows: id -> expiry and status
          run,         \* each job's run: the rows it loaded and the day it ran
          disturbed,   \* jobs during whose run a row, the date or the other job moved
          edits

poaVars == <<today, poa, run, disturbed, edits>>

Row == [expiry : Expiries \cup {NoExpiry}, status : Status]
NoPoaRun == [running |-> FALSE]

PoaTypeOK ==
  /\ today \in 0 .. LastDay
  /\ DOMAIN poa \subseteq Poas /\ poa \in [DOMAIN poa -> Row]
  /\ DOMAIN run = Jobs
  /\ \A j \in Jobs : run[j] = NoPoaRun \/ run[j].loaded \in [DOMAIN run[j].loaded -> Row]
  /\ disturbed \subseteq Jobs
  /\ edits \in 0 .. MaxEdits

PoaInit ==
  /\ today = 0 /\ poa = <<>>
  /\ run = [j \in Jobs |-> NoPoaRun]
  /\ disturbed = {} /\ edits = 0

Running == {j \in Jobs : run[j].running}

-----------------------------------------------------------------------------
\* Mutant: the last day is already expired.
ByDateLastDay(expiry, day) ==
  IF expiry <= day THEN "expired" ELSE IF expiry <= day + 30 THEN "expiring_soon" ELSE "active"

\* Mutant: a status that the enum does not have.
ByDateMisspelt(expiry, day) ==
  IF expiry < day THEN "expired" ELSE IF expiry <= day + 30 THEN "expiring" ELSE "active"

(* poa_expiry_reminders counts the days left ...                           *)
ByDaysLeft(expiry, day) ==
  LET days_left == expiry - day IN
  IF days_left < 0 THEN "expired" ELSE IF days_left <= 30 THEN "expiring_soon" ELSE "active"

(* ... poa_status_updater compares dates.                                  *)
ByDate(expiry, day) ==
  IF expiry < day THEN "expired" ELSE IF expiry <= day + 30 THEN "expiring_soon" ELSE "active"

Computed(j, expiry, day) ==
  IF j = "reminders" THEN ByDaysLeft(expiry, day) ELSE ByDate(expiry, day)

(* What the row ought to say on a given day.                               *)
Right(row, day) ==
  row.expiry = NoExpiry \/ row.status = ByDaysLeft(row.expiry, day)

-----------------------------------------------------------------------------
(* create_poa, update_poa, delete_poa: the payload may carry any expiry    *)
(* date and any status, related or not.                                    *)
Edited == edits < MaxEdits /\ edits' = edits + 1 /\ disturbed' = disturbed \cup Running

create_poa(p, row) ==
  /\ p \notin DOMAIN poa
  /\ poa' = [q \in DOMAIN poa \cup {p} |-> IF q = p THEN row ELSE poa[q]]
  /\ Edited /\ UNCHANGED <<today, run>>

update_poa(p, row) ==
  /\ p \in DOMAIN poa
  /\ poa' = [poa EXCEPT ![p] = row]
  /\ Edited /\ UNCHANGED <<today, run>>

delete_poa(p) ==
  /\ poa' = [q \in DOMAIN poa \ {p} |-> poa[q]]
  /\ Edited /\ UNCHANGED <<today, run>>

PoaDayPasses ==
  /\ DayPasses
  /\ disturbed' = disturbed \cup Running
  /\ UNCHANGED <<poa, run, edits>>

-----------------------------------------------------------------------------
(* A run loads the rows that have an expiry date.                          *)
PoaJobStart(j) ==
  /\ ~run[j].running
  /\ LET withExpiry == {p \in DOMAIN poa : poa[p].expiry # NoExpiry} IN
       run' = [run EXCEPT ![j] =
         [running |-> TRUE, day |-> today, loaded |-> [p \in withExpiry |-> poa[p]]]]
  /\ disturbed' = disturbed \ {j}
  /\ UNCHANGED <<today, poa, edits>>

NewStatus(j, p) == Computed(j, run[j].loaded[p].expiry, run[j].day)
Written(j) == {p \in DOMAIN run[j].loaded : NewStatus(j, p) # run[j].loaded[p].status}

(* The commit writes the changed rows, all or, if one is gone, none.       *)
PoaJobCommit(j) ==
  /\ run[j].running
  /\ poa' = IF Written(j) \subseteq DOMAIN poa
              THEN [p \in DOMAIN poa |->
                     IF p \in Written(j) THEN [poa[p] EXCEPT !.status = NewStatus(j, p)] ELSE poa[p]]
              ELSE poa
  /\ run' = [run EXCEPT ![j] = NoPoaRun]
  /\ disturbed' = IF poa' = poa THEN disturbed ELSE disturbed \cup (Running \ {j})
  /\ UNCHANGED <<today, edits>>

PoaNext ==
  \/ \E p \in Poas, row \in Row : create_poa(p, row) \/ update_poa(p, row)
  \/ \E p \in DOMAIN poa : delete_poa(p)
  \/ PoaDayPasses
  \/ \E j \in Jobs : PoaJobStart(j) \/ PoaJobCommit(j)

(* Beat starts both jobs every day; either alone would do.                 *)
PoaFairness == \A j \in Jobs : WF_poaVars(PoaJobStart(j)) /\ WF_poaVars(PoaJobCommit(j))

PoaSpec == PoaInit /\ [][PoaNext]_poaVars /\ PoaFairness

-----------------------------------------------------------------------------
(* A run that nothing disturbed leaves every row right, whichever of the   *)
(* two jobs it was.                                                        *)
RightAfterQuietRun ==
  [][\A j \in Jobs : PoaJobCommit(j) /\ j \notin disturbed =>
       \A p \in DOMAIN poa : Right(poa[p], today)']_poaVars

(* Once edits and days stop, all rows become right and stay so: stale      *)
(* writes, failed commits and the two jobs undoing each other all heal.    *)
EventuallyRight == <>[](\A p \in DOMAIN poa : Right(poa[p], today))
=============================================================================
