# Formal models of LexOffice

LexOffice is a multi-tenant back end for law offices: a Flask API over
PostgreSQL, Redis for one-time codes and rate limits, a Celery worker with a
beat scheduler, file storage (local or S3) and e-mail, SMS and push messages.
This directory holds TLA+ models of the parts of it whose correctness depends on
what happens *between* the steps of different actors, the TLC configurations
that check them on small instances, and theorems that TLAPS proves for every
instance.

Paths below are relative to `src/`.

## How the code executes, and what every model assumes

* A web request runs in one of several worker processes. A handler reads
  committed rows, decides, changes the objects it holds and commits once at its
  end. Nothing in the code locks a row it reads (`SELECT ... FOR UPDATE` is used
  nowhere) and PostgreSQL runs at READ COMMITTED, so between a handler's read
  and its commit any other commit may happen. The models split a handler exactly
  there: one action per read that is used later, one for the commit. Two reads
  of one handler are two actions where another commit in between matters.
* SQLAlchemy writes only the columns whose new value differs from the loaded
  one, and writes them absolutely. An UPDATE of a row that is gone fails the
  whole transaction (`StaleDataError`); a DELETE of one is only a warning.
* A violated unique constraint becomes a 409 answer and nothing is kept
  (`app/utils/errors.py`).
* A worker may die between any two of its steps (`Abandon`, `JobCrash`): what is
  committed, mailed or stored stays, the rest is gone.
* A Celery job loads its rows with one query, works through them and commits
  once at its end. `send_notification` sends at once but only adds its row to
  the session, so a crash loses the rows of messages already sent.
* Beat starts the jobs (`app/tasks/celery_app.py`); no task is retried.

## Inventory

| Component (source) | State | Operations | What is hard | What makes it correct |
|---|---|---|---|---|
| Numbering of client files and invoices (`api/clients.py`, `api/financial.py`, `utils/errors.py`) | rows with a label per office | count, insert, soft-delete | count and insert are apart, nothing locks | unique, gapless; a refusal means a lost race |
| Invoice pricing (`api/financial.py`) | amounts, discount, tax | create, partial update | repeated pricing of an already priced row, rounding per column, two updates mixing their columns | the lines add up; a sent invoice keeps its price |
| Invoice status (`api/financial.py`, `tasks/jobs.py`) | status, amount, due date | update, send, set status; overdue job | a job that writes rows it loaded minutes ago | paid stays paid except in a known race; every past-due invoice is flagged |
| Enforcement (`api/enforcement.py`, `api/judgments.py`) | files, payments, `collected_amount` | open, attach, pay, delete payment | read-modify-write of a sum | the sum is right, or at least within bounds |
| Accounts (`api/auth.py`, `api/onboarding.py`, `api/office.py`) | offices, users, invitations, codes | register, verify, invite, accept, change role, deactivate | check-then-insert by racing requests; two inserts per commit | one account per e-mail; no office without its founder |
| One-time codes (`services/cache.py`, `services/auth_service.py`) | Redis key, per-process dictionary | set, get, delete with fallback | each call may fail over separately | only the last, unexpired code counts, once |
| Sessions and tokens (`api/auth.py`, `api/users.py`, `services/auth_service.py`, `utils/decorators.py`, `services/rbac.py`) | password hash, session rows, signed tokens, roles | login, refresh, logout, change, reset, deactivate, any write | logins in flight across a reset; tokens outlive rights | a reset shuts out what came before; rights are read from the row |
| Appeal reminders (`api/judgments.py`, `tasks/jobs.py`) | reminder rows, the judgment's case | track, change the judgment; daily job | messages before flags; a case of another office | never lost while the case is in the office, repeated only by crashes |
| Powers of attorney (`api/poa.py`, `tasks/jobs.py`) | expiry, status | edit; two daily jobs | two writers of one column, from old rows | statuses become right |
| Hearings (`api/sessions.py`, `tasks/jobs.py`) | date, time, result | enter, move, postpone; half-hourly job | nothing records that a reminder was sent | every window met, few repetitions |
| Documents (`api/documents.py`, `api/ai.py`, `services/storage_service.py`, `tasks/jobs.py`) | files, rows, summaries | upload, delete, summarise | file and row are separate; paths have a resolution of a second | rows have files, files have rows |
| Audit log (`utils/audit_middleware.py`) | audit rows | one per successful write | its own transaction, after the handler's | every committed write is logged unless a crash falls between |
| Notifications (`services/notification_service.py`, `api/notifications.py`, `utils/security.py`) | inbox rows, preferences, quiet hours | send, read, delete | quiet hours across midnight | a message is held back in quiet hours and only then |
| Tasks, appointments (`api/tasks.py`, `api/appointments.py`) | single rows | create, edit, delete; hourly overdue message | little | - |
| Cases, clients, templates (`api/cases.py`, `api/clients.py`, `api/templates.py`) | single rows | create, edit | little | - |
| Payments, expenses, reports (`api/financial.py`, `api/reports.py`, `api/dashboard.py`) | inserted rows | insert, aggregate | little | sums over rows |
| Office profile, multi-factor enrolment (`api/office.py`, `api/auth.py`) | single columns, one cache key | edit; enable, verify, disable | the pending secret | - |
| Demo data (`seed/seed_data.py` on the schema of `migrations/versions/`) | all tables | remove the demo offices table by table, add two new ones group by group | 60 foreign keys and no cascade; ids assigned at flush; the API writes meanwhile | offices removed whole or not at all; every id assigned before it is used |
| Metadata, PDF, endpoint tester, configuration | static | - | - | - |

How they interact: requests and jobs meet only in the database; requests of
different processes also in Redis; `Accounts` and `Sessions` consume the codes
`OtpCache` describes; every handler passes `require_permission` (modelled in
`Sessions`) first and the audit hook last; invoices, appeals, hearings and tasks
produce notifications, which `send_notification` holds back or sends on; documents
are the only component whose state is partly outside the database; the demo data
program deletes from every table while requests insert.

## Modules

A variable is a table, a column or a cache key of the code under its own name
where TLA+ allows it; `web` (or `req`) is what each worker has loaded and not
yet committed, `job`, `run` or `task` the same for the Celery worker. Variables
that are in no table record history for the properties: they are named below.
The names of actions are those of the handlers; when a handler is split, its
later steps have names of their own and a comment that starts with "...".
Definitions under a `Mutant` comment are wrong on purpose: each one is a
plausible slip in the definition it stands before and is used by no
specification; replacing that definition by it must make the property named in
`PROJECT.json` fail.

* **NumberLedger** - abstract: a series of numbers issued one after another.
* **OfficeNumbering** - implements it. `CountRows` is the query, `Insert` or
  `Conflict` the commit. Rows of a seeded demo office are counted but carry
  labels of another form, so the first number of such an office is not 1
  (`Seeded`). Soft-deleted clients are counted.
* **InvoiceTotals** - `_calculate_invoice_totals` in exact integer arithmetic
  (units of 1/10000 cent) and the rounding of `Numeric(14,2)`. No state.
* **InvoiceLifecycle** - creation, updates, sending and status changes against
  `invoice_overdue_checker`, priced by InvoiceTotals. A request that has loaded
  its invoice carries the columns it will write (`writes`): an update prices the
  *stored* row, whose subtotal is already discounted, and SQLAlchemy drops the
  columns whose exact value is the loaded one. The job's UPDATEs are flushed one
  by one and lock their rows until its commit (`Locked`). History: `racing`,
  `overlapped`, `mixed`.
* **Enforcement** - the files of judgments and their payments, of any amount:
  the schema has no lower bound. Two overlapping `open_enforcement` requests may
  both insert a file. History: `credit`, `debit`, `overlapped`, `clamped`, `used`.
* **Accounts** - registration, invitations and members. History: `origin` of a
  user row.
* **OtpCache** - one key. Any call may fail over to the caller's dictionary,
  which knows no expiry. History: `latest`, `issued`, `expired`, `accepted`,
  `shared`, `outage`.
* **Sessions** - passwords, refresh sessions, access tokens, role and
  activity. A password is the count of hashes stored so far. A refresh looks its
  session up (`refresh`) and mints the token afterwards (`IssueToken`). `write`
  stands for any handler behind `require_permission`. History: `proved`, `since` and
  `late` of sessions and tokens, `lastReset`, `straddled`, `barred`.
* **Calendar** - the day, which the two daily jobs below compare dates with.
* **AppealReminders** - the reminder rows of a judgment against the daily job.
  `caseInOffice` says whether the judgment's case is one of its own office: the
  API takes the id unchecked, and while it is not the job passes over the rows
  (`AppealJobSkip`). The job looks the judgment up for each row, but its session
  keeps a judgment that is still in use as it first read it: an iteration goes by
  the case as it is now or as the last one read it (`CaseRead`). The deadline
  itself is not kept: the job goes by the dates of the rows. History: `delivered`.
* **PoaStatus** - the status column under two jobs that compute it in different
  words. The messages of `poa_expiry_reminders` change no row and are left out.
  History: `disturbed`.
* **Notices** - `send_notification` and `is_quiet_hours` as operators: which
  channels a message of a type goes out on at a time of day.
* **HearingReminders** - composes Notices with hearings and the half-hourly job,
  in ticks of six minutes. `now` is the start of the latest run, and a run takes
  no time: `send_notification` reads the clock at each message, a run that
  straddles the start or end of quiet hours is not in the model; requests and
  changes of the lawyer's quiet hours fall between runs or into one, whose
  SQLAlchemy session keeps the lawyer's row as it first loaded it
  (`job.lawyer`). `rows` is the inbox, `heard` what went out. History: `due`,
  and `lost`, which counts for each window the crashed runs that had loaded it.
* **Documents** - files, rows and summaries, for the local backend (with S3 the
  summary task stops before it reads). A path is the second of its upload:
  `secure_filename` drops what is not ASCII, so different names, many Arabic ones,
  share a path too.
  History: `at`, `halfDone`.
* **Seeding** - the demo data program. `ForeignKeys` are those of the migration,
  `PurgeOrder` the DELETE statements in their order, `SeedGroups` the rows the
  program adds, with the ids each group copies and the flushes between them. Eight
  inserting handlers are actions: four that take ids from the payload unchecked
  (cases, judgments, payments, enforcement files), one that looks its parent up,
  and those of users, sessions and audit rows. The other handlers that insert
  (clients, hearings, documents, notes, messages and so on) would be further
  instances of the same `Insert` and are left out.
  Rows the API itself deletes, rows without an office (global templates), the
  uniqueness of e-mails and tokens and the API's other updates are left out.
  History: `began`, `taken`, `missing`.
* `MC...` modules add only symmetry sets and values for constants;
  `..._proofs` modules hold the proofs. `Jobs_proofs` is about
  HearingReminders, PoaStatus and AppealReminders, `Sessions_proofs` about
  Sessions and OtpCache; hence the prefixes of names in PoaStatus,
  AppealReminders and OtpCache.

The modules share no variables but the day of Calendar: in the code the components meet only in
the rows named above, and each module contains every writer of its rows (Seeding
apart, whose program is run by hand). Compositions: the refinement of
NumberLedger, InvoiceTotals inside InvoiceLifecycle, Notices inside
HearingReminders. The `Seeded` rows of OfficeNumbering are those of a database
where the demo data is (an import, or a seed that has been repaired: see
Disagreements).

## What the runs check

| Run | Instance | States, time | Question and result |
|---|---|---|---|
| `numbering` | 2 workers, a fresh and a seeded office, 3 records | 3 thousand, 1 s | A series has as many numbers as rows, so no two share one, and no gap; a request is refused exactly when a row was committed after it counted; so a retry that runs alone succeeds, and deleting clients never blocks an office. Counting and inserting implements the ledger. |
| `invoice_lifecycle` | 1 invoice, 2 workers, 3 updates, the job with 1 crash | 1.3 million, 80 s | Printed amounts add up to a cent unless two updates of the invoice overlapped; a sent invoice changes its price only through a request that had loaded it earlier; the job overwrites only an invoice paid or postponed between its query and the iteration that writes it; every past-due invoice is flagged, paid or postponed in the end. |
| `enforcement` | 2 workers, 1 file, 3 payments of 3 amounts, one of them negative | 198 thousand, 6 s | The amount collected never exceeds what was added to the file, nor falls below zero by more than the negative payments recorded. While no two requests on the file overlapped it equals the sum of the payments, until a deletion is cut off at zero, which takes a negative payment, and is never less. |
| `accounts` | 2 workers, e-mails, offices, users, tokens, roles | 621 thousand, 22 s | One account per e-mail; every office has exactly one founder; an accepted invitation made exactly one member. |
| `otp_cache` | 2 processes, 3 codes | 24 thousand, 2 s | While Redis answers, only the latest unexpired code is matched, and it authorises two requests only if both had matched it before either deleted it. |
| `sessions` | 2 workers, 1 user, 2 sessions, 2 password changes | 1.4 million, 40 s | No token issued after a reset goes back to an older password or session, except of logins and refreshes under way at the reset; a write commits for somebody without rights only if they were lost while it was served. |
| `appeal_reminders` | 2 trackings, offsets 7 and 3, 2 deadlines, 6 days, 1 crash | 593 thousand, 62 s | No reminder repeated but by a crash, every due one settled unless its judgment's case is, ever again, one of another office. |
| `poa_status` | 2 powers of attorney, 3 edits, 3 days | 344 thousand, 29 s | A run nothing disturbed leaves every status right; in the end all are. |
| `hearing_reminders` | 2 hearings, 3 windows, gaps of 30 or 36 minutes, 2 pairs of quiet hours, 1 crash | 5.1 million, 130 s | Every window is met by a row in the inbox, and by a message unless quiet hours touch it; a crashed run that had loaded it costs only the 48-hour reminder of hearings in the first 36 minutes of their day. |
| `documents` | 2 workers, 3 documents, 2 seconds | 2.1 million, 48 s | A row has its file and a file its row, but for half-done requests and uploads in one second under names that are stored as one; a summary is of the document's own file under the same exception. |
| `seeding` | 2 offices, 2 runs of the program, 1 API write, interruption anywhere | 165 thousand, 24 s | Demo offices are removed whole or not at all; a purge is refused for three reasons only; one id is read before it is assigned. |
| `seed_demo` | 2 offices, 1 undisturbed run | - | *Fails*: see Disagreements. |

### Why these bounds are enough

The hazards are races of two actors, so two workers (or one worker and the job)
show them; a third row, code, payment or document lets two race while a third
is already there. In `invoice_lifecycle` two updates overlap while the job, the
third actor, runs; three updates let one price what two others have mixed. The
creation is of a price that rounds to half a cent; the updates discount it, set
a price with a date gone by, and change the tax rate, date and status at once.
In `seeding` one API write at a time suffices, because each of the three reasons
for a refusal needs one; the theorems are for any number. One crash
is where the reasoning changes from none to some; in `AppealReminders` the
property counts crashes, and in `HearingReminders` it counts them window by
window. `Deadlines = {4, 8}` with offsets 7 and 3 gives
reminders due before the first day, in the middle and on the last day. `Expiries
= {1, 31}` over days 0 to 2 crosses both thresholds of the status. In
`hearing_reminders` the day has 30 ticks of six minutes instead of 240, so that
the calendar is small: the windows are two days, one day and 14 ticks (30 in the
code) ahead and still apart from each other, slack and gaps are the real ones;
hearings at midnight (what a missing time means) and 36 minutes later
sit on both sides of the date comparison's effect; one pair of quiet hours lies
within a day and one across midnight, and some windows are touched by neither. Every bound is a CONSTANT
(`MaxCrashes`, `MaxAppealCrashes`, `MaxUses`, `MaxEdits`, `MaxTracks`, `MaxPassword`, `MaxWrites`,
`MaxRuns`, `Horizon`, `LastDay`, the id sets). `CHECK_DEADLOCK FALSE` stands where a bounded supply
(ids, codes, time) legitimately runs out.

### Fairness

Only three specifications state it, and only for the jobs: beat starts the
overdue, appeal and power-of-attorney jobs every day, and the single-threaded
body of a started job goes on to its commit unless it crashes, and crashes are
finitely many. Hence weak fairness of `JobStart`, of each iteration (in
`AppealReminders` of one that sends or passes over a row) and of `JobCommit`. Nothing is assumed about users or web workers. In the liveness
properties of `PoaStatus` edits and days end (`MaxEdits`, `LastDay`), which is
what "in the end" means for them. `HearingReminders` needs no fairness: its
`Gaps` say how late a run may be, and `WindowsMet` is a safety property of
runs that keep them.

## What is proved

The proofs are for every value of the constants, under the assumptions named.
Every safety property of a passing run, invariant or action property, is a
theorem.

* **OfficeNumbering_proofs** (`SeededAssumption`: seeded counts are naturals).
  `IInv` is `TypeOK`, finiteness of `rows`, `Gapless` and `Carried`: the number a worker carries is past the seeded ones and at most one
  past the present count. `Gapless` alone is not inductive: an insertion keeps it
  only because a carried number that is free must be the next one, and that
  follows from `Carried` and `Gapless` together. `ConflictIffStale` and the
  refinement of NumberLedger follow from the same invariant: a successful insert
  is an `Issue` of the next number, every other step stutters.
* **Enforcement_proofs** (`AmountsAssumption`: amounts are integers, of either
  sign). `WithinRecorded` is not inductive, since requests store sums of amounts
  they read long ago. `IInv` adds the same bounds for every amount a request
  holds (`ReadsBounded`), which stay true because `credit` and `debit` never
  decrease, and that a file's entries exist together.
  `ExactUnlessOverlapped` needs more, and needs sums. `MapThenSumSet` folds over
  a set in the order `CHOOSE` picks; that the sum over a finite set is any member's
  amount plus the sum over the rest (`TotalSplit`) follows from a smallest set
  for which it fails, without induction over data (`SmallestSet`). On top of `IInv`, `LInv` says that a
  payment about to be recorded has an id nobody else has (`FreshIds`), that on a
  file without overlaps what a request read is still the amount and the payment
  it deletes still there (`ReadsCurrent`), and that the sums are right (`Exact`).
  The property alone is not inductive: a commit stores what was read earlier.
* **InvoiceLifecycle_proofs** (`PayloadsAssumption`: payloads carry columns of
  the schema; `CountsAssumption`). Rounding moves an amount by half a cent at most
  (`StoredNear`), so three rounded amounts add up to a cent if the exact ones do
  (`RoundedAddUp`). For `LinesAddUp`, `IInv` adds `WritesAddUp`: what an update
  is about to write adds up *with the columns it leaves*, which it leaves because
  their exact value is the stored one. `PricesDraft` (a request about to move the
  total has seen a draft that is still one, or has been overtaken) gives
  `PricedWhileDraft`; `MarksDue` (what a run will mark is due or racing) gives
  `OnlyRacingOverwritten`.
* **Jobs_proofs**, three jobs that work on dates.
  - *Hearings* (`CalendarAssumption`: starts of the job are no further apart than
    half a window, `Gaps \subseteq 0 .. Slack`, and no window but the first
    reaches beyond two days; both are read off the code's numbers;
    `BoundsAssumption`). The first start in a window lies before its middle, so
    that the next one is still in it. `DueMet` lists where a window that is due
    can stand in this course: not open, loaded by a run, to be loaded again after
    a crash, late because the query compares dates, in the inbox, or excused by
    `lost`; `OpenIsLoaded` says which open windows the date comparison can miss,
    `WorkKept` that a run forgets nothing it loaded. `EveryWindowMet` is about
    any number of crashes: only the crash of every run that loaded a window costs
    its reminder. For `AudibleIsHeard`, `QuietIsBetween` shows the code's
    comparison of the time of day to be no wider than a clock's, so that what no
    quiet hours touch is sent whenever in its window the run asks (`HeardKept`).
  - *Powers of attorney* (`PoaAssumption`: dates are integers). Lemma
    `ClassifiersAgree`: the two jobs' formulas are the same function. `PoaInv` adds
    the shape of runs and `FreshRun`: an undisturbed run holds exactly the
    committed rows that have an expiry date; with both, `RightAfterQuietRun`.
  - *Appeals* (`AppealAssumption`: offsets and deadlines are integers;
    `AppealBoundsAssumption`). `ResentOnlyAfterCrash`
    alone does not say what a sent flag stands for; `DeliveredForCause`
    says that every delivery is paid for by the flag, committed or still held by
    the run, or by a crash, and `RunApart` that a reminder a run has delivered is
    not one it still has to deliver.
* **Accounts_proofs** (`TokensAssumption`: no invitation has the token that
  marks founders; `RolesAssumption`). `IInv` replaces the two cardinalities by
  quantifiers: `Founded` (there is a founder, and any other is the same) and
  `Accepted` (an accepted invitation has made one member of its office and
  e-mail, an open one none), and adds `Known`: what a request has loaded is never
  removed. That each invitation makes one member although two requests may have
  read it open rests on the unique e-mail, not on the `accepted` flag.
* **Sessions_proofs** (`BoundAssumption`). Everything that may still give a token
  must go back to the last reset: `IInv` says so of logins and refreshes under way
  (`RequestsProve`, unless a reset straddled them) and of sessions
  (`SessionsProve`), that no token claims a later reset than there was
  (`TokensDated`), and `Rights`: a write under way that nothing barred has them.
  Its second half proves the properties of OtpCache (`CodesAssumption`: no code
  is the mark for none). The cache and the requests hold only codes that
  were issued (`OtpKnown`), and until a Redis call fails its key holds the last
  one, while young (`OtpCurrent`, hence `MatchedIsCurrent`); until then a code that
  was never matched by two at once is gone from the cache and from every request
  when it has been accepted (`OtpSpent`), and one never issued authorised nobody
  (`OtpUnissued`): `UsedOnce`.
* **Documents_proofs** (`SecondsAssumption`). `Placed`: rows, files, requests and
  the summary task all name the path of their document's upload; this alone gives
  `SummaryOfOwnFile`. `Owned` and `Unlinked` say whose a file is and that it is
  gone once its deletion has reached the row: `FileHasRow`. `RowFiled` is
  `RowHasFile` with the one kind of request that may excuse a missing file, a
  deletion already past it; a deletion that finds no file and stops is excused by
  the other one that removed it. `InsertAlone` keeps uploads apart.
* **Seeding_proofs** (`BoundsAssumption`, and the schema written in the module).
  `PurgeAllOrNothing` needs that a purge at its end has deleted every row of the
  offices it read: a row the API inserted late holds its parent back, whose own
  DELETE, at the latest that of the offices, would have been refused. `PurgeBlockedOnlyBy`
  is the statement that `PurgeOrder` is a reverse topological order of
  `ForeignKeys` without `Optional`, for rows older than the run. The second part
  follows the program through its groups: `Waiting` says that no table whose ids
  another group reads has rows that are not flushed, except the invoices
  (`OnlyInvoiceIdUnassigned`), and that these wait until the audit trail has read
  them; the flush of the audit rows then fails. So no run of the program, on
  any data and with any number of API writes, reaches its end
  (`NeverSeededTheorem`).

Only model-checked: the liveness properties `PastDueFlagged`,
`EveryReminderSettled` and `EventuallyRight`, since TLAPS does not reason about
fairness.

## Disagreements between the code and what it says

* `seed_demo`: `README.md:70` says of the seed "This seeds full demo data (2
  offices, ...)". The seed reads `invoices[0].id` for an audit row before the
  invoices are flushed; the id is still `None`, `audit_logs.entity_id` is NOT NULL,
  and the flush fails. The old demo offices have been removed and committed by
  then. The run is an undisturbed start of the program on any of the databases;
  `NeverSeededTheorem` proves the same of every start, however many offices there
  are and whatever the API writes meanwhile.

Seen while modelling, allowed for in the models, without a run of their own:

* `update_invoice` answers "Only draft invoices can be updated" by the status it
  loaded, and commits later without another look; if the invoice is sent in
  between, its amount changes all the same. `PricedWhileDraft` names the
  exception.
* Two updates of one invoice each write the columns they changed; the amounts of
  one may end up beside those of the other (`mixed`).
* An update without a price discounts the discounted subtotal again
  (`merged = model_to_dict(invoice)`); each PUT lowers the total.
* A tax rate of 0 is falsy and becomes 14 percent; `tax_enabled = false` is the
  way to charge none.
* The purge of the seed deletes `judgments` before the `enforcement_files` that
  may name them: it is refused once a demo office has opened such a file.
* Quiet hours are compared with `utcnow()` while beat runs on Cairo time. With
  the default hours (22:00 to 8:00) the 7:30 digest and the 9:00 messages about
  powers of attorney, two or three hours earlier in UTC, fall into them and reach
  nobody outside the inbox. Quiet hours that start when they end cover the whole day.
* A hearing's 48- and 24-hour windows are at the hour of the hearing: quiet hours
  that reach to it silence both.
* Two overlapping `open_enforcement` requests open two files for a judgment.
* Payments may be negative (`schemas/core.py:201`). One of -5 alone makes
  `collected_amount` -5. Recording 3 and -5 and deleting the 3 stores
  `max(-5, 0)` = 0, beside a payment of -5: no overlap is needed.
* A judgment may name a case of another office (`judgments.py:39,62`). The appeal
  job then passes over its reminders, silently, every day.
* A refresh that races a reset may still be given an access token for the session
  the reset has just deleted (`late`); the token lives its hour.
* During a Redis outage a code lives in a dictionary without expiry, longer than
  the ten minutes announced, and a used code whose deletion failed over to the
  dictionary is still in Redis and matches again.
* Appeal reminders entered late are sent with their nominal number of days in
  the text, not the days left; moving the deadline leaves their dates.
* A postponed hearing keeps its date and its reminders.
* The reminders of powers of attorney go out on the day that is exactly 30, 7 or
  1 days ahead; a day without a run loses them.
* The only owner of an office may demote or deactivate himself.
* Changing a password keeps all sessions; a reset deletes them. A change that
  was verified before a reset may commit after it and replaces its password.
* The audit row is committed after the handler's own commit; a crash in between
  loses it.

## What is not modelled, and why

Listing and reporting endpoints change nothing. Cases, client records,
templates, tasks and appointments are single-row edits without a second actor
that reads them back; `task_overdue_checker` and `daily_digest` only send
messages, every time they run. An inbox row is read, marked and deleted by its
own user only. Payments and expenses are inserted and summed. Channel
preferences, e-mail, SMS and push are fire-and-forget calls that catch their own
failures. Multi-factor enrolment keeps a pending secret in the cache and reads it
once; the office profile is single columns. Rate limits and the CSRF header are
configuration of libraries. PDF output, metadata and the endpoint tester hold no
state. Time zones are outside the models: the jobs use UTC, hearings are entered
in local time. Nothing deletes a judgment but the demo data program, so the job
always finds the judgment of a reminder.

## What could be added

Numbering (with its ledger), invoices, enforcement, accounts, codes, sessions and
tokens, appeal reminders, powers of attorney, hearings with notifications,
documents and the demo data were modelled in this order, most important first.
The parts left out above have no second actor to race with; the candidates
with some state of their own are, in order: the audit log as a second transaction;
the messages of `poa_expiry_reminders`; the pending secret of multi-factor
enrolment on top of OtpCache's key. All safety
properties are proved; worth adding as theorems are the single steps the liveness
arguments rest on (a started job leaves less to do with each iteration, and its
commit settles what it was started for).
