--------------------------- MODULE InvoiceLifecycle ---------------------------
(***************************************************************************)
(* Invoices from creation to payment under concurrent web requests and the *)
(* daily overdue job (api/financial.py, tasks/jobs.py): what they amount   *)
(* to and in which status they are.                                        *)
(*                                                                         *)
(* Every transaction reads committed rows first and writes later.  A web   *)
(* handler writes and commits in one step.  The job loads all its rows up  *)
(* front and writes them one at a time (the next query flushes the change) *)
(* in a transaction it commits at the end: until then other readers see    *)
(* the old row and other writers of that row wait.  SQLAlchemy writes only *)
(* the columns whose new value differs from the loaded one.                *)
(***************************************************************************)
EXTENDS InvoiceTotals, FiniteSets

CONSTANTS Invoices, Workers,
          Creations,    \* payloads of POST /invoices
          Updates,      \* partial payloads of PUT /invoices/<id>, "due" among their fields
          MaxEdits,     \* how many updates are begun
          MaxCrashes    \* how often the Celery worker may die in the job

Status == {"draft", "sent", "paid", "overdue"}
Due == {"keep", "past", "future"}

(* What each column holds.                                                 *)
Column == [status |-> Status, subtotal |-> Int, tax_amount |-> Int, total |-> Int,
           discount_type |-> DiscountTypes, discount_value |-> Int,
           tax_enabled |-> BOOLEAN, tax_rate |-> Int]
Columns(f) == DOMAIN f \subseteq DOMAIN Column /\ \A c \in DOMAIN f : f[c] \in Column[c]
Row(f) == DOMAIN f = DOMAIN Column /\ Columns(f)

ASSUME CountsAssumption == MaxEdits \in Nat /\ MaxCrashes \in Nat
ASSUME PayloadsAssumption ==
  /\ \A p \in Creations : DOMAIN p = DOMAIN Column \ {"tax_amount", "total"} /\ Columns(p)
  /\ \A u \in Updates : \A f \in DOMAIN u :
       IF f = "due" THEN u[f] \in Due ELSE f \in DOMAIN Column /\ u[f] \in Column[f]

VARIABLES inv,        \* the committed row of each invoice, or NoInvoice
          past,       \* invoices whose due date lies before today
          web,        \* the request each web worker serves
          overlapped, \* updates under way and what wrote their invoice since they loaded it
          mixed,      \* invoices last priced by an update that another update overlapped
          job,        \* the run of invoice_overdue_checker
          racing,     \* invoices paid or postponed after the run loaded them, before it wrote them
          edits, crashes

vars == <<inv, past, web, overlapped, mixed, job, racing, edits, crashes>>

NoInvoice == [status |-> "none"]

Idle == [op |-> "idle"]
\* A handler that has loaded its invoice: the columns it will write.
Busy(q) == /\ q.op \in {"update", "send", "status"} /\ q.inv \in Invoices /\ q.due \in Due
           /\ Columns(q.writes)
NoRun == [running |-> FALSE]
Run == [running : {TRUE}, loaded : SUBSET Invoices, flagged : SUBSET Invoices,
        todo : SUBSET Invoices, written : SUBSET Invoices]

TypeOK ==
  /\ \A i \in Invoices : inv[i] = NoInvoice \/ Row(inv[i])
  /\ past \subseteq Invoices /\ racing \subseteq Invoices /\ mixed \subseteq Invoices
  /\ overlapped \subseteq Workers \X {"update", "send", "status", "job"}
  /\ \A w \in Workers : web[w] = Idle \/ Busy(web[w])
  /\ job \in Run \cup {NoRun}
  /\ edits \in 0 .. MaxEdits /\ crashes \in 0 .. MaxCrashes

Init ==
  /\ inv = [i \in Invoices |-> NoInvoice]
  /\ past = {} /\ overlapped = {} /\ mixed = {}
  /\ web = [w \in Workers |-> Idle]
  /\ job = NoRun
  /\ racing = {} /\ edits = 0 /\ crashes = 0

(* The columns of new, and of row where new has none.                      *)
Over(new, row) ==
  [c \in DOMAIN new \cup DOMAIN row |-> IF c \in DOMAIN new THEN new[c] ELSE row[c]]

Issued == {i \in Invoices : inv[i] # NoInvoice}

-----------------------------------------------------------------------------
(* create_invoice: the amounts replace the payload's, the rest is kept.    *)
Rounded(a) == [c \in DOMAIN a |-> Stored(a[c])]
create_invoice(i, p) ==
  /\ i \notin Issued
  /\ inv' = [inv EXCEPT ![i] = Over(Rounded(Amounts(p)), p)]
  /\ UNCHANGED <<past, web, overlapped, mixed, job, racing, edits, crashes>>

(* Web requests on an invoice: load the row ...                            *)
Load(w, op, i, writes, due) ==
  /\ i \in Issued
  /\ web[w] = Idle
  /\ web' = [web EXCEPT ![w] = [op |-> op, inv |-> i, writes |-> writes, due |-> due]]
  /\ UNCHANGED <<inv, past, overlapped, mixed, job, racing, crashes>>

Differing(row, new) == [c \in {d \in DOMAIN new : new[d] # row[d]} |-> new[c]]

\* Mutant: any invoice may be updated.
UpdateAnyStatus(w, i, u) ==
  LET moved == Rounded(Amounts(Over(u, inv[i]))) IN
  /\ i \in Issued
  /\ edits < MaxEdits
  /\ edits' = edits + 1
  /\ Load(w, "update", i, Differing(inv[i], moved), "keep")

(* update_invoice: drafts only.  The amounts are computed again from the   *)
(* payload over the stored row, whose subtotal is discounted already; each *)
(* is written if the exact value is not the loaded one.                    *)
update_invoice(w, i, u) ==
  LET row     == inv[i]
      amounts == Amounts(Over(u, row))
      moved   == {c \in DOMAIN amounts : amounts[c] # row[c] * Exact}
      kept    == [f \in DOMAIN u \ (DOMAIN amounts \cup {"due"}) |-> u[f]]
  IN
  /\ i \in Issued /\ row.status = "draft"
  /\ edits < MaxEdits
  /\ edits' = edits + 1
  /\ Load(w, "update", i, Over([c \in moved |-> Stored(amounts[c])], Differing(row, kept)),
          IF "due" \in DOMAIN u THEN u.due ELSE "keep")

(* send_invoice mails the client and then stores "sent", whatever it was.  *)
send_invoice(w, i) ==
  /\ Load(w, "send", i, Differing(inv[i], [status |-> "sent"]), "keep")
  /\ UNCHANGED edits

\* Mutant: the enum column accepts any string.
UnvalidatedStatus(w, i, s) ==
  /\ Load(w, "status", i, [status |-> "cancelled"], "keep")
  /\ UNCHANGED edits
(* update_invoice_status: any status may follow any other.                 *)
update_invoice_status(w, i, s) ==
  /\ Load(w, "status", i, Differing(inv[i], [status |-> s]), "keep")
  /\ UNCHANGED edits

(* ... then write what changed and commit.  A row the job has written is   *)
(* locked until the job commits, so an UPDATE of it waits.                 *)
Locked == IF job.running THEN job.written ELSE {}
Updating(I) == {v \in Workers : web[v].op = "update" /\ web[v].inv \in I}

Commit(w) ==
  LET q      == web[w]
      update == DOMAIN q.writes # {} \/ q.due # "keep"
  IN
  /\ q # Idle
  /\ update => q.inv \notin Locked
  /\ inv' = [inv EXCEPT ![q.inv] = Over(q.writes, @)]
  /\ past' = CASE q.due = "past"   -> past \cup {q.inv}
              [] q.due = "future" -> past \ {q.inv}
              [] OTHER            -> past
  /\ mixed' = IF q.op # "update" THEN mixed
              ELSE IF <<w, "update">> \in overlapped THEN mixed \cup {q.inv} ELSE mixed \ {q.inv}
  /\ overlapped' = {o \in overlapped : o[1] # w} \cup (IF update THEN Updating({q.inv}) \ {w} ELSE {}) \X {q.op}
  /\ racing' = IF job.running /\ q.inv \in job.todo /\ (inv'[q.inv].status = "paid" \/ q.inv \notin past')
                 THEN racing \cup {q.inv} ELSE racing
  /\ web' = [web EXCEPT ![w] = Idle]
  /\ UNCHANGED <<job, edits, crashes>>

(* Midnight passes some due date.                                          *)
DueDatePasses(i) ==
  /\ i \in Issued \ past
  /\ past' = past \cup {i}
  /\ UNCHANGED <<inv, web, overlapped, mixed, job, racing, edits, crashes>>

-----------------------------------------------------------------------------
\* Mutant: the query forgets status != "paid".
AllPastDue == past
\* Mutant: the query asks for status == "sent".
SentPastDue == {i \in past : inv[i].status = "sent"}
(* The query of invoice_overdue_checker.                                   *)
Overdue == {i \in past : inv[i].status # "paid"}

(* Rows loaded as overdue already are notified about but not written.      *)
JobStart ==
  /\ ~job.running
  /\ job' = [running |-> TRUE, loaded |-> Overdue, todo |-> Overdue, written |-> {},
             flagged |-> {i \in Overdue : inv[i].status = "overdue"}]
  /\ racing' = {}
  /\ UNCHANGED <<inv, past, web, overlapped, mixed, edits, crashes>>

(* One iteration: set overdue; the User query that follows flushes it.     *)
JobInvoice(i) ==
  /\ job.running
  /\ i \in job.todo
  /\ job' = [job EXCEPT !.todo = @ \ {i},
                        !.written = IF i \in job.flagged THEN @ ELSE @ \cup {i}]
  /\ UNCHANGED <<inv, past, web, overlapped, mixed, racing, edits, crashes>>

JobCommit ==
  /\ job.running
  /\ job.todo = {}
  /\ inv' = [i \in Invoices |-> IF i \in job.written THEN [inv[i] EXCEPT !.status = "overdue"] ELSE inv[i]]
  /\ overlapped' = overlapped \cup (Updating(job.written) \X {"job"})
  /\ job' = NoRun
  /\ UNCHANGED <<past, web, mixed, racing, edits, crashes>>

(* The worker dies or a query fails: nothing of the run is kept.           *)
JobCrash ==
  /\ job.running
  /\ crashes < MaxCrashes
  /\ crashes' = crashes + 1
  /\ job' = NoRun
  /\ UNCHANGED <<inv, past, web, overlapped, mixed, racing, edits>>

-----------------------------------------------------------------------------
Next ==
  \/ \E i \in Invoices, p \in Creations : create_invoice(i, p)
  \/ \E w \in Workers, i \in Invoices :
       \/ \E u \in Updates : update_invoice(w, i, u)
       \/ send_invoice(w, i)
       \/ \E s \in Status : update_invoice_status(w, i, s)
  \/ \E w \in Workers : Commit(w)
  \/ \E i \in Invoices : DueDatePasses(i)
  \/ JobStart
  \/ \E i \in Invoices : JobInvoice(i)
  \/ JobCommit
  \/ JobCrash

(* Beat starts the job every day and Celery runs it.                       *)
Fairness == WF_vars(JobStart) /\ WF_vars(\E i \in Invoices : JobInvoice(i)) /\ WF_vars(JobCommit)

Spec == Init /\ [][Next]_vars /\ Fairness

-----------------------------------------------------------------------------
(* The job marks overdue only invoices that are due and unpaid, except one *)
(* paid or postponed between the run's one query and the iteration that    *)
(* wrote it: never one already paid when the run started, never one paid   *)
(* after its iteration (that request waits and has the last word).         *)
OnlyRacingOverwritten ==
  [][JobCommit => \A i \in Invoices :
       inv'[i].status # inv[i].status =>
         (i \in past /\ inv[i].status # "paid") \/ i \in racing]_vars

(* Every invoice past its due date is sooner or later flagged, paid or     *)
(* postponed, although requests keep sending it and the worker may die.    *)
PastDueFlagged ==
  \A i \in Invoices : i \in past ~> inv[i].status \in {"overdue", "paid"} \/ i \notin past

(* The three amounts printed on an invoice add up, to the cent that        *)
(* rounding each of them may cost, unless its last update had loaded the   *)
(* row before another update wrote it: then each column is whichever       *)
(* request wrote it, until an update that none overlaps prices it anew.    *)
LinesAddUp ==
  \A i \in Issued \ mixed : Apart(inv[i].total, inv[i].subtotal + inv[i].tax_amount) <= 1

(* Once an invoice is no draft its amounts stay, except for an update that *)
(* had loaded it as a draft (financial.py: "Only draft invoices can be     *)
(* updated").                                                              *)
PricedWhileDraft ==
  [][\A w \in Workers, i \in Issued :
       Commit(w) /\ inv[i].status # "draft" /\ inv'[i].total # inv[i].total =>
         \E o \in overlapped : o[1] = w]_vars
=============================================================================
