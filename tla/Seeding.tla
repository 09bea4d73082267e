-------------------------------- MODULE Seeding --------------------------------
(***************************************************************************)
(* The demo data program (seed/seed_data.py) on the tables of the schema   *)
(* (migrations/versions/5303b752c2e1), while the API keeps serving.        *)
(*                                                                         *)
(* run_seed first removes the offices whose bar number has the demo prefix,*)
(* a bulk DELETE per table, and commits; then it adds the rows of two new  *)
(* offices in one transaction it commits at the end.  No foreign key       *)
(* cascades: PostgreSQL refuses a DELETE that would leave a committed row  *)
(* without its parent, and the program dies.  A model's id is assigned     *)
(* when its INSERT is flushed, not when it is constructed.                 *)
(*                                                                         *)
(* One row per office and table stands for those there before the program  *)
(* started; the API inserts later ones.  The rows the program adds itself  *)
(* are seen by nobody until its commit: they are represented by the tables *)
(* still waiting for a flush.                                              *)
(***************************************************************************)
EXTENDS Naturals, Sequences, FiniteSets

CONSTANTS Offices,
          MaxWrites,  \* bound on API writes
          MaxRuns     \* how often the program is started

ASSUME BoundsAssumption == MaxWrites \in Nat /\ MaxRuns \in Nat

(* The numbers of OFFICE_SPECS stand for all with the demo prefix, "none"  *)
(* for any other number and for NULL.                                      *)
DemoBars == {"cairo", "alex"}
Bars == DemoBars \cup {"none"}

-----------------------------------------------------------------------------
(* Foreign keys, child to parent.  Accounts ...                            *)
AccountKeys ==
  ({"legal_templates", "users", "audit_logs"} \X {"offices"})
    \cup ({"active_sessions", "audit_logs"} \X {"users"})

(* ... clients, files, invitations, inbox ...                              *)
ClientKeys ==
  {"clients", "documents", "member_invites", "notifications"} \X {"offices", "users"}

(* ... cases and what hangs on them ...                                    *)
CaseKeys ==
  ({"cases", "client_appointments", "client_documents"} \X {"offices", "clients", "users"})
    \cup ({"case_notes"} \X {"offices", "cases", "users"})

(* ... the books and the judgments ...                                     *)
BookKeys ==
  ({"expenses", "invoices", "payments"} \X {"offices", "clients", "cases", "users"})
    \cup ({"judgments"} \X {"offices", "cases", "users"})

(* ... and the work that follows.                                          *)
WorkKeys ==
  ({"powers_of_attorney"} \X {"offices", "clients", "cases", "users"})
    \cup ({"sessions", "tasks"} \X {"offices", "cases", "users"})
    \cup ({"appeal_reminders"} \X {"offices", "judgments"})
    \cup ({"enforcement_files"} \X {"offices", "cases", "judgments"})
    \cup {<<"enforcement_payments", "enforcement_files">>}

ForeignKeys == AccountKeys \cup ClientKeys \cup CaseKeys \cup BookKeys \cup WorkKeys
Tables == {"offices"} \cup {k[1] : k \in ForeignKeys}
Parents(t) == {p \in Tables : <<t, p>> \in ForeignKeys}

(* The link of an enforcement file to its judgment may be NULL.            *)
Optional == {<<"enforcement_files", "judgments">>}

(* Tables without an office_id belong to an office through this parent.    *)
Owner(t) == CASE t = "active_sessions"      -> "users"
              [] t = "enforcement_payments" -> "enforcement_files"
              [] OTHER                      -> "offices"

-----------------------------------------------------------------------------
\* Mutant: clients before the cases that name them.
ClientsBeforeCases ==
  << "enforcement_payments", "active_sessions", "audit_logs", "notifications", "documents",
     "client_appointments", "tasks", "expenses", "invoices", "payments",
     "powers_of_attorney", "appeal_reminders", "judgments", "sessions", "case_notes",
     "enforcement_files", "client_documents", "member_invites",
     "legal_templates", "clients", "cases", "users", "offices" >>
(* The DELETE statements of _purge_existing_demo_data, in their order.     *)
PurgeOrder ==
  << "enforcement_payments", "active_sessions", "audit_logs", "notifications", "documents",
     "client_appointments", "tasks", "expenses", "invoices", "payments",
     "powers_of_attorney", "appeal_reminders", "judgments", "sessions", "case_notes",
     "enforcement_files", "cases", "client_documents", "member_invites",
     "legal_templates", "clients", "users", "offices" >>

(* A group of rows added together: the tables whose ids go into a NOT NULL *)
(* column of theirs, and whether the session is flushed right after.       *)
Added(t, reads)   == [table |-> t, reads |-> reads, flush |-> FALSE]
Flushed(t, reads) == [table |-> t, reads |-> reads, flush |-> TRUE]

\* Mutant: a table the schema does not have.
TemplatesMisnamed == << Added("templates", {}) >>
(* _seed_default_templates.                                                *)
TemplateGroup == << Added("legal_templates", {}) >>
(* _seed_office: the office, its six users (_create_user), open sessions.  *)
AccountGroups ==
  << Flushed("offices", {}), Flushed("users", {"offices"}), Added("active_sessions", {"users"}) >>
\* Mutant: the flush after the clients is forgotten.
ClientsUnflushed ==
  << Added("clients", {"offices", "users"}),
     Added("client_documents", {"offices", "users", "clients"}) >>
ClientGroups ==
  << Flushed("clients", {"offices", "users"}),
     Added("client_documents", {"offices", "users", "clients"}) >>
CaseGroups ==
  << Flushed("cases", {"offices", "users", "clients"}),
     Added("case_notes", {"offices", "users", "cases"}) >>
HearingGroups ==
  << Flushed("sessions", {"offices", "users", "cases"}),
     Flushed("judgments", {"offices", "users", "cases"}),
     Added("appeal_reminders", {"offices", "judgments"}) >>
EnforcementGroups ==
  << Flushed("enforcement_files", {"offices", "cases", "judgments"}),
     Added("enforcement_payments", {"enforcement_files"}),
     Added("powers_of_attorney", {"offices", "users", "clients", "cases"}) >>
MoneyGroups ==
  << Added("payments", {"offices", "users", "clients", "cases"}),
     Added("invoices", {"offices", "users", "clients", "cases"}),
     Added("expenses", {"offices", "users", "clients", "cases"}) >>
WorkGroups ==
  << Added("tasks", {"offices", "users", "cases"}),
     Added("client_appointments", {"offices", "users", "clients"}),
     Added("documents", {"offices", "users", "cases", "clients", "sessions"}) >>
TrailGroups ==
  << Added("notifications", {"offices", "users"}),
     Added("audit_logs", {"offices", "users", "cases", "invoices"}) >>
InviteGroups ==
  << Added("legal_templates", {"offices"}), Added("member_invites", {"offices", "users"}) >>

OfficeGroups ==
  AccountGroups \o ClientGroups \o CaseGroups \o HearingGroups \o EnforcementGroups
    \o MoneyGroups \o WorkGroups \o TrailGroups \o InviteGroups
(* OFFICE_SPECS: the Cairo office, then the Alexandria office.             *)
SeedGroups == TemplateGroup \o OfficeGroups \o OfficeGroups
BarOf(n) == IF n <= Len(TemplateGroup \o OfficeGroups) THEN "cairo" ELSE "alex"

-----------------------------------------------------------------------------
VARIABLES rows,     \* committed rows
          refs,     \* foreign keys set: a row and the row it names
          bar,      \* bar number of each office
          phase,    \* where the program is, or how it ended
          step,     \* its next DELETE or group of rows
          found,    \* the demo offices it read
          userIds,  \* the users and enforcement files of these it read
          fileIds,
          gone,     \* rows it has deleted and not committed
          pending,  \* tables with rows added and not flushed
          missing,  \* NULLs in NOT NULL columns: a table and the id not yet assigned
          taken,    \* an office held the bar number it inserted
          began,    \* API writes before it read the ids
          writes, runs

data == <<rows, refs, bar, writes>>
program == <<phase, step, found, userIds, fileIds, gone, pending, missing, taken, began, runs>>
vars == <<data, program>>

Gens == 0 .. MaxWrites
Row == [office : Offices, table : Tables, gen : Gens]
Ended == {"idle", "blocked", "unseeded", "killed", "done"}

TypeOK ==
  /\ rows \subseteq Row /\ refs \subseteq Row \X Row
  /\ bar \in [Offices -> Bars]
  /\ phase \in Ended \cup {"purge", "seed"}
  /\ step \in 1 .. Len(SeedGroups)
  /\ found \subseteq Offices /\ userIds \subseteq Row /\ fileIds \subseteq Row
  /\ gone \subseteq rows
  /\ pending \subseteq Tables /\ missing \subseteq Tables \X Tables
  /\ taken \in BOOLEAN
  /\ began \in Gens /\ writes \in Gens /\ runs \in 0 .. MaxRuns

First(o, t) == [office |-> o, table |-> t, gen |-> 0]

(* Any enforcement file may or may not name its judgment.                  *)
Init ==
  /\ rows = {First(o, t) : o \in Offices, t \in Tables}
  /\ \E linked \in SUBSET Offices :
       refs = {<<First(k[1], k[2][1]), First(k[1], k[2][2])>> :
                 k \in (Offices \X ForeignKeys) \ ((Offices \ linked) \X Optional)}
  /\ bar \in {b \in [Offices -> Bars] : \A o, p \in Offices : b[o] = b[p] => o = p \/ b[o] = "none"}
  /\ phase = "idle" /\ step = 1 /\ found = {} /\ userIds = {} /\ fileIds = {}
  /\ gone = {} /\ pending = {} /\ missing = {} /\ taken = FALSE
  /\ began = 0 /\ writes = 0 /\ runs = 0

-----------------------------------------------------------------------------
(* _purge_existing_demo_data reads the offices and ids it will delete by.  *)
RowsOf(t, O) == {r \in rows : r.table = t /\ r.office \in O}
Demo == {r.office : r \in {q \in rows : q.table = "offices" /\ bar[q.office] \in DemoBars}}

run_seed ==
  /\ phase \in Ended
  /\ runs < MaxRuns
  /\ runs' = runs + 1
  /\ found' = Demo
  /\ userIds' = RowsOf("users", Demo)
  /\ fileIds' = RowsOf("enforcement_files", Demo)
  /\ phase' = IF Demo = {} THEN "seed" ELSE "purge"
  /\ step' = 1
  /\ began' = writes
  /\ missing' = {} /\ taken' = FALSE
  /\ UNCHANGED <<data, gone, pending>>

\* Mutant: the DELETEs lose their office filter.
DoomedAnywhere(t) == {r \in rows : r \notin gone /\ r.table = t}
(* The rows a DELETE selects among those committed by now.                 *)
Doomed(t) ==
  {r \in rows : r \notin gone /\ r.table = t /\
     CASE t = "enforcement_payments" -> \E f \in fileIds : <<r, f>> \in refs
       [] t = "active_sessions"      -> \E u \in userIds : <<r, u>> \in refs
       [] OTHER                      -> r.office \in found}

Orphans(D) == {k \in refs : k[2] \in D /\ k[1] \notin gone \cup D}

(* One DELETE.  Refused, it ends the program and its transaction.          *)
PurgeDelete ==
  /\ phase = "purge"
  /\ step <= Len(PurgeOrder)
  /\ LET D == Doomed(PurgeOrder[step]) IN
       IF Orphans(D) = {}
         THEN gone' = gone \cup D /\ step' = step + 1 /\ UNCHANGED phase
         ELSE gone' = {} /\ phase' = "blocked" /\ UNCHANGED step
  /\ UNCHANGED <<data, found, userIds, fileIds, pending, missing, taken, began, runs>>

(* The removal is committed before anything is put in its place.           *)
PurgeCommit ==
  /\ phase = "purge"
  /\ step > Len(PurgeOrder)
  /\ rows' = {r \in rows : r \notin gone}
  /\ refs' = {k \in refs : k[1] \notin gone}
  /\ gone' = {}
  /\ phase' = "seed" /\ step' = 1
  /\ UNCHANGED <<bar, writes, found, userIds, fileIds, pending, missing, taken, began, runs>>

(* The next group of rows; after the last one run_seed commits.  A flush   *)
(* is refused for a NULL or for a bar number another office has.           *)
SeedStep ==
  LET g        == SeedGroups[step]
      last     == step = Len(SeedGroups)
      nulls    == missing \cup ({g.table} \X (g.reads \cap pending))
      occupied == g.table = "offices" /\ \E r \in rows : r.table = "offices" /\ bar[r.office] = BarOf(step)
      flushed  == g.flush \/ last
      refused  == flushed /\ (nulls # {} \/ occupied)
  IN
  /\ phase = "seed"
  /\ missing' = nulls
  /\ taken' = occupied
  /\ pending' = IF flushed THEN {} ELSE pending \cup {g.table}
  /\ phase' = IF refused THEN "unseeded" ELSE IF last THEN "done" ELSE phase
  /\ step' = IF refused \/ last THEN step ELSE step + 1
  /\ UNCHANGED <<data, found, userIds, fileIds, gone, began, runs>>

(* The operator interrupts it, or the connection drops.                    *)
Kill ==
  /\ phase \in {"purge", "seed"}
  /\ phase' = "killed"
  /\ gone' = {} /\ pending' = {}
  /\ UNCHANGED <<data, step, found, userIds, fileIds, missing, taken, began, runs>>

-----------------------------------------------------------------------------
(* A handler of office o commits a row.  The rows it names are its own     *)
(* office's; ids taken unchecked from the payload may be office c's.  An   *)
(* INSERT that names a row the program has deleted waits for its end.      *)
Insert(o, c, t, unset) ==
  \E g \in [Parents(t) -> 0 .. writes] :
    LET new   == [office |-> o, table |-> t, gen |-> writes + 1]
        named == {[office |-> IF p \in {"offices", "users"} THEN o ELSE c, table |-> p, gen |-> g[p]] :
                     p \in Parents(t) \ unset}
    IN
    /\ writes < MaxWrites
    /\ named \subseteq rows \ gone
    /\ writes' = writes + 1
    /\ rows' = rows \cup {new}
    /\ refs' = refs \cup ({new} \X named)
    /\ UNCHANGED <<bar, program>>

create_case(o, c) == Insert(o, c, "cases", {})
create_judgment(o, c) == Insert(o, c, "judgments", {})
create_payment(o, c) == Insert(o, c, "payments", {})
create_enforcement_file(o, c) == \E unset \in {{}, {"judgments"}} : Insert(o, c, "enforcement_files", unset)
(* add_payment looks its file up in the office.                            *)
add_payment(o) == Insert(o, o, "enforcement_payments", {})
(* accept_invite adds a user, login a session, the audit hook its row.     *)
accept_invite(o) == Insert(o, o, "users", {})
login(o) == Insert(o, o, "active_sessions", {})
write_audit_log(o) == Insert(o, o, "audit_logs", {})

(* update_office: a number another office has is refused (409).            *)
update_office(o, b) ==
  /\ First(o, "offices") \in rows \ gone
  /\ b # bar[o]
  /\ b = "none" \/ \A r \in rows : r.table = "offices" => bar[r.office] # b
  /\ writes < MaxWrites
  /\ writes' = writes + 1
  /\ bar' = [bar EXCEPT ![o] = b]
  /\ UNCHANGED <<rows, refs, program>>

Next ==
  \/ run_seed \/ PurgeDelete \/ PurgeCommit \/ SeedStep \/ Kill
  \/ \E o, c \in Offices :
       \/ create_case(o, c) \/ create_judgment(o, c)
       \/ create_payment(o, c) \/ create_enforcement_file(o, c)
  \/ \E o \in Offices :
       \/ add_payment(o) \/ accept_invite(o) \/ login(o) \/ write_audit_log(o)
       \/ \E b \in Bars : update_office(o, b)

Spec == Init /\ [][Next]_vars

-----------------------------------------------------------------------------
(* The program removes the demo offices it read as a whole or not at all,  *)
(* and nothing else: no row of theirs is left, not even one the API        *)
(* inserted after the DELETE of its table had run, and no other is lost.   *)
PurgeAllOrNothing ==
  [][rows \ rows' # {} => rows \ rows' = {r \in rows : r.office \in found}]_vars

(* The order of the DELETEs suits the foreign keys but for one: a purge is *)
(* refused only because an enforcement file names a judgment, because a    *)
(* row of another office names one of these, or because the API inserted a *)
(* row after the ids were read.                                            *)
PurgeBlockedOnlyBy ==
  phase = "blocked" =>
    \E k \in refs :
      /\ k[2].office \in found
      /\ \/ <<k[1].table, k[2].table>> \in Optional
         \/ k[1].office \notin found
         \/ k[1].gen > began

(* Every id the seed copies into a NOT NULL column was assigned by an      *)
(* earlier flush, except the invoice's in the audit trail.                 *)
OnlyInvoiceIdUnassigned == missing \subseteq {<<"audit_logs", "invoices">>}

(* README.md: "This seeds full demo data (2 offices, ...)": a run that is  *)
(* not interrupted commits, unless an office holds one of its bar numbers. *)
SeedCompletes == phase = "unseeded" => taken
=============================================================================
